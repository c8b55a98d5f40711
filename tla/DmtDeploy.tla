----------------------------- MODULE DmtDeploy -----------------------------
(***************************************************************************)
(* The deployment of a DMT (the table that places volumes on data          *)
(* managers) by the orchestration manager: the state machine DmtDplyFSM of *)
(* OmDmtDeploy.cpp with its two regions, the tables of VolumePlacement,    *)
(* the pending services of the ClusterMap, and the services that receive   *)
(* the tables.  The legacy mode is modelled (enable_volumegrouping off),   *)
(* where every DM that joins or restarts drives the machine; the removal   *)
(* of a DM, the restart of the OM, and services marked INACTIVE_FAILED     *)
(* (to which volumes and closes are neither sent nor counted) are not.     *)
(*                                                                         *)
(* The OM is one record and an event is a function on it, because an       *)
(* action of the machine may raise an event that Boost MSM processes       *)
(* before process_event returns, and a handler of a response may raise two *)
(* events in a row.  Requests to a service, and its answers, are queues;   *)
(* the answer of a metadata pull joins its queue when the pull ends.       *)
(***************************************************************************)
EXTENDS Naturals, Sequences, SequencesExt, FiniteSets

CONSTANTS DM,          \* the data managers
          InitDM,      \* those the first committed table places volumes on
          AM, SM,      \* access managers and storage managers
          FaultKinds,  \* what may fail: a kind of request, or "add", a DM's addVolume
          MaxEpoch,    \* bound: deployments started
          MaxFaults,   \* bound: requests lost or answered with an error
          MaxRestarts, \* bound: restarts of a registered DM
          MaxFailures  \* failed deployments after which there is no retry

ASSUME DmtDeployAssumption ==
    /\ IsFiniteSet(DM) /\ IsFiniteSet(AM) /\ IsFiniteSet(SM)
    /\ InitDM \subseteq DM /\ InitDM # {}
    /\ DM \cap (AM \cup SM) = {} /\ AM \cap SM = {}
    /\ FaultKinds \subseteq {"vol", "add", "pull", "dmt", "close", "abort"}
    /\ {MaxEpoch, MaxFaults, MaxRestarts, MaxFailures} \subseteq Nat

VARIABLES
    om,      \* the orchestration manager, see InitOm
    svc,     \* per service: the tables it knows and the one it uses
    reg,     \* DMs that started and whose registration is under way
    req,     \* per service: requests it has not executed yet
    ans,     \* per service: answers the OM has not handled yet
    pulls,   \* pulls of metadata running on DMs: dm, ep, aborted
    lost,    \* requests nobody will answer: the OM times them out
    pulled,  \* <<dm, ep>>: the pull of deployment ep ended well on dm
    faults, restarts

vars == <<om, svc, reg, req, ans, pulls, lost, pulled, faults, restarts>>

Svc == DM \cup AM \cup SM
Clients == AM \cup SM

(* A table: its version and the DMs it places volumes on (0 is DMT_VER_INVALID) *)
NoDmt == [ver |-> 0, nodes |-> {}]
FirstDmt == [ver |-> 1, nodes |-> InitDM]
NoOut == [s \in Svc |-> <<>>]

(* The state of the OM: the two regions of the machine, the tables, the     *)
(* cluster map, the lists of pending services, the acks each state waits    *)
(* for, deferred events, armed timers, the count of failures, the DMs it    *)
(* knows; then the requests of this step, and what the properties need:     *)
(* deployments started, the DMs that had to pull in this one, whether a     *)
(* committed table was ever undone, whether an fds_verify failed.           *)
InitOm ==
    [st |-> "Idle", err |-> "AllOk",
     committed |-> FirstDmt, target |-> NoDmt, prev |-> NoDmt, rebal |-> FALSE,
     cur |-> InitDM, added |-> {}, resync |-> {}, ongoing |-> {},
     pendUp |-> {}, pendResync |-> {},
     volAcks |-> {}, pullAcks |-> {}, commitAcks |-> 0, closeAcks |-> 0,
     abortAcks |-> 0, rollbackAcks |-> 0,
     deferred |-> <<>>, wait |-> FALSE, retry |-> FALSE, failures |-> 0, agents |-> InitDM,
     out |-> NoOut,
     epoch |-> 0, need |-> {}, undone |-> FALSE, panic |-> FALSE]

Init ==
    /\ om = InitOm
    /\ svc = [s \in Svc |-> IF s \in DM \ InitDM THEN [known |-> {}, cur |-> NoDmt]
                            ELSE [known |-> {FirstDmt}, cur |-> FirstDmt]]
    /\ reg = {} /\ req = NoOut /\ ans = NoOut
    /\ pulls = {} /\ lost = {} /\ pulled = {}
    /\ faults = 0 /\ restarts = 0

Request(k, t, ep) == [kind |-> k, dmt |-> t, ep |-> ep]
Send(o, S, k, t) ==
    [o EXCEPT !.out = [s \in Svc |-> IF s \in S THEN Append(@[s], Request(k, t, o.epoch)) ELSE @[s]]]
Verify(o, b) == [o EXCEPT !.panic = @ \/ ~b]

-----------------------------------------------------------------------------
(* The forward path of the machine, last state first: an action that waits *)
(* for nobody raises the event that takes it to the next state.            *)

(* DACT_UpdDone *)
UpdDone(o) ==
    [o EXCEPT !.st = "Idle", !.target = NoDmt, !.failures = 0,
              !.added = {}, !.resync = {}, !.retry = TRUE]

(* DACT_Close: the close goes to the DMs of the cluster map *)
Close(o) ==
    LET c == [Send(o, o.cur, "close", o.committed)
              EXCEPT !.st = "Done", !.rebal = FALSE, !.closeAcks = Cardinality(o.cur)]
    IN IF o.cur = {} THEN UpdDone(c) ELSE c

(* DACT_BcastAM: the table goes to AMs and SMs, after all DMs have it *)
BcastAM(o) ==
    LET c == [Send(o, Clients, "dmt", o.committed)
              EXCEPT !.st = "Close", !.commitAcks = Cardinality(Clients)]
    IN IF Clients = {} THEN Close(c) ELSE c

(* DACT_Commit: the target becomes the committed table, the previous one    *)
(* is remembered, and every DM the OM knows gets the new one                *)
Commit(o) ==
    [Send(o, o.agents, "dmt", o.target)
     EXCEPT !.st = "BcastAM", !.prev = o.committed, !.committed = o.target,
            !.commitAcks = Cardinality(o.agents), !.ongoing = {}]

(* beginRebalance: the DMs new in the target and those that resync pull     *)
(* metadata; when that is the whole target, a lone survivor is the source.  *)
PullSet(o) ==
    LET new == (o.target.nodes \ o.committed.nodes) \cup o.resync
        stay == o.target.nodes \cap o.committed.nodes
    IN IF new # o.target.nodes THEN new
       ELSE IF Cardinality(stay) = 1 THEN new \ stay ELSE {}

(* DACT_Rebalance *)
Rebalance(o) ==
    LET ps == PullSet(o)
        r == [Verify(Send(o, ps, "pull", o.target), ~o.rebal)
              EXCEPT !.st = "Commit", !.rebal = TRUE,
                     !.pullAcks = ps, !.ongoing = ps, !.need = ps]
    IN IF ps = {} THEN Commit(r) ELSE r

(* DACT_Start: the volumes go to the DMs just added, unless one resyncs *)
Start(o) ==
    LET S == IF o.resync = {} THEN o.added ELSE {}
    IN [Send(o, S, "vol", o.target) EXCEPT !.st = "Rebalance", !.volAcks = S]

(* GRD_DplyStart: the pending services enter the cluster map whatever the   *)
(* guard says; then computeDMT: the next version over the members of the    *)
(* map, unless nothing changes and nobody resyncs.  DACT_Waiting.           *)
DplyStart(o) ==
    LET c == [o EXCEPT !.cur = @ \cup o.pendUp \cup o.pendResync, !.added = @ \cup o.pendUp,
                       !.resync = @ \cup o.pendResync, !.pendUp = {}, !.pendResync = {}]
    IN IF c.cur # {} /\ (c.cur # c.committed.nodes \/ c.resync # {})
       THEN [c EXCEPT !.target = [ver |-> c.committed.ver + 1, nodes |-> c.cur],
                      !.st = "Waiting", !.wait = TRUE, !.epoch = @ + 1]
       ELSE c

-----------------------------------------------------------------------------
(* The error region. *)

(* Fault: the rebalancing flag survives a failed deployment. *)
EndErrorStillRebalancing(o) ==
    [o EXCEPT !.err = "AllOk", !.st = "Idle", !.ongoing = {},
              !.failures = @ + 1, !.retry = @ \/ (o.failures + 1 < MaxFailures),
              !.deferred = <<>>]

(* DACT_EndError and, in the other region, DACT_Recovered: deferred events  *)
(* find no transition in DST_Idle                                           *)
EndError(o) ==
    [o EXCEPT !.err = "AllOk", !.st = "Idle", !.rebal = FALSE, !.ongoing = {},
              !.failures = @ + 1, !.retry = @ \/ (o.failures + 1 < MaxFailures),
              !.deferred = <<>>]

(* undoTargetDmtCommit: the target is forgotten, and when it was already    *)
(* committed the previous table is the committed one again                  *)
UndoTarget(o) ==
    IF o.committed.ver = o.target.ver
    THEN [o EXCEPT !.committed = o.prev, !.prev = NoDmt, !.target = NoDmt, !.undone = TRUE]
    ELSE [o EXCEPT !.target = NoDmt]

(* DACT_Error: without a target there is nothing to recover; otherwise all  *)
(* DMs abort, and clients get the previous table if the target was committed *)
ErrorFound(o) ==
    IF o.target = NoDmt THEN EndError(o)
    ELSE LET u == UndoTarget(o)
             back == IF o.committed.ver = o.target.ver THEN Clients ELSE {}
             a == [Send(u, u.agents, "abort", u.committed)
                   EXCEPT !.err = "Error", !.abortAcks = Cardinality(u.agents)]
         IN IF back = {} THEN a
            ELSE [Send(a, back, "dmt", u.committed) EXCEPT !.rollbackAcks = Cardinality(back)]

(* Fault: the DM leaves the map but stays in the set of those that resync. *)
RmAddedSvcHalf(o, d) ==
    IF d \in o.resync \cap o.cur THEN [o EXCEPT !.cur = @ \ {d}] ELSE o

(* rmAddedSvcFromAllMaps: for a DM the code looks into the set of added SMs, *)
(* so only a DM that resyncs leaves the cluster map                          *)
RmAddedSvc(o, d) ==
    IF d \in o.resync \cap o.cur THEN [o EXCEPT !.resync = @ \ {d}, !.cur = @ \ {d}] ELSE o

(* DACT_ChkEndErr *)
ChkEndErr(o, e) ==
    LET m == IF e.svc \in DM /\ e.res = "timeout" THEN RmAddedSvc(o, e.svc) ELSE o
        c == IF e.abort THEN Verify([m EXCEPT !.abortAcks = IF @ > 0 THEN @ - 1 ELSE 0], m.abortAcks > 0)
             ELSE [m EXCEPT !.rollbackAcks = IF @ > 0 THEN @ - 1 ELSE 0]
    IN IF c.abortAcks = 0 /\ c.rollbackAcks = 0 THEN EndError(c) ELSE c

-----------------------------------------------------------------------------
(* Events with a guard that counts acks. *)

(* GRD_DmtRebal: an ack without a DM only looks at the set *)
VolAck(o, S) ==
    LET c == [o EXCEPT !.volAcks = @ \ S]
    IN IF c.volAcks = {} THEN Rebalance(c) ELSE c

(* GRD_Commit: the ack carries no version *)
PushMetaAck(o, d) ==
    LET c == Verify([o EXCEPT !.pullAcks = @ \ {d}], d \in o.pullAcks)
    IN IF c.pullAcks = {} THEN Commit(c) ELSE c

(* Fault: the first ack of a DM is enough. *)
CommitAckDMFirst(o, e) ==
    IF e.svc \notin DM \/ e.ver # o.committed.ver THEN o ELSE BcastAM(o)

(* GRD_BcastAM: acks of other services and of old versions are ignored *)
CommitAckDM(o, e) ==
    IF e.svc \notin DM THEN o
    ELSE LET v == Verify(o, e.ver <= o.committed.ver)
         IN IF e.ver # o.committed.ver THEN v
            ELSE LET c == Verify([v EXCEPT !.commitAcks = IF @ > 0 THEN @ - 1 ELSE 0], v.commitAcks > 0)
                 IN IF c.commitAcks = 0 THEN BcastAM(c) ELSE c

(* GRD_Close *)
CommitAckClient(o, e) ==
    LET v == Verify(o, e.ver <= o.committed.ver)
        c == [v EXCEPT !.commitAcks = IF @ > 0 THEN @ - 1 ELSE 0]
    IN IF e.ver # o.committed.ver THEN v ELSE IF c.commitAcks = 0 THEN Close(c) ELSE c

(* GRD_Done *)
CloseOk(o, e) ==
    LET c == Verify([o EXCEPT !.closeAcks = IF @ > 0 THEN @ - 1 ELSE 0], e.ver = o.committed.ver)
    IN IF c.closeAcks = 0 THEN UpdDone(c) ELSE c

Defer(o, e) == [o EXCEPT !.deferred = Append(@, e)]

(* The transition table.  DST_Error is an interrupt state: while the        *)
(* machine is in it every event but the two of its own rows is dropped.     *)
Dispatch(o, e) ==
    IF o.err = "Error" THEN IF e.k = "recovery" THEN ChkEndErr(o, e) ELSE o
    ELSE CASE e.k = "errorFound"                       -> ErrorFound(o)
           [] e.k = "up" /\ e.svc \in o.ongoing        -> ErrorFound(o)
           [] e.k = "deploy" /\ o.st = "Idle"          -> DplyStart(o)
           [] e.k = "timeout" /\ o.st = "Waiting"      -> Start(o)
           [] e.k = "volAck" /\ o.st = "Rebalance"     -> VolAck(o, {e.svc})
           [] e.k = "volNone" /\ o.st = "Rebalance"    -> VolAck(o, {})
           [] e.k = "pushMeta" /\ o.st = "Rebalance"   -> Defer(o, e)
           [] e.k = "pushMeta" /\ o.st = "Commit"      -> PushMetaAck(o, e.svc)
           [] e.k = "commitAck" /\ o.st = "Commit"     -> Defer(o, e)
           [] e.k = "commitAck" /\ o.st = "BcastAM"    -> CommitAckDM(o, e)
           [] e.k = "commitAck" /\ o.st = "Close"      -> CommitAckClient(o, e)
           [] e.k = "closeOk" /\ o.st = "Close"        -> Defer(o, e)
           [] e.k = "closeOk" /\ o.st = "Done"         -> CloseOk(o, e)
           [] OTHER                                    -> o

(* process_event: deferred events are tried again after a transition *)
Process(o, e) ==
    LET o1 == Dispatch(o, e)
    IN IF o1.st = o.st \/ o1.deferred = <<>> THEN o1
       ELSE FoldLeft(Dispatch, [o1 EXCEPT !.deferred = <<>>], o1.deferred)

Evt(k, s) == [k |-> k, svc |-> s]

(* The OM ends the step in state o and its requests leave *)
Become(o) ==
    /\ om' = [o EXCEPT !.out = NoOut]
    /\ req' = [s \in Svc |-> req[s] \o o.out[s]]

-----------------------------------------------------------------------------
(* The services. *)

Answer(s, m, r) == ans' = [ans EXCEPT ![s] = Append(@, [kind |-> m.kind, dmt |-> m.dmt, res |-> r])]
Arrived(s, k) == req[s] # <<>> /\ Head(req[s]).kind = k
Taken(s) == req' = [req EXCEPT ![s] = Tail(@)]

(* DMTManager::add refuses a version already known as a duplicate, which     *)
(* DMSvcHandler, SMSvcHandler and AmProcessor_impl::updateDmt turn into OK.  *)
Knows(s, v) == \E t \in svc[s].known : t.ver = v
UpdateDmt(s) ==
    LET m == Head(req[s]) IN
    /\ Arrived(s, "dmt")
    /\ Taken(s) /\ Answer(s, m, "ok")
    /\ svc' = IF Knows(s, m.dmt.ver) THEN svc
              ELSE [svc EXCEPT ![s] = [known |-> @.known \cup {m.dmt}, cur |-> m.dmt]]
    /\ UNCHANGED <<om, reg, pulls, lost, pulled, faults, restarts>>

(* The volume notification and the close are acknowledged at once; NotifyAddVol *)
(* answers with the error of addVolume.                                         *)
Acknowledge(d) ==
    /\ \E k \in {"vol", "close"} : Arrived(d, k)
    /\ Taken(d)
    /\ \/ Answer(d, Head(req[d]), "ok") /\ UNCHANGED faults
       \/ /\ Arrived(d, "vol") /\ "add" \in FaultKinds
          /\ faults < MaxFaults /\ faults' = faults + 1
          /\ Answer(d, Head(req[d]), "err")
    /\ UNCHANGED <<om, svc, reg, pulls, lost, pulled, restarts>>

StartPull(d) ==
    /\ Arrived(d, "pull")
    /\ Taken(d)
    /\ pulls' = pulls \cup {[dm |-> d, ep |-> Head(req[d]).ep, aborted |-> FALSE]}
    /\ UNCHANGED <<om, svc, reg, ans, lost, pulled, faults, restarts>>

(* ackStaticMigrationComplete, or the answer of abortMigrationReal *)
EndPull(p) ==
    /\ p \in pulls
    /\ pulls' = pulls \ {p}
    /\ \/ ~p.aborted /\ pulled' = pulled \cup {<<p.dm, p.ep>>} /\ UNCHANGED faults
          /\ Answer(p.dm, Request("pull", NoDmt, p.ep), "ok")
       \/ p.aborted /\ UNCHANGED <<pulled, faults>>
          /\ Answer(p.dm, Request("pull", NoDmt, p.ep), "err")
       \/ ~p.aborted /\ "pull" \in FaultKinds /\ faults < MaxFaults /\ faults' = faults + 1
          /\ Answer(p.dm, Request("pull", NoDmt, p.ep), "err") /\ UNCHANGED pulled
    /\ UNCHANGED <<om, svc, reg, req, lost, restarts>>

(* A DM process starts: it takes the committed table of the OM, what it was  *)
(* asked before is never answered, and its registration follows.             *)
Boot(d, rest) ==
    /\ svc' = [svc EXCEPT ![d] = [known |-> {om.committed}, cur |-> om.committed]]
    /\ req' = [req EXCEPT ![d] = <<>>]
    /\ lost' = lost \cup {[kind |-> rest[i].kind, dmt |-> rest[i].dmt, svc |-> d, ep |-> rest[i].ep] : i \in DOMAIN rest}
                    \cup {[kind |-> "pull", dmt |-> NoDmt, svc |-> d, ep |-> p.ep] : p \in {p \in pulls : p.dm = d}}
    /\ pulls' = {p \in pulls : p.dm # d}
    /\ reg' = reg \cup {d}

DmStarts(d) ==
    /\ d \notin reg
    /\ IF d \in om.agents THEN restarts < MaxRestarts /\ restarts' = restarts + 1 ELSE UNCHANGED restarts
    /\ Boot(d, req[d])
    /\ UNCHANGED <<om, ans, pulled, faults>>

(* Fault: the migration manager is not told of the abort. *)
AbortMigrationIgnored(d) ==
    LET m == Head(req[d]) IN
    /\ Arrived(d, "abort")
    /\ svc' = [svc EXCEPT ![d].cur = IF Knows(d, m.dmt.ver)
                  THEN CHOOSE t \in svc[d].known : t.ver = m.dmt.ver ELSE NoDmt]
    /\ Taken(d) /\ Answer(d, m, "ok")
    /\ UNCHANGED <<om, reg, pulls, lost, pulled, faults, restarts>>

(* NotifyDMAbortMigration: revert to the version of the message and abort    *)
(* what runs.  A DM that has tables but not this one fails the fds_verify of  *)
(* commitDMT and is started again.                                           *)
AbortMigration(d) ==
    LET m == Head(req[d]) IN
    /\ Arrived(d, "abort")
    /\ IF ~Knows(d, m.dmt.ver) /\ svc[d].known # {}
       THEN Boot(d, req[d]) /\ UNCHANGED ans
       ELSE /\ svc' = [svc EXCEPT ![d].cur = IF Knows(d, m.dmt.ver)
                          THEN CHOOSE t \in svc[d].known : t.ver = m.dmt.ver ELSE NoDmt]
            /\ pulls' = {IF p.dm = d THEN [p EXCEPT !.aborted = TRUE] ELSE p : p \in pulls}
            /\ Taken(d) /\ Answer(d, m, "ok")
            /\ UNCHANGED <<lost, reg>>
    /\ UNCHANGED <<om, pulled, faults, restarts>>

(* A request is lost, or an AM that shuts down answers a table with an error *)
Fail(s) ==
    LET m == Head(req[s]) IN
    /\ faults < MaxFaults /\ faults' = faults + 1
    /\ req[s] # <<>> /\ m.kind \in FaultKinds
    /\ Taken(s)
    /\ \/ lost' = lost \cup {[kind |-> m.kind, dmt |-> m.dmt, svc |-> s, ep |-> m.ep]} /\ UNCHANGED ans
       \/ s \in AM /\ m.kind = "dmt" /\ Answer(s, m, "err") /\ UNCHANGED lost
    /\ UNCHANGED <<om, svc, reg, pulls, pulled, restarts>>

-----------------------------------------------------------------------------
(* The OM. *)

(* om_dmt_update_cluster: the event, then a volume ack of nobody in case     *)
(* there is none to wait for                                                 *)
UpdateCluster(o) == Process(Process(o, Evt("deploy", 0)), Evt("volNone", 0))

(* The bound on deployments holds back what would start one more *)
MayDeploy == om.st = "Idle" => om.epoch < MaxEpoch

(* setupNewNode: a DM registers.  One that registers again waits to resync   *)
(* and is sent the volumes again, after the events.                          *)
Register(d) ==
    LET again == d \in om.agents
        o == IF again THEN [om EXCEPT !.pendResync = @ \cup {d}]
             ELSE [om EXCEPT !.pendUp = @ \cup {d}, !.agents = @ \cup {d}]
        u == UpdateCluster(Process(o, Evt("up", d)))
    IN /\ d \in reg /\ MayDeploy
       /\ reg' = reg \ {d}
       /\ Become(IF again THEN Send(u, {d}, "vol", u.committed) ELSE u)
       /\ UNCHANGED <<svc, ans, pulls, lost, pulled, faults, restarts>>

(* RetryTimerTask *)
RetryTimer ==
    /\ om.retry /\ MayDeploy
    /\ Become(UpdateCluster([om EXCEPT !.retry = FALSE]))
    /\ UNCHANGED <<svc, reg, ans, pulls, lost, pulled, faults, restarts>>

(* WaitingTimerTask: om_dmt_waiting_timeout *)
WaitingTimer ==
    /\ om.wait
    /\ Become(Process(Process([om EXCEPT !.wait = FALSE], Evt("timeout", 0)), Evt("volNone", 0)))
    /\ UNCHANGED <<svc, reg, ans, pulls, lost, pulled, faults, restarts>>

(* Fault: only a DM that has the volume counts. *)
VolCmdRespOkOnly(o, s, r) == IF r = "ok" THEN Process(o, Evt("volAck", s)) ELSE o

(* om_vol_cmd_resp: a DM that does not answer, or cannot be reached, is      *)
(* counted like one that has the volume (a duplicate is an ok here).  Any    *)
(* other error undoes the creation of the volume and raises no event.        *)
VolCmdResp(o, s, r) == IF r = "err" THEN o ELSE Process(o, Evt("volAck", s))

(* The handlers of the responses: om_vol_cmd_resp, om_pullmeta_resp,         *)
(* om_recv_dmt_commit_resp (which always raises a recovery event too),       *)
(* om_recv_dmt_close_resp and om_send_abort_dm_migration_resp.  A pull never *)
(* ends with ERR_VOL_NOT_FOUND, which om_pullmeta_resp would turn into OK.   *)
Recover(abort, s, r) == [k |-> "recovery", abort |-> abort, svc |-> s, res |-> r]
Handled(s, k, v, r) ==
    CASE k = "vol"   -> VolCmdResp(om, s, r)
      [] k = "pull"  -> Process(om, Evt(IF r = "ok" THEN "pushMeta" ELSE "errorFound", s))
      [] k = "dmt"   -> Process(Process(om,
                            IF r = "ok" \/ (r = "timeout" /\ s \notin DM)
                            THEN [k |-> "commitAck", svc |-> s, ver |-> v] ELSE Evt("errorFound", s)),
                          Recover(FALSE, s, r))
      [] k = "close" -> Process(om, IF r = "ok" THEN [k |-> "closeOk", svc |-> s, ver |-> v]
                                    ELSE Evt("errorFound", s))
      [] k = "abort" -> Process(om, Recover(TRUE, s, r))

HandleAnswer(s) ==
    /\ ans[s] # <<>>
    /\ ans' = [ans EXCEPT ![s] = Tail(@)]
    /\ Become(Handled(s, Head(ans[s]).kind, Head(ans[s]).dmt.ver, Head(ans[s]).res))
    /\ UNCHANGED <<svc, reg, pulls, lost, pulled, faults, restarts>>

RequestTimeout(m) ==
    /\ m \in lost
    /\ lost' = lost \ {m}
    /\ Become(Handled(m.svc, m.kind, m.dmt.ver, "timeout"))
    /\ UNCHANGED <<svc, reg, ans, pulls, pulled, faults, restarts>>

Next ==
    \/ \E s \in Svc : UpdateDmt(s) \/ Fail(s) \/ HandleAnswer(s)
    \/ \E d \in DM : Acknowledge(d) \/ StartPull(d) \/ AbortMigration(d) \/ DmStarts(d) \/ Register(d)
    \/ \E p \in pulls : EndPull(p)
    \/ \E m \in lost : RequestTimeout(m)
    \/ RetryTimer \/ WaitingTimer

Spec == Init /\ [][Next]_vars
-----------------------------------------------------------------------------
Dmt == [ver : Nat, nodes : SUBSET DM]

(* Types *)
TypeOK ==
    /\ om.st \in {"Idle", "Waiting", "Rebalance", "Commit", "BcastAM", "Close", "Done"}
    /\ om.err \in {"AllOk", "Error"}
    /\ {om.committed, om.target, om.prev} \subseteq Dmt
    /\ om.agents \subseteq DM /\ om.cur \subseteq om.agents /\ om.out = NoOut
    /\ om.added \subseteq om.agents /\ om.resync \subseteq om.cur
    /\ svc \in [Svc -> [known : SUBSET Dmt, cur : Dmt]]
    /\ reg \subseteq DM /\ {p.dm : p \in pulls} \subseteq DM /\ {m.svc : m \in lost} \subseteq Svc

(* When the OM has committed the target (states DST_BcastAM to DST_Done) the *)
(* pull of this very deployment has ended well on every DM that had to pull: *)
(* "all DMs ongoing staticMigrations have completed" (DACT_Commit).  An ack   *)
(* of a pull names no deployment, so a late one could be taken for it.       *)
CommitAfterSync ==
    om.st \in {"BcastAM", "Close", "Done"} => \A d \in om.need : <<d, om.epoch>> \in pulled

(* As long as no committed table was undone, an AM or SM never uses a table  *)
(* newer than the one used by a DM that it sends the DM to: DST_BcastAM waits *)
(* for all DMs before DST_Close sends the table to clients.                   *)
ClientsNeverAhead ==
    ~om.undone => \A s \in Clients : \A d \in svc[s].cur.nodes : svc[d].cur.ver >= svc[s].cur.ver

(* No fds_verify of the machine fails, whatever late or double answer it     *)
(* gets: acks are from DMs that were asked, none is of a version not yet      *)
(* committed, counters never go below zero, rebalancing is not started twice. *)
NoPanic == ~om.panic

Quiet == req = NoOut /\ ans = NoOut /\ lost = {} /\ pulls = {}

(* The machine is never stuck: when no request, answer, pull or waiting      *)
(* timer is left to act, it is back in DST_Idle and DST_AllOk.               *)
NeverStuck ==
    (Quiet /\ ~om.wait) => (om.st = "Idle" /\ om.err = "AllOk")

(* After a deployment, failed or not, with nothing left in flight, every AM  *)
(* and SM uses the table the OM has committed: DACT_Error sends the previous *)
(* one because "AM and SM has already committed target DMT. Need to roll     *)
(* them back."                                                               *)
RolledBack ==
    (om.st = "Idle" /\ om.err = "AllOk" /\ Quiet) => \A s \in Clients : svc[s].cur = om.committed
=============================================================================
