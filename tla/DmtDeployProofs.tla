-------------------------- MODULE DmtDeployProofs --------------------------
(***************************************************************************)
(* Proofs about DmtDeploy.  An event is a function on the record of the    *)
(* OM, so the work is in lemmas on those functions: each keeps the record  *)
(* Good, first its shape (fields, tables, the place of the target in the   *)
(* life of a deployment), then what it may have sent since the step began. *)
(* What remains is how services move tables, and the folding of deferred   *)
(* events, an induction on naturals.  The second half shows in the same    *)
(* way that every state waits for acks that will come.                     *)
(***************************************************************************)
EXTENDS DmtDeploy, FiniteSetTheorems, WellFoundedInduction, TLAPS

States == {"Idle", "Waiting", "Rebalance", "Commit", "BcastAM", "Close", "Done"}
Kinds == {"vol", "pull", "dmt", "close", "abort"}
Msg == [kind : Kinds, dmt : Dmt, ep : Nat]
Event ==
    [k : {"up", "deploy", "timeout", "volAck", "volNone", "pushMeta", "errorFound"}, svc : Svc \cup {0}]
        \cup [k : {"commitAck", "closeOk"}, svc : Svc, ver : Nat]
Recovery == [k : {"recovery"}, abort : BOOLEAN, svc : Svc, res : {"ok", "err", "timeout"}]
Fields ==
    {"st", "err", "committed", "target", "prev", "rebal", "cur", "added", "resync",
     "ongoing", "pendUp", "pendResync", "volAcks", "pullAcks", "commitAcks", "closeAcks",
     "abortAcks", "rollbackAcks", "deferred", "wait", "retry", "failures", "agents", "out",
     "epoch", "need", "undone", "panic"}

(* The types of the OM's record *)
Shape(o) ==
    /\ DOMAIN o = Fields
    /\ o.st \in States /\ o.err \in {"AllOk", "Error"}
    /\ o.committed \in Dmt /\ o.target \in Dmt /\ o.prev \in Dmt
    /\ o.agents \subseteq DM /\ o.cur \subseteq o.agents
    /\ o.added \subseteq o.agents /\ o.resync \subseteq o.cur
    /\ o.pendUp \subseteq o.agents /\ o.pendResync \subseteq o.agents
    /\ o.epoch \in Nat /\ o.commitAcks \in Nat
    /\ o.out \in [Svc -> Seq(Msg)]
    /\ o.deferred \in Seq(Event)

(* There is a target from the start of a deployment to its end or failure:  *)
(* the next version until the commit, then the committed table itself       *)
Stage(o) ==
    /\ o.err = "AllOk" =>
         /\ o.st = "Idle" => o.target = NoDmt
         /\ o.st \in {"Waiting", "Rebalance", "Commit"} =>
              o.target.ver = o.committed.ver + 1 /\ o.target.nodes \subseteq o.agents
         /\ o.st \in {"BcastAM", "Close", "Done"} => o.target = o.committed
    /\ o.err = "Error" => o.target = NoDmt

(* What the OM did since the step began, relative to g: the table c that was *)
(* committed then, the DMs that had it, the DMs asked to take it whose       *)
(* answer is awaited, whether the OM was in DST_BcastAM, whether a committed *)
(* table was already undone: then nothing is claimed.                        *)
Tabled(m) == m.kind \in {"dmt", "abort"}
IsV(m, v) == m.kind = "dmt" /\ m.dmt.ver = v
Broad(o) == o.st = "BcastAM" /\ o.err = "AllOk"
Stale(e, g) ==
    e.k = "commitAck" /\ e.svc \in DM /\ ~g.undone =>
       e.ver <= g.c.ver /\ (g.bcast => e.ver < g.c.ver)

(* The committed table is c, or the next one, just sent to all DMs *)
Moved(o, g) ==
    \/ o.committed = g.c
    \/ /\ o.committed.ver = g.c.ver + 1 /\ Broad(o)
       /\ Cardinality(o.agents) <= o.commitAcks
       /\ \A d \in o.committed.nodes : \E i \in DOMAIN o.out[d] : IsV(o.out[d][i], g.c.ver + 1)
(* DMs are sent aborts to c, then at most once the next table *)
SentDM(o, g) ==
    \A d \in DM : \A i \in DOMAIN o.out[d] :
       /\ o.out[d][i].kind = "abort" => o.out[d][i].dmt.ver = g.c.ver
       /\ o.out[d][i].kind = "dmt" =>
            /\ o.out[d][i].dmt.ver = g.c.ver + 1
            /\ o.committed.ver = g.c.ver + 1 /\ d \in o.agents
            /\ \A j \in DOMAIN o.out[d] : i < j => ~Tabled(o.out[d][j])
(* Clients are sent c, and only when its DMs have it *)
SentClient(o, g) ==
    \A s \in Clients : \A i \in DOMAIN o.out[s] :
       o.out[s][i].kind = "dmt" => o.out[s][i].dmt = g.c /\ g.c.nodes \subseteq g.have
(* While c is being sent to DMs, commitAcks covers the answers awaited and   *)
(* k, the answer that this step handles                                      *)
Awaiting(o, g, k) ==
    o.committed = g.c /\ Broad(o) =>
       /\ g.bcast /\ g.c.nodes \subseteq g.have \cup g.asked
       /\ Cardinality(g.asked) + k <= o.commitAcks
Since(o, g, k) ==
    /\ g.undone => o.undone
    /\ ~o.undone =>
       /\ Moved(o, g) /\ SentDM(o, g) /\ SentClient(o, g) /\ Awaiting(o, g, k)
       /\ \A i \in DOMAIN o.deferred : Stale(o.deferred[i], g)
       /\ k = 1 => o.committed = g.c /\ Broad(o)

Good(o, g, k) == Shape(o) /\ Stage(o) /\ Since(o, g, k)
World(g) == g.c \in Dmt /\ IsFiniteSet(g.asked)

(* Nothing was committed yet in this step *)
Old(o, g) == ~o.undone => o.committed = g.c

-----------------------------------------------------------------------------
(* Requests *)

(* The queues of p are those of o, with m appended for the services in S *)
Appended(o, p, S, m) ==
    /\ p.out \in [Svc -> Seq(Msg)]
    /\ \A s \in Svc : DOMAIN o.out[s] \subseteq DOMAIN p.out[s] /\ DOMAIN p.out[s] \subseteq Nat
    /\ \A s \in Svc : \A i \in DOMAIN o.out[s] : p.out[s][i] = o.out[s][i]
    /\ \A s \in Svc : \A i \in DOMAIN p.out[s] \ DOMAIN o.out[s] :
          s \in S /\ p.out[s][i] = m /\ \A j \in DOMAIN p.out[s] : j <= i
    /\ \A s \in Svc \cap S : \E i \in DOMAIN p.out[s] : p.out[s][i] = m

(* Send appends the request to the queues of its addressees. *)
LEMMA SendOut ==
    ASSUME NEW o, Shape(o), NEW S, NEW k \in Kinds, NEW t \in Dmt, NEW p, p = Send(o, S, k, t)
    PROVE  Appended(o, p, S, Request(k, t, o.epoch))
  <1> DEFINE m == Request(k, t, o.epoch)
  <1>1. m \in Msg
    BY DEF Request, Msg, Shape
  <1>2. p.out = [s \in Svc |-> IF s \in S THEN Append(o.out[s], m) ELSE o.out[s]]
    BY DEF Shape, Fields, Send
  <1>3. \A s \in Svc : o.out[s] \in Seq(Msg)
    BY DEF Shape
  <1> HIDE DEF m
  <1>4. \A s \in Svc : p.out[s] \in Seq(Msg)
    BY <1>1, <1>2, <1>3
  <1>5. p.out \in [Svc -> Seq(Msg)]
    BY <1>2, <1>4
  <1>6. ASSUME NEW s \in Svc, s \notin S
        PROVE  p.out[s] = o.out[s] /\ DOMAIN o.out[s] \subseteq Nat
    BY <1>2, <1>3, <1>6
  <1>7. ASSUME NEW s \in Svc, s \in S
        PROVE  /\ DOMAIN o.out[s] \subseteq DOMAIN p.out[s] /\ DOMAIN p.out[s] \subseteq Nat
               /\ \A i \in DOMAIN o.out[s] : p.out[s][i] = o.out[s][i]
               /\ \A i \in DOMAIN p.out[s] \ DOMAIN o.out[s] :
                     p.out[s][i] = m /\ \A j \in DOMAIN p.out[s] : j <= i
               /\ \E i \in DOMAIN p.out[s] : p.out[s][i] = m
    <2>1. p.out[s] = Append(o.out[s], m) /\ o.out[s] \in Seq(Msg)
      BY <1>2, <1>3, <1>7
    <2>2. /\ DOMAIN p.out[s] = 1 .. (Len(o.out[s]) + 1) /\ Len(o.out[s]) \in Nat
          /\ DOMAIN o.out[s] = 1 .. Len(o.out[s])
          /\ p.out[s][Len(o.out[s]) + 1] = m
          /\ \A i \in DOMAIN o.out[s] : p.out[s][i] = o.out[s][i]
      BY <1>1, <2>1
    <2> QED BY <2>2
  <1> QED BY <1>5, <1>6, <1>7 DEF m, Appended

(* Send changes nothing but the requests. *)
LEMMA SendShape ==
    ASSUME NEW o, Shape(o), NEW S, NEW k \in Kinds, NEW t \in Dmt, NEW p, p = Send(o, S, k, t)
    PROVE  /\ Shape(p)
           /\ \A f \in Fields \ {"out"} : p[f] = o[f]
  <1>1. p.out \in [Svc -> Seq(Msg)]
    BY SendOut DEF Appended
  <1>2. DOMAIN p = Fields /\ \A f \in Fields \ {"out"} : p[f] = o[f]
    BY DEF Shape, Fields, Send
  <1> QED BY <1>1, <1>2 DEF Shape, Fields

(* A request that carries no table leaves the OM's record as good as it was: *)
(* DACT_Start, DACT_Rebalance, DACT_Close.                                   *)
LEMMA SendGood ==
    ASSUME NEW o, NEW g, NEW n \in {0, 1}, Good(o, g, n),
           NEW S, NEW k \in {"vol", "pull", "close"}, NEW t \in Dmt
    PROVE  Good(Send(o, S, k, t), g, n)
  <1> DEFINE p == Send(o, S, k, t)
  <1>0. Shape(o) /\ k \in Kinds
    BY DEF Good, Kinds
  <1>9. p = Send(o, S, k, t)
    OBVIOUS
  <1> HIDE DEF p
  <1>1. /\ Shape(p)
        /\ p.st = o.st /\ p.err = o.err /\ p.committed = o.committed /\ p.target = o.target
        /\ p.agents = o.agents /\ p.commitAcks = o.commitAcks /\ p.deferred = o.deferred
        /\ p.undone = o.undone
    BY <1>0, <1>9, SendShape DEF Fields
  <1>2. /\ \A s \in Svc : DOMAIN o.out[s] \subseteq DOMAIN p.out[s]
        /\ \A s \in Svc : \A i \in DOMAIN o.out[s] : p.out[s][i] = o.out[s][i]
        /\ \A s \in Svc : \A i \in DOMAIN p.out[s] \ DOMAIN o.out[s] : p.out[s][i].kind = k
    <2>1. Appended(o, p, S, Request(k, t, o.epoch))
      BY <1>0, <1>9, SendOut
    <2>2. Request(k, t, o.epoch).kind = k
      BY DEF Request
    <2> QED BY <2>1, <2>2 DEF Appended
  <1>3. Stage(p)
    BY <1>1 DEF Good, Stage
  <1>4. ASSUME ~o.undone
        PROVE  Moved(p, g) /\ SentDM(p, g) /\ SentClient(p, g)
    <2>1. Moved(o, g) /\ SentDM(o, g) /\ SentClient(o, g)
      BY <1>4 DEF Good, Since
    <2>2. DM \subseteq Svc /\ Clients \subseteq Svc /\ o.committed.nodes \subseteq DM
      BY <1>0 DEF Svc, Clients, Shape, Dmt
    <2>3. Moved(p, g)
      BY <1>1, <1>2, <2>1, <2>2 DEF Moved, Broad
    <2>4. SentDM(p, g)
      BY <1>1, <1>2, <2>1, <2>2 DEF SentDM, Tabled
    <2>5. SentClient(p, g)
      BY <1>1, <1>2, <2>1, <2>2 DEF SentClient
    <2> QED BY <2>3, <2>4, <2>5
  <1>5. Since(p, g, n)
    BY <1>1, <1>4 DEF Good, Since, Awaiting, Broad
  <1> QED BY <1>1, <1>3, <1>5 DEF Good, p
-----------------------------------------------------------------------------
(* The forward path *)

(* Fields that Stage and Since do not read may change. *)
LEMMA Frame ==
    ASSUME NEW o, NEW g, NEW n \in {0, 1}, Good(o, g, n), NEW p, Shape(p),
           p.st = o.st, p.err = o.err, p.committed = o.committed, p.target = o.target,
           o.agents \subseteq p.agents, o.committed # g.c => p.agents = o.agents,
           p.out = o.out, p.commitAcks = o.commitAcks, p.deferred = o.deferred,
           p.undone = o.undone
    PROVE  Good(p, g, n)
  <1>1. Stage(p)
    BY DEF Good, Stage
  <1>2. Since(p, g, n)
    BY DEF Good, Since, Moved, SentDM, SentClient, Awaiting, Broad
  <1> QED BY <1>1, <1>2 DEF Good

(* The state of the forward region changes, to another than DST_BcastAM,    *)
(* while nothing was committed in this step.                                *)
LEMMA Advance ==
    ASSUME NEW o, NEW g, Good(o, g, 0), Old(o, g), NEW p, Shape(p), Stage(p), ~Broad(p),
           p.committed = o.committed, p.agents = o.agents, p.out = o.out,
           p.deferred \in {o.deferred, <<>>}, p.undone = o.undone
    PROVE  Good(p, g, 0)
  <1>1. Since(p, g, 0)
    <2> SUFFICES ASSUME ~p.undone
                 PROVE  /\ Moved(p, g) /\ SentDM(p, g) /\ SentClient(p, g) /\ Awaiting(p, g, 0)
                        /\ \A i \in DOMAIN p.deferred : Stale(p.deferred[i], g)
      BY DEF Good, Since
    <2>1. Moved(p, g) /\ Awaiting(p, g, 0)
      BY DEF Old, Moved, Awaiting
    <2>2. SentDM(p, g) /\ SentClient(p, g)
      BY DEF Good, Since, SentDM, SentClient
    <2>3. \A i \in DOMAIN p.deferred : Stale(p.deferred[i], g)
      BY DEF Good, Since
    <2> QED BY <2>1, <2>2, <2>3
  <1> QED BY <1>1 DEF Good

(* An fds_verify changes the flag only. *)
LEMMA VerifyGood ==
    ASSUME NEW o, NEW g, NEW n \in {0, 1}, Good(o, g, n), NEW b
    PROVE  /\ Good(Verify(o, b), g, n)
           /\ \A f \in Fields \ {"panic"} : Verify(o, b)[f] = o[f]
  <1> DEFINE p == Verify(o, b)
  <1>1. Shape(o)
    BY DEF Good
  <1>2. DOMAIN p = Fields /\ \A f \in Fields \ {"panic"} : p[f] = o[f]
    BY <1>1 DEF Shape, Fields, Verify
  <1> HIDE DEF p
  <1>3. Shape(p)
    BY <1>1, <1>2 DEF Shape, Fields
  <1>4. /\ p.st = o.st /\ p.err = o.err /\ p.committed = o.committed /\ p.target = o.target
        /\ p.agents = o.agents /\ p.out = o.out /\ p.commitAcks = o.commitAcks
        /\ p.deferred = o.deferred /\ p.undone = o.undone
    BY <1>2 DEF Fields
  <1>5. Good(p, g, n)
    BY <1>3, <1>4, Frame
  <1> QED BY <1>2, <1>5 DEF p

(* DACT_UpdDone *)
LEMMA UpdDoneGood ==
    ASSUME NEW o, NEW g, Good(o, g, 0), Old(o, g), o.err = "AllOk"
    PROVE  Good(UpdDone(o), g, 0)
  <1> DEFINE p == UpdDone(o)
  <1>1. Shape(o)
    BY DEF Good
  <1>2. Shape(p)
    BY <1>1 DEF Shape, UpdDone, Fields, States, NoDmt, Dmt
  <1>3. /\ p.st = "Idle" /\ p.err = "AllOk" /\ p.target = NoDmt
        /\ p.committed = o.committed /\ p.agents = o.agents /\ p.out = o.out
        /\ p.deferred = o.deferred /\ p.undone = o.undone
    BY <1>1 DEF Shape, UpdDone, Fields
  <1> HIDE DEF p
  <1>4. Stage(p) /\ ~Broad(p)
    BY <1>3 DEF Stage, Broad
  <1>5. Good(p, g, 0)
    BY <1>2, <1>3, <1>4, Advance
  <1> QED BY <1>5 DEF p

(* DACT_Close *)
LEMMA CloseGood ==
    ASSUME NEW o, NEW g, Good(o, g, 0), Old(o, g), o.err = "AllOk", o.target = o.committed
    PROVE  Good(Close(o), g, 0)
  <1> DEFINE s == Send(o, o.cur, "close", o.committed)
             c == [s EXCEPT !.st = "Done", !.rebal = FALSE, !.closeAcks = Cardinality(o.cur)]
  <1>1. Shape(o)
    BY DEF Good
  <1>9. o.committed \in Dmt /\ "close" \in Kinds
    BY <1>1 DEF Shape, Kinds
  <1>2. Good(s, g, 0)
    BY <1>9, SendGood
  <1>3. /\ Shape(s)
        /\ s.committed = o.committed /\ s.target = o.target /\ s.err = o.err /\ s.undone = o.undone
    BY <1>1, <1>9, SendShape DEF Fields
  <1> HIDE DEF s
  <1>4. Shape(c)
    BY <1>3 DEF Shape, Fields, States
  <1>5. /\ c.st = "Done" /\ c.err = s.err /\ c.target = s.target
        /\ c.committed = s.committed /\ c.agents = s.agents /\ c.out = s.out
        /\ c.deferred = s.deferred /\ c.undone = s.undone
    BY <1>3 DEF Shape, Fields
  <1> HIDE DEF c
  <1>6. Stage(c) /\ ~Broad(c) /\ Old(s, g) /\ Old(c, g)
    BY <1>3, <1>5 DEF Stage, Broad, Old
  <1>7. Good(c, g, 0)
    BY <1>2, <1>4, <1>5, <1>6, Advance
  <1>8. Good(UpdDone(c), g, 0)
    BY <1>3, <1>5, <1>6, <1>7, UpdDoneGood
  <1> QED BY <1>7, <1>8 DEF Close, c, s

(* DACT_BcastAM: clients are sent the table when the DMs in it have it. *)
LEMMA BcastAMGood ==
    ASSUME NEW o, NEW g, Good(o, g, 0), Old(o, g), o.err = "AllOk", o.target = o.committed,
           ~o.undone => g.c.nodes \subseteq g.have
    PROVE  Good(BcastAM(o), g, 0)
  <1> DEFINE s == Send(o, Clients, "dmt", o.committed)
             c == [s EXCEPT !.st = "Close", !.commitAcks = Cardinality(Clients)]
             m == Request("dmt", o.committed, o.epoch)
  <1>1. Shape(o)
    BY DEF Good
  <1>2. o.committed \in Dmt /\ "dmt" \in Kinds
    BY <1>1 DEF Shape, Kinds
  <1>3. /\ Shape(s)
        /\ s.committed = o.committed /\ s.target = o.target /\ s.err = o.err
        /\ s.undone = o.undone /\ s.deferred = o.deferred /\ s.agents = o.agents
    BY <1>1, <1>2, SendShape DEF Fields
  <1>4. Appended(o, s, Clients, m)
    BY <1>1, <1>2, SendOut
  <1>5. m.kind = "dmt" /\ m.dmt = o.committed
    BY DEF Request
  <1> HIDE DEF s, m
  <1>6. Cardinality(Clients) \in Nat
    BY DmtDeployAssumption, FS_Union, FS_CardinalityType DEF Clients
  <1>7. Shape(c)
    BY <1>3, <1>6 DEF Shape, Fields, States
  <1>8. /\ c.st = "Close" /\ c.err = o.err /\ c.target = o.target
        /\ c.committed = o.committed /\ c.agents = o.agents /\ c.out = s.out
        /\ c.deferred = o.deferred /\ c.undone = o.undone
    BY <1>3 DEF Shape, Fields
  <1> HIDE DEF c
  <1>9. Stage(c) /\ ~Broad(c) /\ Old(c, g)
    BY <1>8 DEF Stage, Broad, Old
  <1>10. ASSUME ~o.undone
         PROVE  SentDM(c, g) /\ SentClient(c, g)
    <2>1. SentDM(o, g) /\ SentClient(o, g) /\ o.committed = g.c
      BY <1>10 DEF Good, Since, Old
    <2>2. \A d \in DM : d \in Svc /\ d \notin Clients
      BY DmtDeployAssumption DEF Svc, Clients
    <2>3. \A d \in DM : DOMAIN c.out[d] = DOMAIN o.out[d]
      BY <1>4, <1>8, <2>2 DEF Appended
    <2>4. SentDM(c, g)
      BY <1>4, <1>8, <2>1, <2>2, <2>3 DEF Appended, SentDM
    <2>5. Clients \subseteq Svc
      BY DEF Svc, Clients
    <2>6. SentClient(c, g)
      BY <1>4, <1>5, <1>8, <1>10, <2>1, <2>5 DEF Appended, SentClient
    <2> QED BY <2>4, <2>6
  <1>11. Since(c, g, 0)
    BY <1>8, <1>9, <1>10 DEF Good, Since, Moved, Awaiting, Old
  <1>12. Good(c, g, 0)
    BY <1>7, <1>9, <1>11 DEF Good
  <1>13. Good(Close(c), g, 0)
    BY <1>8, <1>9, <1>12, CloseGood
  <1> QED BY <1>12, <1>13 DEF BcastAM, c, s

(* DACT_Commit: the next table becomes the committed one and goes to all DMs *)
(* the OM knows, one awaited answer each.                                    *)
LEMMA CommitGood ==
    ASSUME NEW o, NEW g, World(g), Good(o, g, 0), Old(o, g), o.err = "AllOk",
           o.target.ver = o.committed.ver + 1, o.target.nodes \subseteq o.agents
    PROVE  Good(Commit(o), g, 0)
  <1> DEFINE s == Send(o, o.agents, "dmt", o.target)
             c == [s EXCEPT !.st = "BcastAM", !.prev = o.committed, !.committed = o.target,
                            !.commitAcks = Cardinality(o.agents), !.ongoing = {}]
             m == Request("dmt", o.target, o.epoch)
  <1>1. Shape(o)
    BY DEF Good
  <1>2. /\ o.committed \in Dmt /\ o.target \in Dmt /\ "dmt" \in Kinds /\ o.agents \subseteq DM
        /\ g.c.ver \in Nat
    BY <1>1 DEF Shape, Kinds, World, Dmt
  <1>3. /\ Shape(s) /\ s.err = o.err /\ s.target = o.target
        /\ s.undone = o.undone /\ s.deferred = o.deferred /\ s.agents = o.agents
    BY <1>1, <1>2, SendShape DEF Fields
  <1>4. Appended(o, s, o.agents, m)
    BY <1>1, <1>2, SendOut
  <1>5. m.kind = "dmt" /\ m.dmt = o.target
    BY DEF Request
  <1> HIDE DEF s, m
  <1>6. Cardinality(o.agents) \in Nat
    BY <1>2, DmtDeployAssumption, FS_Subset, FS_CardinalityType
  <1>7. Shape(c)
    BY <1>2, <1>3, <1>6 DEF Shape, Fields, States
  <1>8. /\ c.st = "BcastAM" /\ c.err = o.err /\ c.target = o.target
        /\ c.committed = o.target /\ c.agents = o.agents /\ c.out = s.out
        /\ c.commitAcks = Cardinality(o.agents)
        /\ c.deferred = o.deferred /\ c.undone = o.undone
    BY <1>3 DEF Shape, Fields
  <1> HIDE DEF c
  <1>9. Stage(c) /\ Broad(c)
    BY <1>8 DEF Stage, Broad
  <1>10. ASSUME ~o.undone
         PROVE  Moved(c, g) /\ SentDM(c, g) /\ SentClient(c, g) /\ Awaiting(c, g, 0)
    <2>1. SentDM(o, g) /\ SentClient(o, g) /\ o.committed = g.c
      BY <1>10 DEF Good, Since, Old
    <2>2. DM \subseteq Svc /\ \A s_ \in Clients : s_ \in Svc /\ s_ \notin o.agents
      BY <1>2, DmtDeployAssumption DEF Svc, Clients
    <2>3. o.target.ver = g.c.ver + 1 /\ o.target # g.c /\ o.committed.ver # g.c.ver + 1
      BY <1>2, <2>1
    <2>4. \A d \in o.target.nodes : \E i \in DOMAIN c.out[d] : c.out[d][i] = m
      BY <1>2, <1>4, <1>8, <2>2 DEF Appended
    <2>5. Moved(c, g)
      BY <1>5, <1>6, <1>8, <1>9, <2>3, <2>4 DEF Moved, IsV
    <2>6. ASSUME NEW d \in DM, NEW i \in DOMAIN c.out[d]
          PROVE  /\ c.out[d][i].kind = "abort" => c.out[d][i].dmt.ver = g.c.ver
                 /\ c.out[d][i].kind = "dmt" =>
                      /\ c.out[d][i].dmt.ver = g.c.ver + 1
                      /\ c.committed.ver = g.c.ver + 1 /\ d \in c.agents
                      /\ \A j \in DOMAIN c.out[d] : i < j => ~Tabled(c.out[d][j])
      <3>1. CASE i \in DOMAIN o.out[d]
        <4>1. c.out[d][i] = o.out[d][i]
          BY <3>1, <1>4, <1>8, <2>2 DEF Appended
        <4>2. c.out[d][i].kind # "dmt"
          BY <3>1, <4>1, <2>1, <2>3 DEF SentDM
        <4> QED BY <3>1, <4>1, <4>2, <2>1 DEF SentDM
      <3>2. CASE i \notin DOMAIN o.out[d]
        <4>1. /\ d \in o.agents /\ c.out[d][i] = m /\ DOMAIN c.out[d] \subseteq Nat
              /\ \A j \in DOMAIN c.out[d] : j <= i
          BY <3>2, <1>4, <1>8, <2>2 DEF Appended
        <4>2. \A j \in DOMAIN c.out[d] : ~(i < j)
          BY <4>1
        <4> QED BY <4>1, <4>2, <1>5, <1>8, <2>3
      <3> QED BY <3>1, <3>2
    <2>7. SentDM(c, g)
      BY <2>6 DEF SentDM
    <2>8. SentClient(c, g)
      BY <1>4, <1>8, <2>1, <2>2 DEF Appended, SentClient
    <2>9. Awaiting(c, g, 0)
      BY <1>8, <2>3 DEF Awaiting
    <2> QED BY <2>5, <2>7, <2>8, <2>9
  <1>11. Since(c, g, 0)
    BY <1>8, <1>10 DEF Good, Since
  <1>12. Good(c, g, 0)
    BY <1>7, <1>9, <1>11 DEF Good
  <1> QED BY <1>12 DEF Commit, c, s

(* DACT_Rebalance *)
LEMMA RebalanceGood ==
    ASSUME NEW o, NEW g, World(g), Good(o, g, 0), Old(o, g), o.err = "AllOk", o.st = "Rebalance"
    PROVE  Good(Rebalance(o), g, 0)
  <1> DEFINE ps == PullSet(o)
             s == Send(o, ps, "pull", o.target)
             v == Verify(s, ~o.rebal)
             r == [v EXCEPT !.st = "Commit", !.rebal = TRUE,
                            !.pullAcks = ps, !.ongoing = ps, !.need = ps]
  <1>1. Shape(o) /\ Stage(o)
    BY DEF Good
  <1>2. /\ o.target \in Dmt /\ "pull" \in Kinds /\ o.target.ver = o.committed.ver + 1
        /\ o.target.nodes \subseteq o.agents
    BY <1>1 DEF Shape, Kinds, Stage
  <1>3. Good(s, g, 0)
    BY <1>2, SendGood
  <1>4. /\ s.committed = o.committed /\ s.target = o.target /\ s.err = o.err
        /\ s.undone = o.undone /\ s.agents = o.agents
    BY <1>1, <1>2, SendShape DEF Fields
  <1> HIDE DEF s, ps
  <1>5. Good(v, g, 0) /\ \A f \in Fields \ {"panic"} : v[f] = s[f]
    BY <1>3, VerifyGood
  <1>6. /\ v.committed = o.committed /\ v.target = o.target /\ v.err = o.err
        /\ v.undone = o.undone /\ v.agents = o.agents
    BY <1>4, <1>5 DEF Fields
  <1> HIDE DEF v
  <1>7. Shape(v)
    BY <1>5 DEF Good
  <1>8. Shape(r)
    BY <1>7 DEF Shape, Fields, States
  <1>9. /\ r.st = "Commit" /\ r.err = v.err /\ r.target = v.target
        /\ r.committed = v.committed /\ r.agents = v.agents /\ r.out = v.out
        /\ r.deferred = v.deferred /\ r.undone = v.undone
    BY <1>7 DEF Shape, Fields
  <1> HIDE DEF r
  <1>10. Stage(r) /\ ~Broad(r) /\ Old(v, g) /\ Old(r, g)
    BY <1>2, <1>6, <1>9 DEF Stage, Broad, Old
  <1>11. Good(r, g, 0)
    BY <1>5, <1>8, <1>9, <1>10, Advance
  <1>12. Good(Commit(r), g, 0)
    BY <1>2, <1>6, <1>9, <1>10, <1>11, CommitGood
  <1> QED BY <1>11, <1>12 DEF Rebalance, r, v, s, ps

(* DACT_Start *)
LEMMA StartGood ==
    ASSUME NEW o, NEW g, Good(o, g, 0), Old(o, g), o.err = "AllOk", o.st = "Waiting"
    PROVE  Good(Start(o), g, 0)
  <1> DEFINE S == IF o.resync = {} THEN o.added ELSE {}
             s == Send(o, S, "vol", o.target)
             r == [s EXCEPT !.st = "Rebalance", !.volAcks = S]
  <1>1. Shape(o) /\ Stage(o)
    BY DEF Good
  <1>2. /\ o.target \in Dmt /\ "vol" \in Kinds /\ o.target.ver = o.committed.ver + 1
        /\ o.target.nodes \subseteq o.agents
    BY <1>1 DEF Shape, Kinds, Stage
  <1> HIDE DEF S
  <1>3. Good(s, g, 0)
    BY <1>2, SendGood
  <1>4. /\ Shape(s) /\ s.committed = o.committed /\ s.target = o.target /\ s.err = o.err
        /\ s.undone = o.undone /\ s.agents = o.agents
    BY <1>1, <1>2, SendShape DEF Fields
  <1> HIDE DEF s
  <1>5. Shape(r)
    BY <1>4 DEF Shape, Fields, States
  <1>6. /\ r.st = "Rebalance" /\ r.err = s.err /\ r.target = s.target
        /\ r.committed = s.committed /\ r.agents = s.agents /\ r.out = s.out
        /\ r.deferred = s.deferred /\ r.undone = s.undone
    BY <1>4 DEF Shape, Fields
  <1> HIDE DEF r
  <1>7. Stage(r) /\ ~Broad(r) /\ Old(s, g)
    BY <1>2, <1>4, <1>6 DEF Stage, Broad, Old
  <1>8. Good(r, g, 0)
    BY <1>3, <1>5, <1>6, <1>7, Advance
  <1> QED BY <1>8 DEF Start, r, s, S

(* GRD_DplyStart: the target is the next version over DMs the OM knows. *)
LEMMA DplyStartGood ==
    ASSUME NEW o, NEW g, Good(o, g, 0), Old(o, g), o.err = "AllOk", o.st = "Idle"
    PROVE  Good(DplyStart(o), g, 0)
  <1> DEFINE c == [o EXCEPT !.cur = @ \cup o.pendUp \cup o.pendResync, !.added = @ \cup o.pendUp,
                       !.resync = @ \cup o.pendResync, !.pendUp = {}, !.pendResync = {}]
             d == [c EXCEPT !.target = [ver |-> c.committed.ver + 1, nodes |-> c.cur],
                      !.st = "Waiting", !.wait = TRUE, !.epoch = @ + 1]
  <1>1. Shape(o)
    BY DEF Good
  <1>2. Shape(c)
    BY <1>1 DEF Shape, Fields
  <1>3. /\ c.st = o.st /\ c.err = o.err /\ c.committed = o.committed /\ c.target = o.target
        /\ c.agents = o.agents /\ c.out = o.out /\ c.commitAcks = o.commitAcks
        /\ c.deferred = o.deferred /\ c.undone = o.undone
    BY <1>1 DEF Shape, Fields
  <1> HIDE DEF c
  <1>4. Good(c, g, 0) /\ Old(c, g)
    BY <1>2, <1>3, Frame DEF Old
  <1>5. Shape(d)
    BY <1>2 DEF Shape, Fields, States, Dmt
  <1>6. /\ d.st = "Waiting" /\ d.err = c.err /\ d.committed = c.committed
        /\ d.target = [ver |-> c.committed.ver + 1, nodes |-> c.cur]
        /\ d.agents = c.agents /\ d.out = c.out
        /\ d.deferred = c.deferred /\ d.undone = c.undone
    BY <1>2 DEF Shape, Fields
  <1> HIDE DEF d
  <1>7. Stage(d) /\ ~Broad(d)
    BY <1>2, <1>3, <1>6 DEF Stage, Broad, Shape
  <1>8. Good(d, g, 0)
    BY <1>4, <1>5, <1>6, <1>7, Advance
  <1> QED BY <1>4, <1>8 DEF DplyStart, c, d

-----------------------------------------------------------------------------
(* The error region *)

(* DACT_EndError: with no target left the machine is idle again. *)
LEMMA EndErrorGood ==
    ASSUME NEW o, NEW g, Good(o, g, 0), Old(o, g), o.target = NoDmt
    PROVE  Good(EndError(o), g, 0)
  <1> DEFINE p == EndError(o)
  <1>1. Shape(o)
    BY DEF Good
  <1>2. Shape(p)
    BY <1>1 DEF Shape, EndError, Fields, States
  <1>3. /\ p.st = "Idle" /\ p.err = "AllOk" /\ p.target = o.target
        /\ p.committed = o.committed /\ p.agents = o.agents /\ p.out = o.out
        /\ p.deferred = <<>> /\ p.undone = o.undone
    BY <1>1 DEF Shape, EndError, Fields
  <1> HIDE DEF p
  <1>4. Stage(p) /\ ~Broad(p)
    BY <1>3 DEF Stage, Broad
  <1>5. Good(p, g, 0)
    BY <1>2, <1>3, <1>4, Advance
  <1> QED BY <1>5 DEF p

(* DACT_Error: all DMs abort to the committed table, or, when the target was *)
(* already committed, the OM undoes that and nothing more is claimed.        *)
LEMMA ErrorFoundGood ==
    ASSUME NEW o, NEW g, World(g), Good(o, g, 0), o.err = "AllOk"
    PROVE  Good(ErrorFound(o), g, 0)
  <1> DEFINE u == UndoTarget(o)
             s == Send(u, u.agents, "abort", u.committed)
             a == [s EXCEPT !.err = "Error", !.abortAcks = Cardinality(u.agents)]
             r == Send(a, Clients, "dmt", u.committed)
             b == [r EXCEPT !.rollbackAcks = Cardinality(Clients)]
             m == Request("abort", u.committed, u.epoch)
  <1>1. Shape(o) /\ Stage(o) /\ Since(o, g, 0)
    BY DEF Good
  <1>2. /\ g.c.ver \in Nat /\ o.committed.ver \in Nat
        /\ "abort" \in Kinds /\ "dmt" \in Kinds /\ NoDmt.ver = 0
    BY <1>1 DEF World, Dmt, Shape, Kinds, NoDmt
  <1>3. ASSUME ~o.undone, o.committed # g.c
        PROVE  o.target = o.committed /\ o.committed.ver = g.c.ver + 1
    BY <1>1, <1>3 DEF Since, Moved, Broad, Stage
  <1>4. CASE o.target = NoDmt
    <2>1. Old(o, g)
      BY <1>2, <1>3, <1>4 DEF Old
    <2>2. Good(EndError(o), g, 0)
      BY <1>4, <2>1, EndErrorGood
    <2> QED BY <1>4, <2>2 DEF ErrorFound
  <1>5. CASE o.target # NoDmt
    <2>1. Shape(u)
      BY <1>1 DEF Shape, UndoTarget, Fields, NoDmt, Dmt
    <2>2. /\ u.target = NoDmt /\ u.out = o.out /\ u.deferred = o.deferred /\ u.agents = o.agents
          /\ IF o.committed.ver = o.target.ver THEN u.undone = TRUE
             ELSE u.committed = o.committed /\ u.undone = o.undone
      BY <1>1 DEF Shape, UndoTarget, Fields
    <2> HIDE DEF u
    <2>3. u.committed \in Dmt /\ u.agents \subseteq DM
      BY <2>1 DEF Shape
    <2>4. /\ Shape(s) /\ s.target = u.target /\ s.committed = u.committed
          /\ s.deferred = u.deferred /\ s.agents = u.agents /\ s.undone = u.undone
      BY <1>2, <2>1, <2>3, SendShape DEF Fields
    <2>5. Appended(u, s, u.agents, m)
      BY <1>2, <2>1, <2>3, SendOut
    <2>6. m.kind = "abort" /\ m.dmt = u.committed
      BY DEF Request
    <2> HIDE DEF s, m
    <2>7. Shape(a)
      BY <2>4 DEF Shape, Fields
    <2>8. /\ a.err = "Error" /\ a.target = NoDmt /\ a.committed = u.committed /\ a.out = s.out
          /\ a.deferred = o.deferred /\ a.agents = o.agents /\ a.undone = u.undone
      BY <2>2, <2>4 DEF Shape, Fields
    <2> HIDE DEF a
    <2>9. Stage(a) /\ ~Broad(a)
      BY <2>8 DEF Stage, Broad
    <2>10. CASE o.committed.ver = o.target.ver
      <3>1. Shape(r) /\ r.err = a.err /\ r.target = a.target /\ r.undone = a.undone
        BY <1>2, <2>3, <2>7, SendShape DEF Fields
      <3> HIDE DEF r
      <3>2. Shape(b)
        BY <3>1 DEF Shape, Fields
      <3>3. b.err = r.err /\ b.target = r.target /\ b.undone = r.undone
        BY <3>1 DEF Shape, Fields
      <3> HIDE DEF b
      <3>4. Stage(b)
        BY <2>8, <3>1, <3>3 DEF Stage
      <3>5. a.undone = TRUE /\ b.undone = TRUE
        BY <2>2, <2>8, <2>10, <3>1, <3>3
      <3>6. Good(a, g, 0) /\ Good(b, g, 0)
        BY <2>7, <2>9, <3>2, <3>4, <3>5 DEF Good, Since
      <3> QED BY <1>5, <2>10, <3>6 DEF ErrorFound, b, r, a, s, u
    <2>11. CASE o.committed.ver # o.target.ver
      <3>1. ASSUME ~o.undone
            PROVE  SentDM(a, g) /\ SentClient(a, g) /\ a.committed = g.c
        <4>1. o.committed = g.c /\ a.committed = g.c /\ u.committed = g.c
          BY <1>3, <2>2, <2>8, <2>11, <3>1
        <4>2. SentDM(o, g) /\ SentClient(o, g)
          BY <1>1, <3>1 DEF Since
        <4>3. DM \subseteq Svc /\ \A c \in Clients : c \in Svc /\ c \notin u.agents
          BY <2>3, DmtDeployAssumption DEF Svc, Clients
        <4>4. \A d \in DM : \A i \in DOMAIN o.out[d] : o.out[d][i].kind # "dmt"
          BY <4>1, <4>2, <1>2 DEF SentDM
        <4>5. ASSUME NEW d \in DM, NEW i \in DOMAIN a.out[d]
              PROVE  /\ a.out[d][i].kind = "abort" => a.out[d][i].dmt.ver = g.c.ver
                     /\ a.out[d][i].kind # "dmt"
          <5>1. CASE i \in DOMAIN o.out[d]
            <6>1. a.out[d][i] = o.out[d][i]
              BY <5>1, <2>2, <2>5, <2>8, <4>3 DEF Appended
            <6> QED BY <5>1, <6>1, <4>2, <4>4 DEF SentDM
          <5>2. CASE i \notin DOMAIN o.out[d]
            <6>1. a.out[d][i] = m
              BY <5>2, <2>2, <2>5, <2>8, <4>3 DEF Appended
            <6> QED BY <6>1, <2>6, <4>1
          <5> QED BY <5>1, <5>2
        <4>6. SentDM(a, g)
          BY <4>5 DEF SentDM
        <4>7. SentClient(a, g)
          BY <2>2, <2>5, <2>8, <4>2, <4>3 DEF Appended, SentClient
        <4> QED BY <4>1, <4>6, <4>7
      <3>2. Since(a, g, 0)
        BY <1>1, <2>2, <2>8, <2>9, <2>11, <3>1 DEF Since, Moved, Awaiting
      <3>3. Good(a, g, 0)
        BY <2>7, <2>9, <3>2 DEF Good
      <3> QED BY <1>5, <2>11, <3>3 DEF ErrorFound, a, s, u
    <2> QED BY <2>10, <2>11
  <1> QED BY <1>4, <1>5

(* DACT_ChkEndErr *)
LEMMA ChkEndErrGood ==
    ASSUME NEW o, NEW g, Good(o, g, 0), o.err = "Error", NEW e
    PROVE  Good(ChkEndErr(o, e), g, 0)
  <1> DEFINE m == IF e.svc \in DM /\ e.res = "timeout" THEN RmAddedSvc(o, e.svc) ELSE o
             a == [m EXCEPT !.abortAcks = IF @ > 0 THEN @ - 1 ELSE 0]
             v == Verify(a, m.abortAcks > 0)
             b == [m EXCEPT !.rollbackAcks = IF @ > 0 THEN @ - 1 ELSE 0]
             c == IF e.abort THEN v ELSE b
  <1>1. Shape(o)
    BY DEF Good
  <1>2. Shape(m)
    BY <1>1 DEF RmAddedSvc, Shape, Fields
  <1>3. /\ m.st = o.st /\ m.err = o.err /\ m.committed = o.committed /\ m.target = o.target
        /\ m.agents = o.agents /\ m.out = o.out /\ m.commitAcks = o.commitAcks
        /\ m.deferred = o.deferred /\ m.undone = o.undone
    BY <1>1 DEF RmAddedSvc, Shape, Fields
  <1> HIDE DEF m
  <1>4. Good(m, g, 0)
    BY <1>2, <1>3, Frame
  <1>5. Shape(a) /\ Shape(b)
    BY <1>2 DEF Shape, Fields
  <1>6. /\ a.st = m.st /\ a.err = m.err /\ a.committed = m.committed /\ a.target = m.target
        /\ a.agents = m.agents /\ a.out = m.out /\ a.commitAcks = m.commitAcks
        /\ a.deferred = m.deferred /\ a.undone = m.undone
    BY <1>2 DEF Shape, Fields
  <1>7. /\ b.st = m.st /\ b.err = m.err /\ b.committed = m.committed /\ b.target = m.target
        /\ b.agents = m.agents /\ b.out = m.out /\ b.commitAcks = m.commitAcks
        /\ b.deferred = m.deferred /\ b.undone = m.undone
    BY <1>2 DEF Shape, Fields
  <1> HIDE DEF a, b
  <1>8. Good(a, g, 0) /\ Good(b, g, 0)
    BY <1>4, <1>5, <1>6, <1>7, Frame
  <1>9. Good(v, g, 0) /\ v.err = a.err
    BY <1>8, VerifyGood DEF Fields
  <1> HIDE DEF v
  <1>10. Good(c, g, 0) /\ c.err = "Error"
    BY <1>3, <1>6, <1>7, <1>8, <1>9
  <1> HIDE DEF c
  <1>11. c.target = NoDmt /\ Old(c, g)
    BY <1>10 DEF Good, Stage, Since, Moved, Broad, Old
  <1>12. Good(EndError(c), g, 0)
    BY <1>10, <1>11, EndErrorGood
  <1> QED BY <1>10, <1>12 DEF ChkEndErr, c, b, v, a, m

-----------------------------------------------------------------------------
(* Events that count acks *)

(* The answer a step handles may go uncounted. *)
LEMMA Lower ==
    ASSUME NEW o, NEW g, World(g), NEW n \in {0, 1}, Good(o, g, n)
    PROVE  Good(o, g, 0)
  <1>1. Cardinality(g.asked) \in Nat /\ o.commitAcks \in Nat
    BY FS_CardinalityType DEF World, Good, Shape
  <1>2. Awaiting(o, g, n) => Awaiting(o, g, 0)
    BY <1>1 DEF Awaiting
  <1>3. Since(o, g, 0)
    BY <1>2 DEF Good, Since
  <1> QED BY <1>3 DEF Good

(* Only in DST_BcastAM may a table have been committed in this step. *)
LEMMA OldUnlessBroad ==
    ASSUME NEW o, NEW g, Good(o, g, 0), ~Broad(o)
    PROVE  Old(o, g)
  BY DEF Good, Since, Moved, Old

(* GRD_DmtRebal *)
LEMMA VolAckGood ==
    ASSUME NEW o, NEW g, World(g), Good(o, g, 0), o.err = "AllOk", o.st = "Rebalance", NEW S
    PROVE  Good(VolAck(o, S), g, 0)
  <1> DEFINE c == [o EXCEPT !.volAcks = @ \ S]
  <1>1. Shape(o)
    BY DEF Good
  <1>2. Shape(c)
    BY <1>1 DEF Shape, Fields
  <1>3. /\ c.st = o.st /\ c.err = o.err /\ c.committed = o.committed /\ c.target = o.target
        /\ c.agents = o.agents /\ c.out = o.out /\ c.commitAcks = o.commitAcks
        /\ c.deferred = o.deferred /\ c.undone = o.undone
    BY <1>1 DEF Shape, Fields
  <1> HIDE DEF c
  <1>4. Good(c, g, 0)
    BY <1>2, <1>3, Frame
  <1>5. Old(c, g)
    BY <1>3, <1>4, OldUnlessBroad DEF Broad
  <1>6. Good(Rebalance(c), g, 0)
    BY <1>3, <1>4, <1>5, RebalanceGood
  <1> QED BY <1>4, <1>6 DEF VolAck, c

(* GRD_Commit *)
LEMMA PushMetaAckGood ==
    ASSUME NEW o, NEW g, World(g), Good(o, g, 0), o.err = "AllOk", o.st = "Commit", NEW d
    PROVE  Good(PushMetaAck(o, d), g, 0)
  <1> DEFINE a == [o EXCEPT !.pullAcks = @ \ {d}]
             c == Verify(a, d \in o.pullAcks)
  <1>1. Shape(o) /\ Stage(o)
    BY DEF Good
  <1>2. Shape(a)
    BY <1>1 DEF Shape, Fields
  <1>3. /\ a.st = o.st /\ a.err = o.err /\ a.committed = o.committed /\ a.target = o.target
        /\ a.agents = o.agents /\ a.out = o.out /\ a.commitAcks = o.commitAcks
        /\ a.deferred = o.deferred /\ a.undone = o.undone
    BY <1>1 DEF Shape, Fields
  <1> HIDE DEF a
  <1>4. Good(a, g, 0)
    BY <1>2, <1>3, Frame
  <1>5. Good(c, g, 0) /\ c.st = a.st /\ c.err = a.err
    BY <1>4, VerifyGood DEF Fields
  <1> HIDE DEF c
  <1>6. Old(c, g)
    BY <1>3, <1>5, OldUnlessBroad DEF Broad
  <1>7. c.target.ver = c.committed.ver + 1 /\ c.target.nodes \subseteq c.agents
    BY <1>3, <1>5 DEF Good, Stage
  <1>8. Good(Commit(c), g, 0)
    BY <1>3, <1>5, <1>6, <1>7, CommitGood
  <1> QED BY <1>5, <1>8 DEF PushMetaAck, c, a

(* The event a step begins with, when it is an awaited answer of a DM *)
First(e, g) == e.k = "errorFound" \/ (e.k = "commitAck" /\ e.svc \in DM /\ e.ver = g.c.ver)

(* GRD_BcastAM: when the last ack is counted no answer is awaited any more,  *)
(* so every DM of the table has it.                                          *)
LEMMA CommitAckDMGood ==
    ASSUME NEW o, NEW g, World(g), NEW n \in {0, 1}, Good(o, g, n), Broad(o),
           NEW e, e.k = "commitAck", e.ver \in Nat,
           n = 0 => Stale(e, g), n = 1 => First(e, g)
    PROVE  Good(CommitAckDM(o, e), g, 0)
  <1> DEFINE v == Verify(o, e.ver <= o.committed.ver)
             a == [v EXCEPT !.commitAcks = IF @ > 0 THEN @ - 1 ELSE 0]
             c == Verify(a, v.commitAcks > 0)
  <1>1. Good(o, g, 0)
    BY Lower
  <1>2. /\ Good(v, g, n) /\ Good(v, g, 0)
        /\ v.st = o.st /\ v.err = o.err /\ v.committed = o.committed /\ v.undone = o.undone
    BY <1>1, VerifyGood DEF Fields
  <1> HIDE DEF v
  <1>3. CASE e.svc \notin DM \/ e.ver # o.committed.ver
    BY <1>1, <1>2, <1>3 DEF CommitAckDM, v
  <1>4. CASE e.svc \in DM /\ e.ver = o.committed.ver
    <2>1. Shape(v) /\ Stage(v) /\ Since(v, g, n) /\ Broad(v)
      BY <1>2 DEF Good, Broad
    <2>2. /\ g.c.ver \in Nat /\ v.commitAcks \in Nat
          /\ Cardinality(g.asked) \in Nat
      BY <2>1, FS_CardinalityType DEF World, Dmt, Shape
    <2>3. ASSUME ~v.undone
          PROVE  /\ v.committed = g.c /\ g.c.nodes \subseteq g.have \cup g.asked
                 /\ Cardinality(g.asked) + 1 <= v.commitAcks
      <3>1. Moved(v, g) /\ Awaiting(v, g, n)
        BY <2>1, <2>3 DEF Since
      <3>2. e.ver <= g.c.ver
        BY <1>4, <2>1, <2>2, <2>3 DEF Stale, First, Since
      <3>3. v.committed = g.c
        BY <1>2, <1>4, <2>2, <3>1, <3>2 DEF Moved
      <3>4. g.bcast /\ g.c.nodes \subseteq g.have \cup g.asked /\ Cardinality(g.asked) + n <= v.commitAcks
        BY <2>1, <3>1, <3>3 DEF Awaiting
      <3>5. n # 0
        BY <1>2, <1>4, <2>1, <2>2, <2>3, <3>3, <3>4 DEF Stale, Since
      <3> QED BY <3>3, <3>4, <3>5
    <2>4. Shape(a)
      BY <2>1 DEF Shape, Fields
    <2>5. /\ a.st = v.st /\ a.err = v.err /\ a.committed = v.committed /\ a.target = v.target
          /\ a.agents = v.agents /\ a.out = v.out
          /\ a.commitAcks = IF v.commitAcks > 0 THEN v.commitAcks - 1 ELSE 0
          /\ a.deferred = v.deferred /\ a.undone = v.undone
      BY <2>1 DEF Shape, Fields
    <2> HIDE DEF a
    <2>6. Stage(a) /\ Broad(a)
      BY <2>1, <2>5 DEF Stage, Broad
    <2>7. ASSUME ~v.undone
          PROVE  Moved(a, g) /\ SentDM(a, g) /\ SentClient(a, g) /\ Awaiting(a, g, 0)
      <3>1. Moved(a, g)
        BY <2>3, <2>5, <2>7 DEF Moved
      <3>2. SentDM(a, g) /\ SentClient(a, g)
        BY <2>1, <2>5, <2>7 DEF Since, SentDM, SentClient
      <3>3. g.bcast
        BY <2>1, <2>3, <2>7 DEF Since, Awaiting
      <3>4. Awaiting(a, g, 0)
        BY <2>2, <2>3, <2>5, <2>7, <3>3 DEF Awaiting
      <3> QED BY <3>1, <3>2, <3>4
    <2>8. Good(a, g, 0)
      BY <2>1, <2>4, <2>5, <2>6, <2>7 DEF Good, Since
    <2>9. /\ Good(c, g, 0) /\ c.err = a.err /\ c.committed = a.committed /\ c.target = a.target
          /\ c.commitAcks = a.commitAcks /\ c.undone = a.undone
      BY <2>8, VerifyGood DEF Fields
    <2> HIDE DEF c
    <2>10. ASSUME c.commitAcks = 0
           PROVE  Good(BcastAM(c), g, 0)
      <3>1. Old(c, g)
        BY <2>3, <2>5, <2>9 DEF Old
      <3>2. c.err = "AllOk" /\ c.target = c.committed
        BY <2>5, <2>6, <2>9 DEF Broad, Stage
      <3>3. ASSUME ~c.undone PROVE g.c.nodes \subseteq g.have
        <4>1. Cardinality(g.asked) = 0
          BY <2>2, <2>3, <2>5, <2>9, <2>10, <3>3
        <4>2. g.asked = {}
          BY <4>1, FS_EmptySet DEF World
        <4> QED BY <2>3, <2>5, <2>9, <3>3, <4>2
      <3> QED BY <2>9, <3>1, <3>2, <3>3, BcastAMGood
    <2>11. CommitAckDM(o, e) = IF c.commitAcks = 0 THEN BcastAM(c) ELSE c
      BY <1>4 DEF CommitAckDM, c, a, v
    <2> QED BY <2>9, <2>10, <2>11
  <1> QED BY <1>3, <1>4

(* GRD_Close *)
LEMMA CommitAckClientGood ==
    ASSUME NEW o, NEW g, Good(o, g, 0), o.err = "AllOk", o.st = "Close", NEW e
    PROVE  Good(CommitAckClient(o, e), g, 0)
  <1> DEFINE v == Verify(o, e.ver <= o.committed.ver)
             c == [v EXCEPT !.commitAcks = IF @ > 0 THEN @ - 1 ELSE 0]
  <1>1. Good(v, g, 0) /\ v.st = o.st /\ v.err = o.err
    BY VerifyGood DEF Fields
  <1> HIDE DEF v
  <1>2. Shape(v) /\ Stage(v) /\ ~Broad(v)
    BY <1>1 DEF Good, Broad
  <1>3. Old(v, g)
    BY <1>1, <1>2, OldUnlessBroad
  <1>4. Shape(c)
    BY <1>2 DEF Shape, Fields
  <1>5. /\ c.st = v.st /\ c.err = v.err /\ c.committed = v.committed /\ c.target = v.target
        /\ c.agents = v.agents /\ c.out = v.out /\ c.deferred = v.deferred /\ c.undone = v.undone
    BY <1>2 DEF Shape, Fields
  <1> HIDE DEF c
  <1>6. Stage(c) /\ ~Broad(c) /\ Old(c, g) /\ c.target = c.committed
    BY <1>1, <1>2, <1>3, <1>5 DEF Stage, Broad, Old
  <1>7. Good(c, g, 0)
    BY <1>1, <1>3, <1>4, <1>5, <1>6, Advance
  <1>8. Good(Close(c), g, 0)
    BY <1>1, <1>5, <1>6, <1>7, CloseGood
  <1> QED BY <1>1, <1>7, <1>8 DEF CommitAckClient, c, v

(* GRD_Done *)
LEMMA CloseOkGood ==
    ASSUME NEW o, NEW g, Good(o, g, 0), o.err = "AllOk", o.st = "Done", NEW e
    PROVE  Good(CloseOk(o, e), g, 0)
  <1> DEFINE a == [o EXCEPT !.closeAcks = IF @ > 0 THEN @ - 1 ELSE 0]
             c == Verify(a, e.ver = o.committed.ver)
  <1>1. Shape(o)
    BY DEF Good
  <1>2. Shape(a)
    BY <1>1 DEF Shape, Fields
  <1>3. /\ a.st = o.st /\ a.err = o.err /\ a.committed = o.committed /\ a.target = o.target
        /\ a.agents = o.agents /\ a.out = o.out /\ a.commitAcks = o.commitAcks
        /\ a.deferred = o.deferred /\ a.undone = o.undone
    BY <1>1 DEF Shape, Fields
  <1> HIDE DEF a
  <1>4. Good(a, g, 0)
    BY <1>2, <1>3, Frame
  <1>5. Good(c, g, 0) /\ c.st = a.st /\ c.err = a.err
    BY <1>4, VerifyGood DEF Fields
  <1> HIDE DEF c
  <1>6. Old(c, g)
    BY <1>3, <1>5, OldUnlessBroad DEF Broad
  <1>7. Good(UpdDone(c), g, 0)
    BY <1>3, <1>5, <1>6, UpdDoneGood
  <1> QED BY <1>5, <1>7 DEF CloseOk, c, a

(* A deferred event is kept as it came. *)
LEMMA DeferGood ==
    ASSUME NEW o, NEW g, Good(o, g, 0), NEW e \in Event, ~o.undone => Stale(e, g)
    PROVE  Good(Defer(o, e), g, 0)
  <1> DEFINE p == Defer(o, e)
  <1>1. Shape(o) /\ Stage(o) /\ Since(o, g, 0)
    BY DEF Good
  <1>2. DOMAIN p = Fields /\ p.deferred = Append(o.deferred, e)
        /\ \A f \in Fields \ {"deferred"} : p[f] = o[f]
    BY <1>1 DEF Shape, Fields, Defer
  <1> HIDE DEF p
  <1>3. o.deferred \in Seq(Event)
    BY <1>1 DEF Shape
  <1>4. p.deferred \in Seq(Event)
    BY <1>2, <1>3
  <1>5. \A i \in DOMAIN p.deferred : p.deferred[i] = e \/ (i \in DOMAIN o.deferred /\ p.deferred[i] = o.deferred[i])
    <2> DEFINE n == Len(o.deferred)
    <2>1. /\ n \in Nat /\ DOMAIN o.deferred = 1 .. n /\ DOMAIN p.deferred = 1 .. (n + 1)
          /\ p.deferred[n + 1] = e /\ \A i \in 1 .. n : p.deferred[i] = o.deferred[i]
      BY <1>2, <1>3
    <2> HIDE DEF n
    <2>2. \A i \in 1 .. (n + 1) : i = n + 1 \/ i \in 1 .. n
      BY <2>1
    <2> QED BY <2>1, <2>2
  <1>6. Shape(p)
    BY <1>1, <1>2, <1>4 DEF Shape, Fields
  <1>7. /\ p.st = o.st /\ p.err = o.err /\ p.committed = o.committed /\ p.target = o.target
        /\ p.agents = o.agents /\ p.out = o.out /\ p.commitAcks = o.commitAcks
        /\ p.undone = o.undone
    BY <1>2 DEF Fields
  <1>8. Stage(p)
    BY <1>1, <1>7 DEF Stage
  <1>9. ASSUME ~o.undone PROVE \A i \in DOMAIN p.deferred : Stale(p.deferred[i], g)
    BY <1>1, <1>5, <1>9 DEF Since
  <1>10. Since(p, g, 0)
    BY <1>1, <1>7, <1>9 DEF Since, Moved, SentDM, SentClient, Awaiting, Broad
  <1>11. Good(p, g, 0)
    BY <1>6, <1>8, <1>10 DEF Good
  <1> QED BY <1>11 DEF p

-----------------------------------------------------------------------------
(* Folding deferred events *)

(* A nonempty set of naturals has a least element: induction on naturals,    *)
(* as a choice of the least counterexample.                                  *)
LEMMA Least ==
    ASSUME NEW T, T \subseteq Nat, T # {}
    PROVE  \E x \in T : \A y \in T : x <= y
  <1> DEFINE R == OpToRel(<, Nat)
  <1>1. IsWellFoundedOn(R, Nat)
    BY NatLessThanWellFounded
  <1>2. \A y, x \in Nat : y < x => <<y, x>> \in R
    BY DEF OpToRel
  <1> HIDE DEF R
  <1>3. PICK x \in T : \A y \in T : ~(<<y, x>> \in R)
    BY <1>1, WFMin
  <1>4. \A y \in T : ~(y < x) /\ y \in Nat /\ x \in Nat
    BY <1>2, <1>3
  <1>5. \A y \in T : x <= y
    BY <1>4
  <1> QED BY <1>3, <1>5

(* Max of a nonempty set of indices is its greatest element. *)
LEMMA MaxIn ==
    ASSUME NEW n \in Nat, NEW s \in SUBSET (1 .. n), s # {}
    PROVE  Max(s) \in s /\ \A y \in s : y <= Max(s)
  <1> DEFINE T == {n - x : x \in s}
  <1>1. T \subseteq Nat
    OBVIOUS
  <1>0. PICK e : e \in s
    OBVIOUS
  <1>9. n - e \in T
    BY <1>0
  <1> HIDE DEF T
  <1>2. PICK z \in T : \A y \in T : z <= y
    BY <1>1, <1>9, Least
  <1>3. PICK x \in s : z = n - x
    BY <1>2 DEF T
  <1>4. \A y \in s : n - y \in T
    BY DEF T
  <1>5. \A y \in s : x >= y
    BY <1>2, <1>3, <1>4
  <1>6. \E m \in s : \A y \in s : m >= y
    BY <1>3, <1>5
  <1>7. Max(s) \in s /\ \A y \in s : Max(s) >= y
    BY <1>6 DEF Max
  <1> QED BY <1>7

(* The events of a sequence, dispatched in order *)
DispatchAll(o, q) == FoldLeft(Dispatch, o, q)

(* The function that the fold of Dispatch over a sequence is defined by *)
Rec(g, base, seq, m) ==
    g = [s \in SUBSET (1 .. m) |->
           IF s = {} THEN base ELSE Dispatch(g[s \ {Max(s)}], seq[Max(s)])]

(* That function exists. *)
LEMMA RecExists ==
    ASSUME NEW base, NEW seq, NEW n \in Nat
    PROVE  \E g : Rec(g, base, seq, n)
  <1> DEFINE T == {m \in Nat : ~ \E g : Rec(g, base, seq, m)}
  <1> SUFFICES ASSUME T # {} PROVE FALSE
    OBVIOUS
  <1>1. PICK m \in T : \A y \in T : m <= y
    <2>1. T \subseteq Nat
      OBVIOUS
    <2> HIDE DEF T
    <2> QED BY <2>1, Least
  <1>2. m # 0
    <2> SUFFICES ASSUME m = 0 PROVE FALSE
      OBVIOUS
    <2> DEFINE g == [s \in SUBSET (1 .. 0) |-> base]
    <2>1. \A s \in SUBSET (1 .. 0) : s = {}
      OBVIOUS
    <2>2. Rec(g, base, seq, 0)
      BY <2>1 DEF Rec
    <2> QED BY <1>1, <2>2
  <1> DEFINE k == m - 1
  <1>3. k \in Nat /\ m = k + 1 /\ k \notin T
    BY <1>1, <1>2
  <1>4. PICK g : Rec(g, base, seq, k)
    BY <1>3
  <1> HIDE DEF T
  <1> DEFINE h == [s \in SUBSET (1 .. m) |->
                     IF m \in s THEN Dispatch(g[s \ {m}], seq[m]) ELSE g[s]]
  <1>5. ASSUME NEW s \in SUBSET (1 .. m)
        PROVE  h[s] = IF s = {} THEN base ELSE Dispatch(h[s \ {Max(s)}], seq[Max(s)])
    <2>1. CASE m \in s
      <3>0. s # {} /\ m \in Nat
        BY <2>1, <1>3
      <3>1. Max(s) \in s /\ \A y \in s : y <= Max(s)
        BY <3>0, MaxIn
      <3>2. Max(s) = m
        <4>1. Max(s) \in 1 .. m
          BY <3>1
        <4>2. m <= Max(s)
          BY <3>1, <2>1
        <4> QED BY <4>1, <4>2, <3>0
      <3>3. s \ {m} \in SUBSET (1 .. m) /\ m \notin s \ {m}
        OBVIOUS
      <3>4. h[s \ {m}] = g[s \ {m}]
        BY <3>3
      <3>5. h[s] = Dispatch(g[s \ {m}], seq[m])
        BY <2>1
      <3> QED BY <2>1, <3>2, <3>4, <3>5
    <2>2. CASE m \notin s
      <3>1. s \in SUBSET (1 .. k)
        BY <2>2, <1>3
      <3>2. h[s] = g[s]
        BY <2>2
      <3>3. g[s] = IF s = {} THEN base ELSE Dispatch(g[s \ {Max(s)}], seq[Max(s)])
        BY <1>4, <3>1 DEF Rec
      <3>4. s \ {Max(s)} \in SUBSET (1 .. m) /\ m \notin s \ {Max(s)}
        BY <2>2
      <3>5. h[s \ {Max(s)}] = g[s \ {Max(s)}]
        BY <3>4
      <3> QED BY <3>2, <3>3, <3>5
    <2> QED BY <2>1, <2>2
  <1>6. Rec(h, base, seq, m)
    <2> DEFINE d == [s \in SUBSET (1 .. m) |->
                       IF s = {} THEN base ELSE Dispatch(h[s \ {Max(s)}], seq[Max(s)])]
    <2>1. \A s \in SUBSET (1 .. m) : h[s] = d[s]
      BY <1>5
    <2>2. h = d
      BY <2>1
    <2> QED BY <2>2 DEF Rec
  <1> QED BY <1>1, <1>6 DEF T

(* FoldLeft of Dispatch is the last of a series of records, each the result *)
(* of dispatching the next event to the one before: process_event tries the *)
(* deferred events in the order in which they came.                          *)
LEMMA FoldSteps ==
    ASSUME NEW base, NEW seq, NEW n \in Nat, DOMAIN seq = 1 .. n
    PROVE  \E f : /\ f[0] = base
                  /\ \A i \in 1 .. n : f[i] = Dispatch(f[i - 1], seq[i])
                  /\ DispatchAll(base, seq) = f[n]
  <1> DEFINE g == CHOOSE x : Rec(x, base, seq, n)
  <1>1. Rec(g, base, seq, n)
    BY RecExists
  <1>2. DispatchAll(base, seq) = g[1 .. n]
    BY DEF DispatchAll, FoldLeft, MapThenFoldSet, Rec
  <1> HIDE DEF g
  <1> DEFINE f == [i \in 0 .. n |-> g[1 .. i]]
  <1>3. f[0] = base
    BY <1>1 DEF Rec
  <1>4. ASSUME NEW i \in 1 .. n PROVE f[i] = Dispatch(f[i - 1], seq[i])
    <2>1. 1 .. i \in SUBSET (1 .. n) /\ 1 .. i # {} /\ i \in 1 .. i
      OBVIOUS
    <2>2. Max(1 .. i) = i
      <3>1. Max(1 .. i) \in 1 .. i /\ \A y \in 1 .. i : y <= Max(1 .. i)
        BY <2>1, MaxIn
      <3> QED BY <3>1, <2>1
    <2>3. (1 .. i) \ {i} = 1 .. (i - 1)
      OBVIOUS
    <2>4. g[1 .. i] = Dispatch(g[1 .. (i - 1)], seq[i])
      BY <1>1, <2>1, <2>2, <2>3 DEF Rec
    <2> QED BY <2>4
  <1>5. DispatchAll(base, seq) = f[n]
    BY <1>2
  <1> HIDE DEF f
  <1> QED BY <1>3, <1>4, <1>5

-----------------------------------------------------------------------------
(* The transition table *)

(* A row of the table.  n is 1 when the event is the awaited answer of a DM. *)
LEMMA DispatchGood ==
    ASSUME NEW o, NEW g, World(g), NEW n \in {0, 1}, Good(o, g, n),
           NEW e \in Event \cup Recovery, n = 0 => Stale(e, g), n = 1 => First(e, g)
    PROVE  Good(Dispatch(o, e), g, 0)
  <1>1. Good(o, g, 0) /\ o.st \in States /\ o.err \in {"AllOk", "Error"}
    BY Lower DEF Good, Shape
  <1>2. CASE o.err = "Error"
    <2>1. Good(ChkEndErr(o, e), g, 0)
      BY <1>1, <1>2, ChkEndErrGood
    <2> QED BY <1>1, <1>2, <2>1 DEF Dispatch
  <1>3. CASE o.err = "AllOk"
    <2>1. ASSUME ~Broad(o) PROVE Old(o, g) /\ (~o.undone => n = 0)
      BY <1>1, <2>1, OldUnlessBroad DEF Good, Since
    <2>2. Good(ErrorFound(o), g, 0)
      BY <1>1, <1>3, ErrorFoundGood
    <2>3. ASSUME o.st = "Idle" PROVE Good(DplyStart(o), g, 0)
      BY <1>1, <1>3, <2>1, <2>3, DplyStartGood DEF Broad
    <2>4. ASSUME o.st = "Waiting" PROVE Good(Start(o), g, 0)
      BY <1>1, <1>3, <2>1, <2>4, StartGood DEF Broad
    <2>5. ASSUME o.st = "Rebalance" PROVE Good(VolAck(o, {e.svc}), g, 0) /\ Good(VolAck(o, {}), g, 0)
      BY <1>1, <1>3, <2>5, VolAckGood
    <2>6. ASSUME o.st = "Commit" PROVE Good(PushMetaAck(o, e.svc), g, 0)
      BY <1>1, <1>3, <2>6, PushMetaAckGood
    <2>7. ASSUME o.st = "BcastAM", e.k = "commitAck" PROVE Good(CommitAckDM(o, e), g, 0)
      <3>1. e.ver \in Nat
        BY <2>7 DEF Event, Recovery
      <3> QED BY <1>3, <2>7, <3>1, CommitAckDMGood DEF Broad
    <2>8. ASSUME o.st = "Close" PROVE Good(CommitAckClient(o, e), g, 0)
      BY <1>1, <1>3, <2>8, CommitAckClientGood
    <2>9. ASSUME o.st = "Done" PROVE Good(CloseOk(o, e), g, 0)
      BY <1>1, <1>3, <2>9, CloseOkGood
    <2>10. ASSUME o.st # "BcastAM", e.k # "recovery" PROVE Good(Defer(o, e), g, 0)
      <3>1. e \in Event
        BY <2>10 DEF Recovery
      <3>2. ~o.undone => Stale(e, g)
        BY <2>1, <2>10 DEF Broad
      <3> QED BY <1>1, <3>1, <3>2, DeferGood
    <2> QED BY <1>1, <1>3, <2>2, <2>3, <2>4, <2>5, <2>6, <2>7, <2>8, <2>9, <2>10 DEF Dispatch
  <1> QED BY <1>1, <1>2, <1>3

(* Deferred events, each of an old version, keep the record good. *)
LEMMA FoldGood ==
    ASSUME NEW o, NEW g, World(g), Good(o, g, 0), NEW q \in Seq(Event),
           \A i \in DOMAIN q : Stale(q[i], g)
    PROVE  Good(DispatchAll(o, q), g, 0)
  <1> DEFINE n == Len(q)
  <1>1. n \in Nat /\ DOMAIN q = 1 .. n
    OBVIOUS
  <1>2. PICK f : /\ f[0] = o
                 /\ \A i \in 1 .. n : f[i] = Dispatch(f[i - 1], q[i])
                 /\ DispatchAll(o, q) = f[n]
    BY <1>1, FoldSteps
  <1>3. \A i \in 1 .. n : q[i] \in Event
    BY <1>1
  <1> HIDE DEF n
  <1> DEFINE T == {i \in 0 .. n : ~Good(f[i], g, 0)}
  <1>4. T = {}
    <2> SUFFICES ASSUME T # {} PROVE FALSE
      OBVIOUS
    <2>1. PICK m \in T : \A y \in T : m <= y
      <3>1. T \subseteq Nat
        BY <1>1
      <3> HIDE DEF T
      <3> QED BY <3>1, Least
    <2>2. m \in 1 .. n /\ m - 1 \in 0 .. n /\ ~(m <= m - 1)
      BY <1>1, <1>2, <2>1
    <2>3. Good(f[m - 1], g, 0)
      BY <2>1, <2>2
    <2>4. Good(Dispatch(f[m - 1], q[m]), g, 0)
      BY <1>1, <1>3, <2>2, <2>3, DispatchGood
    <2> QED BY <1>2, <2>1, <2>2, <2>4
  <1>5. Good(f[n], g, 0)
    BY <1>1, <1>4
  <1> QED BY <1>2, <1>5

(* process_event: an event, then what was deferred if the state changed. *)
LEMMA ProcessGood ==
    ASSUME NEW o, NEW g, World(g), NEW n \in {0, 1}, Good(o, g, n),
           NEW e \in Event \cup Recovery, n = 0 => Stale(e, g), n = 1 => First(e, g)
    PROVE  Good(Process(o, e), g, 0)
  <1> DEFINE o1 == Dispatch(o, e)
             o2 == [o1 EXCEPT !.deferred = <<>>]
  <1>1. Good(o1, g, 0)
    BY DispatchGood
  <1> HIDE DEF o1
  <1>2. Shape(o1)
    BY <1>1 DEF Good
  <1>3. Shape(o2)
    BY <1>2 DEF Shape, Fields
  <1>4. /\ o2.st = o1.st /\ o2.err = o1.err /\ o2.committed = o1.committed /\ o2.target = o1.target
        /\ o2.agents = o1.agents /\ o2.out = o1.out /\ o2.commitAcks = o1.commitAcks
        /\ o2.deferred = <<>> /\ o2.undone = o1.undone
    BY <1>2 DEF Shape, Fields
  <1> HIDE DEF o2
  <1>5. Stage(o2)
    BY <1>1, <1>4 DEF Good, Stage
  <1>6. Since(o2, g, 0)
    BY <1>1, <1>4 DEF Good, Since, Moved, SentDM, SentClient, Awaiting, Broad
  <1>7. Good(o2, g, 0)
    BY <1>3, <1>5, <1>6 DEF Good
  <1>8. o1.deferred \in Seq(Event)
    BY <1>2 DEF Shape
  <1>9. ASSUME ~o1.undone PROVE Good(DispatchAll(o2, o1.deferred), g, 0)
    <2>1. \A i \in DOMAIN o1.deferred : Stale(o1.deferred[i], g)
      BY <1>1, <1>9 DEF Good, Since
    <2> QED BY <1>7, <1>8, <2>1, FoldGood
  <1>10. ASSUME o1.undone PROVE Good(DispatchAll(o2, o1.deferred), g, 0)
    <2> DEFINE h == [c |-> g.c, asked |-> g.asked, undone |-> TRUE]
               p == DispatchAll(o2, o1.deferred)
    <2>1. World(h) /\ h.undone
      BY DEF World
    <2> HIDE DEF h
    <2>2. Good(o2, h, 0)
      BY <1>3, <1>4, <1>5, <1>10 DEF Good, Since
    <2>3. \A i \in DOMAIN o1.deferred : Stale(o1.deferred[i], h)
      BY <2>1 DEF Stale
    <2>4. Good(p, h, 0)
      BY <1>8, <2>1, <2>2, <2>3, FoldGood
    <2> HIDE DEF p
    <2>5. Good(p, g, 0)
      BY <2>1, <2>4 DEF Good, Since
    <2> QED BY <2>5 DEF p
  <1>11. Good(DispatchAll(o2, o1.deferred), g, 0)
    BY <1>9, <1>10
  <1> QED BY <1>1, <1>11 DEF Process, DispatchAll, FoldLeft, MapThenFoldSet, o1, o2

-----------------------------------------------------------------------------
(* The inductive invariant *)

Ack == [kind : Kinds, dmt : Dmt, res : {"ok", "err"}]
Types ==
    /\ Shape(om) /\ om.out = NoOut
    /\ svc \in [Svc -> [known : SUBSET Dmt, cur : Dmt]]
    /\ req \in [Svc -> Seq(Msg)] /\ ans \in [Svc -> Seq(Ack)]
    /\ reg \subseteq DM /\ pulls \subseteq [dm : DM, ep : Nat, aborted : BOOLEAN]
    /\ lost \subseteq [kind : Kinds, dmt : Dmt, svc : Svc, ep : Nat]

(* A DM that knows no table uses none *)
Blank == \A d \in DM : svc[d].known = {} => svc[d].cur = NoDmt

(* A queue of requests holds tables in the order of their versions *)
Sorted(q) ==
    \A i, j \in DOMAIN q : i < j /\ Tabled(q[i]) /\ Tabled(q[j]) => q[i].dmt.ver <= q[j].dmt.ver
Between(q, lo, hi) ==
    \A i \in DOMAIN q : Tabled(q[i]) => lo <= q[i].dmt.ver /\ q[i].dmt.ver <= hi

(* The version a DM uses grows up to the committed one *)
Follows(d) ==
    /\ svc[d].cur.ver <= om.committed.ver
    /\ \A t \in svc[d].known : t.ver <= svc[d].cur.ver
    /\ Sorted(req[d]) /\ Between(req[d], svc[d].cur.ver, om.committed.ver)
    /\ \A i \in DOMAIN ans[d] : ans[d][i].kind = "dmt" => ans[d][i].dmt.ver <= svc[d].cur.ver
    /\ \A m \in lost : m.svc = d /\ m.kind = "dmt" => m.dmt.ver <= om.committed.ver

(* Every DM of the table uses this version or a later one *)
AllHave(t) == \A d \in t.nodes : svc[d].cur.ver >= t.ver

(* The request for version v, its answer or its loss, among requests r,      *)
(* answers a and lost requests l                                             *)
HasV(q, v) == \E i \in DOMAIN q : IsV(q[i], v)
LostV(l, d, v) == \E m \in l : m.svc = d /\ IsV(m, v)
Asked(r, a, l, v) == {d \in DM : HasV(r[d], v) \/ HasV(a[d], v) \/ LostV(l, d, v)}
OnceV(q, v) == \A i, j \in DOMAIN q : IsV(q[i], v) /\ IsV(q[j], v) => i = j
Once(r, a, l, d, v) ==
    /\ OnceV(r[d], v) /\ OnceV(a[d], v)
    /\ ~(HasV(r[d], v) /\ HasV(a[d], v))
    /\ ~(HasV(r[d], v) /\ LostV(l, d, v)) /\ ~(HasV(a[d], v) /\ LostV(l, d, v))

(* In DST_BcastAM each DM of the committed table has it or is asked to take  *)
(* it, and commitAcks covers those that are                                  *)
Gathering ==
    LET v == om.committed.ver IN
    /\ \A d \in om.committed.nodes : svc[d].cur.ver >= v \/ d \in Asked(req, ans, lost, v)
    /\ Cardinality(Asked(req, ans, lost, v)) <= om.commitAcks
    /\ \A d \in DM : Once(req, ans, lost, d, v)

(* No deferred ack of a DM will be counted *)
DeferredOld ==
    \A i \in DOMAIN om.deferred :
       LET e == om.deferred[i] IN
       e.k = "commitAck" /\ e.svc \in DM =>
          e.ver <= om.committed.ver /\ (Broad(om) => e.ver < om.committed.ver)

Safe ==
    ~om.undone =>
       /\ om.committed.ver >= 1
       /\ \A d \in DM : Follows(d)
       /\ \A s \in Clients : AllHave(svc[s].cur)
       /\ \A s \in Clients : \A i \in DOMAIN req[s] : req[s][i].kind = "dmt" => AllHave(req[s][i].dmt)
       /\ Broad(om) => Gathering
       /\ DeferredOld

IInv == Types /\ Stage(om) /\ Blank /\ Safe

-----------------------------------------------------------------------------
(* Steps of the OM *)

(* What a step of the OM starts from, A being the DMs whose answer is awaited *)
Here(A) ==
    [c |-> om.committed, have |-> {d \in DM : svc[d].cur.ver >= om.committed.ver},
     asked |-> A, bcast |-> Broad(om), undone |-> om.undone]

(* The record of the OM is good at the beginning of a step. *)
LEMMA Begin ==
    ASSUME IInv, NEW A \in SUBSET DM, NEW n \in {0, 1},
           ~om.undone /\ Broad(om) =>
              /\ \A d \in om.committed.nodes : svc[d].cur.ver >= om.committed.ver \/ d \in A
              /\ Cardinality(A) + n <= om.commitAcks,
           ~om.undone /\ n = 1 => Broad(om)
    PROVE  World(Here(A)) /\ Good(om, Here(A), n)
  <1> DEFINE g == Here(A)
  <1>1. /\ g.c = om.committed /\ g.have = {d \in DM : svc[d].cur.ver >= om.committed.ver}
        /\ g.asked = A /\ (g.bcast <=> Broad(om)) /\ g.undone = om.undone
    BY DEF Here
  <1> HIDE DEF g
  <1>2. Shape(om) /\ Stage(om) /\ om.out = NoOut
    BY DEF IInv, Types
  <1>3. om.committed \in Dmt /\ om.committed.nodes \subseteq DM
    BY <1>2 DEF Shape, Dmt
  <1>4. World(g)
    BY <1>1, <1>3, DmtDeployAssumption, FS_Subset DEF World
  <1>5. ASSUME ~om.undone
        PROVE  /\ Moved(om, g) /\ SentDM(om, g) /\ SentClient(om, g) /\ Awaiting(om, g, n)
               /\ \A i \in DOMAIN om.deferred : Stale(om.deferred[i], g)
               /\ n = 1 => om.committed = g.c /\ Broad(om)
    <2>1. Moved(om, g) /\ (n = 1 => om.committed = g.c /\ Broad(om))
      BY <1>1, <1>5 DEF Moved
    <2>2. \A s \in Svc : DOMAIN om.out[s] = {}
      BY <1>2 DEF NoOut
    <2>3. SentDM(om, g) /\ SentClient(om, g)
      BY <2>2 DEF SentDM, SentClient, Svc, Clients
    <2>4. ASSUME Broad(om)
          PROVE  /\ om.committed.nodes \subseteq g.have \cup A
                 /\ Cardinality(A) + n <= om.commitAcks
      BY <1>1, <1>3, <1>5, <2>4
    <2>5. Awaiting(om, g, n)
      BY <1>1, <2>4 DEF Awaiting
    <2>6. \A i \in DOMAIN om.deferred : Stale(om.deferred[i], g)
      BY <1>1, <1>5 DEF IInv, Safe, DeferredOld, Stale
    <2> QED BY <2>1, <2>3, <2>5, <2>6
  <1>6. Since(om, g, n)
    BY <1>1, <1>5 DEF Since
  <1> QED BY <1>2, <1>4, <1>6 DEF Good, g

(* Queue r is queue q followed by queue x *)
Joined(q, x, r) ==
    /\ r \in Seq(Msg) /\ DOMAIN r \subseteq Nat
    /\ \A i \in DOMAIN q : i \in DOMAIN r /\ r[i] = q[i]
    /\ \A i \in DOMAIN x : Len(q) + i \in DOMAIN r /\ r[Len(q) + i] = x[i]
    /\ \A i \in DOMAIN r \ DOMAIN q :
          i - Len(q) \in DOMAIN x /\ r[i] = x[i - Len(q)] /\ \A j \in DOMAIN q : j < i
    /\ \A i, j \in DOMAIN r \ DOMAIN q :
          /\ i < j => i - Len(q) < j - Len(q)
          /\ i # j => i - Len(q) < j - Len(q) \/ j - Len(q) < i - Len(q)

(* Requests that leave join the queue of requests not executed yet. *)
LEMMA Concat ==
    ASSUME NEW q \in Seq(Msg), NEW x \in Seq(Msg), NEW r, r = q \o x
    PROVE  Joined(q, x, r)
  <1> DEFINE n == Len(q)
             k == Len(x)
  <1>1. /\ n \in Nat /\ k \in Nat /\ DOMAIN q = 1 .. n /\ DOMAIN x = 1 .. k
        /\ DOMAIN r = 1 .. (n + k) /\ r \in Seq(Msg)
        /\ \A i \in 1 .. (n + k) : r[i] = IF i <= n THEN q[i] ELSE x[i - n]
    OBVIOUS
  <1> HIDE DEF n, k
  <1>2. \A i \in DOMAIN q : i \in DOMAIN r /\ r[i] = q[i]
    BY <1>1
  <1>3. \A i \in DOMAIN x : n + i \in DOMAIN r /\ ~(n + i <= n) /\ (n + i) - n = i
    BY <1>1
  <1>4. \A i \in DOMAIN x : r[n + i] = x[i]
    BY <1>1, <1>3
  <1>5. \A i \in DOMAIN r \ DOMAIN q : i - n \in DOMAIN x /\ ~(i <= n) /\ \A j \in DOMAIN q : j < i
    BY <1>1
  <1>6. \A i \in DOMAIN r \ DOMAIN q : r[i] = x[i - n]
    BY <1>1, <1>5
  <1>7. \A i, j \in DOMAIN r \ DOMAIN q :
           (i < j => i - n < j - n) /\ (i # j => i - n < j - n \/ j - n < i - n)
    BY <1>1
  <1>8. DOMAIN r \subseteq Nat
    BY <1>1
  <1> QED BY <1>1, <1>2, <1>3, <1>4, <1>5, <1>6, <1>7, <1>8 DEF n, Joined

(* The step ends: its requests join the queues.  Answers and lost requests  *)
(* may have been handled, none was added.                                   *)
LEMMA Finish ==
    ASSUME IInv, Types', svc' = svc, lost' \subseteq lost,
           \A d \in DM : \A i \in DOMAIN ans'[d] : \E j \in DOMAIN ans[d] : ans'[d][i] = ans[d][j],
           ~om.undone /\ Broad(om) => \A d \in DM : Once(req, ans', lost', d, om.committed.ver),
           NEW o, Good(o, Here(Asked(req, ans', lost', om.committed.ver)), 0), Become(o)
    PROVE  IInv'
  <1> DEFINE v == om.committed.ver
             A == Asked(req, ans', lost', v)
             g == Here(A)
  <1>1. Shape(o) /\ Stage(o) /\ Since(o, g, 0)
    BY DEF Good
  <1>2. /\ g.c = om.committed /\ g.have = {d \in DM : svc[d].cur.ver >= v}
        /\ g.asked = A /\ (g.bcast <=> Broad(om)) /\ g.undone = om.undone
    BY DEF Here
  <1>3. v \in Nat
    BY DEF IInv, Types, Shape, Dmt
  <1>4. \A f \in Fields \ {"out"} : om'[f] = o[f]
    BY <1>1 DEF Become, Shape
  <1>5. /\ om'.st = o.st /\ om'.err = o.err /\ om'.committed = o.committed /\ om'.target = o.target
        /\ om'.agents = o.agents /\ om'.commitAcks = o.commitAcks
        /\ om'.deferred = o.deferred /\ om'.undone = o.undone
    BY <1>4 DEF Fields
  <1> HIDE DEF g, A, v
  <1>6. Stage(om)'
    BY <1>1, <1>5 DEF Stage
  <1>7. Blank'
    BY DEF IInv, Blank
  <1>8. ASSUME ~om'.undone
        PROVE  /\ om'.committed.ver >= 1
               /\ \A d \in DM : Follows(d)'
               /\ \A s \in Clients : AllHave(svc[s].cur)'
               /\ \A s \in Clients : \A i \in DOMAIN req'[s] :
                     req'[s][i].kind = "dmt" => AllHave(req[s][i].dmt)'
               /\ Broad(om)' => Gathering'
               /\ DeferredOld'
    <2>1. /\ ~o.undone /\ ~om.undone
          /\ Moved(o, g) /\ SentDM(o, g) /\ SentClient(o, g) /\ Awaiting(o, g, 0)
          /\ \A i \in DOMAIN o.deferred : Stale(o.deferred[i], g)
      BY <1>1, <1>2, <1>5, <1>8 DEF Since
    <2>2. /\ \A d \in DM : Follows(d)
          /\ \A s \in Clients : AllHave(svc[s].cur)
          /\ \A s \in Clients : \A i \in DOMAIN req[s] : req[s][i].kind = "dmt" => AllHave(req[s][i].dmt)
      BY <2>1 DEF IInv, Safe
    <2>3. /\ o.committed.ver \in Nat /\ v <= o.committed.ver
          /\ o.committed.ver = v + 1 \/ o.committed = om.committed
      BY <1>1, <1>2, <1>3, <2>1 DEF Moved, Shape, Dmt, v
    <2>12. om'.committed.ver >= 1
      BY <1>3, <1>5, <2>1, <2>3 DEF IInv, Safe, v
    <2>4. ASSUME NEW s \in Svc
          PROVE  /\ req[s] \in Seq(Msg) /\ o.out[s] \in Seq(Msg) /\ req'[s] = req[s] \o o.out[s]
      BY <1>1 DEF IInv, Types, Become, Shape
    <2>5. DM \subseteq Svc /\ Clients \subseteq Svc
      BY DEF Svc, Clients
    <2>11. \A s \in Svc : Joined(req[s], o.out[s], req'[s])
      BY <2>4, Concat
    <2>6. ASSUME NEW d \in DM
          PROVE  Follows(d)'
      <3> DEFINE q == req[d]
                 x == o.out[d]
                 r == req'[d]
                 n == Len(q)
      <3>1. /\ svc[d].cur.ver \in Nat /\ svc[d].cur.ver <= v
            /\ Sorted(q) /\ Between(q, svc[d].cur.ver, v)
            /\ \A i \in DOMAIN q : q[i].dmt.ver \in Nat
        <4>1. svc[d] \in [known : SUBSET Dmt, cur : Dmt] /\ q \in Seq(Msg)
          BY <2>4, <2>5 DEF IInv, Types
        <4>2. svc[d].cur.ver \in Nat
          BY <4>1 DEF Dmt
        <4>3. \A i \in DOMAIN q : q[i] \in Msg
          BY <4>1
        <4>4. \A i \in DOMAIN q : q[i].dmt.ver \in Nat
          BY <4>3 DEF Dmt, Msg
        <4> QED BY <4>2, <4>4, <2>2 DEF Follows, v
      <3>2. /\ DOMAIN r \subseteq Nat
            /\ \A i \in DOMAIN q : i \in DOMAIN r /\ r[i] = q[i]
            /\ \A i \in DOMAIN r \ DOMAIN q : i - n \in DOMAIN x /\ r[i] = x[i - n] /\ \A j \in DOMAIN q : j < i
            /\ \A i, j \in DOMAIN r \ DOMAIN q : i < j => i - n < j - n
        BY <2>5, <2>11 DEF Joined
      <3>3. \A i \in DOMAIN x :
               /\ x[i].kind = "abort" => x[i].dmt.ver = v
               /\ x[i].kind = "dmt" => x[i].dmt.ver = v + 1 /\ o.committed.ver = v + 1
               /\ x[i].kind = "dmt" => \A j \in DOMAIN x : i < j => ~Tabled(x[j])
        BY <1>2, <2>1 DEF SentDM, v
      <3> HIDE DEF q, x, r, n
      <3>4. Between(r, svc[d].cur.ver, o.committed.ver)
        <4> SUFFICES ASSUME NEW i \in DOMAIN r, Tabled(r[i])
                     PROVE  svc[d].cur.ver <= r[i].dmt.ver /\ r[i].dmt.ver <= o.committed.ver
          BY DEF Between
        <4>1. CASE i \in DOMAIN q
          BY <4>1, <1>3, <2>3, <3>1, <3>2 DEF Between
        <4>2. CASE i \notin DOMAIN q
          <5>1. i - n \in DOMAIN x /\ r[i] = x[i - n]
            BY <4>2, <3>2
          <5> QED BY <5>1, <1>3, <2>3, <3>1, <3>3 DEF Tabled
        <4> QED BY <4>1, <4>2
      <3>5. Sorted(r)
        <4> SUFFICES ASSUME NEW i \in DOMAIN r, NEW j \in DOMAIN r, i < j, Tabled(r[i]), Tabled(r[j])
                     PROVE  r[i].dmt.ver <= r[j].dmt.ver
          BY DEF Sorted
        <4>1. CASE i \in DOMAIN q /\ j \in DOMAIN q
          BY <4>1, <3>1, <3>2 DEF Sorted
        <4>2. CASE i \in DOMAIN q /\ j \notin DOMAIN q
          <5>1. r[i].dmt.ver \in Nat /\ r[i].dmt.ver <= v
            BY <4>2, <3>1, <3>2 DEF Between
          <5>2. j - n \in DOMAIN x /\ r[j] = x[j - n]
            BY <4>2, <3>2
          <5> QED BY <5>1, <5>2, <1>3, <3>3 DEF Tabled
        <4>3. CASE i \notin DOMAIN q /\ j \notin DOMAIN q
          <5>1. /\ i - n \in DOMAIN x /\ r[i] = x[i - n] /\ j - n \in DOMAIN x /\ r[j] = x[j - n]
                /\ i - n < j - n
            BY <4>3, <3>2
          <5>2. r[i].kind = "abort"
            BY <5>1, <3>3 DEF Tabled
          <5> QED BY <5>1, <5>2, <1>3, <3>3 DEF Tabled
        <4>4. CASE i \notin DOMAIN q /\ j \in DOMAIN q
          <5>1. j < i /\ i \in Nat /\ j \in Nat
            BY <4>4, <3>2
          <5> QED BY <5>1
        <4> QED BY <4>1, <4>2, <4>3, <4>4
      <3>6. \A i \in DOMAIN ans'[d] : ans'[d][i].kind = "dmt" => ans'[d][i].dmt.ver <= svc[d].cur.ver
        BY <2>2 DEF Follows
      <3>7. \A m \in lost' : m.svc = d /\ m.kind = "dmt" => m.dmt.ver <= o.committed.ver
        <4>1. \A m \in lost : m.dmt.ver \in Nat
          BY DEF IInv, Types, Dmt
        <4> QED BY <4>1, <1>3, <2>2, <2>3 DEF Follows, v
      <3>8. svc[d].cur.ver <= o.committed.ver
        BY <1>3, <2>3, <3>1
      <3>9. \A t \in svc[d].known : t.ver <= svc[d].cur.ver
        BY <2>2 DEF Follows
      <3> QED BY <1>5, <3>4, <3>5, <3>6, <3>7, <3>8, <3>9 DEF Follows, r
    <2>7. \A s \in Clients : AllHave(svc[s].cur)'
      BY <2>2 DEF AllHave
    <2>8. ASSUME NEW s \in Clients, NEW i \in DOMAIN req'[s], req'[s][i].kind = "dmt"
          PROVE  AllHave(req[s][i].dmt)'
      <3>1. CASE i \in DOMAIN req[s]
        <4>1. req'[s][i] = req[s][i]
          BY <2>5, <2>11, <3>1 DEF Joined
        <4> QED BY <4>1, <3>1, <2>2, <2>8 DEF AllHave
      <3>2. CASE i \notin DOMAIN req[s]
        <4>1. PICK j \in DOMAIN o.out[s] : req'[s][i] = o.out[s][j]
          BY <2>5, <2>11, <3>2 DEF Joined
        <4>2. req'[s][i].dmt = om.committed /\ om.committed.nodes \subseteq g.have
          BY <4>1, <1>2, <2>1, <2>8 DEF SentClient
        <4> QED BY <4>2, <1>2 DEF AllHave, v
      <3> QED BY <3>1, <3>2
    <2>9. ASSUME Broad(om)'
          PROVE  Gathering'
      <3> DEFINE w == o.committed.ver
                 B == Asked(req', ans', lost', w)
      <3>0. Broad(o) /\ om'.committed.ver = w
        BY <1>5, <2>9 DEF Broad
      <3> SUFFICES /\ \A d \in o.committed.nodes : svc[d].cur.ver >= w \/ d \in B
                   /\ Cardinality(B) <= o.commitAcks
                   /\ \A d \in DM : Once(req', ans', lost', d, w)
        BY <1>5 DEF Gathering
      <3>1. CASE o.committed = om.committed
        <4>1. w = v
          BY <3>1 DEF v
        <4>2. g.bcast /\ om.committed.nodes \subseteq g.have \cup A /\ Cardinality(A) + 0 <= o.commitAcks
          BY <1>2, <2>1, <3>0, <3>1 DEF Awaiting
        <4>3. ASSUME NEW d \in DM
              PROVE  /\ DOMAIN req[d] \subseteq DOMAIN req'[d]
                     /\ \A i \in DOMAIN req[d] : req'[d][i] = req[d][i]
                     /\ \A i \in DOMAIN req'[d] : IsV(req'[d][i], v) => i \in DOMAIN req[d]
          <5>1. \A i \in DOMAIN o.out[d] : o.out[d][i].kind # "dmt"
            <6>1. o.committed.ver # g.c.ver + 1
              BY <1>2, <1>3, <4>1 DEF v
            <6> QED BY <2>1, <6>1 DEF SentDM
          <5>2. Joined(req[d], o.out[d], req'[d])
            BY <2>5, <2>11
          <5> QED BY <5>1, <5>2 DEF Joined, IsV
        <4>4. \A d \in DM : HasV(req'[d], v) <=> HasV(req[d], v)
          BY <4>3 DEF HasV
        <4>5. B = A
          BY <4>1, <4>4 DEF Asked, A
        <4>6. \A d \in DM : Once(req, ans', lost', d, v)
          BY <1>2, <2>1, <4>2 DEF v
        <4>7. \A d \in DM : OnceV(req'[d], v)
          BY <4>3, <4>6 DEF Once, OnceV
        <4>8. \A d \in DM : Once(req', ans', lost', d, v)
          BY <4>4, <4>6, <4>7 DEF Once
        <4>9. \A d \in om.committed.nodes : svc[d].cur.ver >= v \/ d \in A
          BY <1>2, <4>2
        <4>10. Cardinality(A) \in Nat
          <5>1. A \subseteq DM
            BY DEF A, Asked
          <5> QED BY <5>1, DmtDeployAssumption, FS_Subset, FS_CardinalityType
        <4> QED BY <3>1, <4>1, <4>2, <4>5, <4>8, <4>9, <4>10
      <3>2. CASE o.committed # om.committed
        <4>1. /\ w = v + 1 /\ Cardinality(o.agents) <= o.commitAcks
              /\ \A d \in o.committed.nodes : \E i \in DOMAIN o.out[d] : IsV(o.out[d][i], w)
          BY <1>2, <2>1, <3>2 DEF Moved, v
        <4>2. ASSUME NEW d \in DM
              PROVE  /\ \A i \in DOMAIN req[d] : ~IsV(req[d][i], w)
                     /\ \A i \in DOMAIN ans'[d] : ~IsV(ans'[d][i], w)
                     /\ \A m \in lost' : m.svc = d => ~IsV(m, w)
          <5>1. Follows(d)' /\ Follows(d) /\ svc[d].cur.ver \in Nat
            BY <2>2, <2>5, <2>6 DEF IInv, Types, Dmt
          <5>2. svc[d].cur.ver <= v /\ Between(req[d], svc[d].cur.ver, v)
            BY <5>1 DEF Follows, v
          <5>3. \A i \in DOMAIN req[d] : ~IsV(req[d][i], w)
            BY <1>3, <4>1, <5>2 DEF Between, IsV, Tabled
          <5>4. \A i \in DOMAIN ans'[d] : ~IsV(ans'[d][i], w)
            BY <1>3, <4>1, <5>1, <5>2 DEF Follows, IsV
          <5>5. \A m \in lost : m.svc = d => ~IsV(m, w)
            BY <1>3, <4>1, <5>1 DEF Follows, IsV, v
          <5> QED BY <5>3, <5>4, <5>5
        <4>3. ASSUME NEW d \in DM
              PROVE  /\ ~HasV(ans'[d], w) /\ ~LostV(lost', d, w) /\ OnceV(ans'[d], w)
                     /\ HasV(req'[d], w) => d \in o.agents
                     /\ OnceV(req'[d], w)
          <5>1. ~HasV(ans'[d], w) /\ ~LostV(lost', d, w) /\ OnceV(ans'[d], w)
            BY <4>2 DEF HasV, LostV, OnceV
          <5>2. Joined(req[d], o.out[d], req'[d])
            BY <2>5, <2>11
          <5>3. \A i \in DOMAIN o.out[d] : IsV(o.out[d][i], w) =>
                   /\ d \in o.agents
                   /\ \A j \in DOMAIN o.out[d] : i < j => ~IsV(o.out[d][j], w)
            BY <2>1 DEF SentDM, IsV, Tabled
          <5>4. \A i \in DOMAIN req'[d] : IsV(req'[d][i], w) => i \notin DOMAIN req[d]
            BY <4>2, <5>2 DEF Joined
          <5>5. HasV(req'[d], w) => d \in o.agents
            BY <5>2, <5>3, <5>4 DEF HasV, Joined
          <5>6. ASSUME NEW i \in DOMAIN req'[d], NEW j \in DOMAIN req'[d],
                       IsV(req'[d][i], w), IsV(req'[d][j], w), i # j
                PROVE  FALSE
            <6> DEFINE n == Len(req[d])
            <6>1. /\ i - n \in DOMAIN o.out[d] /\ IsV(o.out[d][i - n], w)
                  /\ j - n \in DOMAIN o.out[d] /\ IsV(o.out[d][j - n], w)
                  /\ i - n < j - n \/ j - n < i - n
              BY <5>2, <5>4, <5>6 DEF Joined
            <6> HIDE DEF n
            <6> QED BY <5>3, <6>1
          <5> QED BY <5>1, <5>5, <5>6 DEF OnceV
        <4>4. \A d \in DM : Once(req', ans', lost', d, w)
          BY <4>3 DEF Once
        <4>5. B \subseteq o.agents
          BY <4>3 DEF Asked
        <4>6. o.agents \subseteq DM /\ IsFiniteSet(o.agents)
          BY <1>1, DmtDeployAssumption, FS_Subset DEF Shape
        <4>7. Cardinality(B) <= Cardinality(o.agents) /\ Cardinality(B) \in Nat /\ Cardinality(o.agents) \in Nat
          BY <4>5, <4>6, FS_Subset, FS_CardinalityType
        <4>8. Cardinality(B) <= o.commitAcks
          BY <1>1, <4>1, <4>7 DEF Shape
        <4>9. ASSUME NEW d \in o.committed.nodes PROVE d \in B
          <5>1. d \in DM
            BY <1>1 DEF Shape, Dmt
          <5>2. PICK i \in DOMAIN o.out[d] : IsV(o.out[d][i], w)
            BY <4>1
          <5>3. Joined(req[d], o.out[d], req'[d])
            BY <5>1, <2>5, <2>11
          <5>4. HasV(req'[d], w)
            BY <5>2, <5>3 DEF HasV, Joined
          <5> QED BY <5>1, <5>4 DEF Asked
        <4> QED BY <4>4, <4>8, <4>9
      <3> QED BY <3>1, <3>2
    <2>10. DeferredOld'
      <3> SUFFICES ASSUME NEW i \in DOMAIN o.deferred, o.deferred[i].k = "commitAck", o.deferred[i].svc \in DM
                   PROVE  /\ o.deferred[i].ver <= o.committed.ver
                          /\ Broad(o) => o.deferred[i].ver < o.committed.ver
        BY <1>5 DEF DeferredOld, Broad
      <3>1. o.deferred[i] \in Event
        BY <1>1 DEF Shape
      <3>2. o.deferred[i].ver \in Nat
        BY <3>1 DEF Event
      <3>3. o.deferred[i].ver <= v /\ (g.bcast => o.deferred[i].ver < v)
        BY <1>2, <2>1 DEF Stale, v
      <3>4. ASSUME Broad(o), o.committed = om.committed PROVE g.bcast
        BY <1>2, <2>1, <3>4 DEF Awaiting
      <3> QED BY <1>3, <2>3, <3>2, <3>3, <3>4 DEF v
    <2> QED BY <2>6, <2>7, <2>8, <2>9, <2>10, <2>12
  <1>9. Safe'
    BY <1>8 DEF Safe
  <1> QED BY <1>6, <1>7, <1>9 DEF IInv

(* What leaves the OM is typed. *)
LEMMA BecomeTypes ==
    ASSUME Types, NEW o, Shape(o), Become(o)
    PROVE  Shape(om)' /\ om'.out = NoOut /\ req' \in [Svc -> Seq(Msg)]
  <1>1. NoOut \in [Svc -> Seq(Msg)]
    BY DEF NoOut
  <1>2. om' = [o EXCEPT !.out = NoOut]
    BY DEF Become
  <1>3. Shape(om)' /\ om'.out = NoOut
    BY <1>1, <1>2 DEF Shape, Fields
  <1>4. \A s \in Svc : req[s] \in Seq(Msg) /\ o.out[s] \in Seq(Msg)
    BY DEF Types, Shape
  <1>5. \A s \in Svc : req[s] \o o.out[s] \in Seq(Msg)
    BY <1>4
  <1> QED BY <1>3, <1>5 DEF Become

(* A step that handles no answer begins with all that are awaited. *)
LEMMA BeginAll ==
    ASSUME IInv, NEW g, g = Here(Asked(req, ans, lost, om.committed.ver))
    PROVE  World(g) /\ Good(om, g, 0)
  <1> DEFINE A == Asked(req, ans, lost, om.committed.ver)
  <1>1. A \in SUBSET DM
    BY DEF Asked
  <1>2. Cardinality(A) \in Nat
    BY <1>1, DmtDeployAssumption, FS_Subset, FS_CardinalityType
  <1>3. ASSUME ~om.undone, Broad(om)
        PROVE  /\ \A d \in om.committed.nodes : svc[d].cur.ver >= om.committed.ver \/ d \in A
               /\ Cardinality(A) + 0 <= om.commitAcks
    BY <1>2, <1>3 DEF IInv, Safe, Gathering
  <1> HIDE DEF A
  <1> QED BY <1>1, <1>3, Begin DEF A

(* And it ends with the same. *)
LEMMA FinishAll ==
    ASSUME IInv, UNCHANGED <<svc, ans, pulls, lost>>, reg' \subseteq DM,
           NEW o, Good(o, Here(Asked(req, ans, lost, om.committed.ver)), 0), Become(o)
    PROVE  IInv'
  <1>1. Shape(o)
    BY DEF Good
  <1>2. Types'
    BY <1>1, BecomeTypes DEF IInv, Types
  <1>3. ~om.undone /\ Broad(om) => \A d \in DM : Once(req, ans', lost', d, om.committed.ver)
    BY DEF IInv, Safe, Gathering
  <1>4. \A d \in DM : \A i \in DOMAIN ans'[d] : \E j \in DOMAIN ans[d] : ans'[d][i] = ans[d][j]
    OBVIOUS
  <1>5. Good(o, Here(Asked(req, ans', lost', om.committed.ver)), 0)
    OBVIOUS
  <1> QED BY <1>2, <1>3, <1>4, <1>5, Finish

(* Events that are no ack of a table are stale. *)
LEMMA EvtStale ==
    ASSUME NEW g, NEW s \in Svc \cup {0},
           NEW k \in {"up", "deploy", "timeout", "volAck", "volNone", "pushMeta", "errorFound"}
    PROVE  Evt(k, s) \in Event /\ Stale(Evt(k, s), g)
  BY DEF Evt, Event, Stale

(* om_dmt_update_cluster *)
LEMMA UpdateClusterGood ==
    ASSUME NEW o, NEW g, World(g), Good(o, g, 0)
    PROVE  Good(UpdateCluster(o), g, 0)
  <1>1. Evt("deploy", 0) \in Event /\ Stale(Evt("deploy", 0), g)
    BY EvtStale
  <1>2. Evt("volNone", 0) \in Event /\ Stale(Evt("volNone", 0), g)
    BY EvtStale
  <1>3. Good(Process(o, Evt("deploy", 0)), g, 0)
    BY <1>1, ProcessGood
  <1>4. Good(Process(Process(o, Evt("deploy", 0)), Evt("volNone", 0)), g, 0)
    BY <1>2, <1>3, ProcessGood
  <1> QED BY <1>4 DEF UpdateCluster

(* setupNewNode *)
LEMMA RegisterStep ==
    ASSUME IInv, NEW d \in DM, Register(d)
    PROVE  IInv'
  <1> DEFINE g == Here(Asked(req, ans, lost, om.committed.ver))
             again == d \in om.agents
             a == [om EXCEPT !.pendResync = @ \cup {d}]
             b == [om EXCEPT !.pendUp = @ \cup {d}, !.agents = @ \cup {d}]
             o == IF again THEN a ELSE b
             p == Process(o, Evt("up", d))
             u == UpdateCluster(p)
             w == Send(u, {d}, "vol", u.committed)
             z == IF again THEN w ELSE u
  <1>1. World(g) /\ Good(om, g, 0) /\ g.c = om.committed
    BY BeginAll DEF Here
  <1>2. Shape(om)
    BY DEF IInv, Types
  <1> HIDE DEF g
  <1>3. ASSUME again PROVE Good(a, g, 0)
    <2>1. Shape(a)
      BY <1>2, <1>3 DEF Shape, Fields
    <2>2. /\ a.st = om.st /\ a.err = om.err /\ a.committed = om.committed /\ a.target = om.target
          /\ a.agents = om.agents /\ a.out = om.out /\ a.commitAcks = om.commitAcks
          /\ a.deferred = om.deferred /\ a.undone = om.undone
      BY <1>2 DEF Shape, Fields
    <2> HIDE DEF a
    <2> QED BY <1>1, <2>1, <2>2, Frame
  <1>4. Good(b, g, 0)
    <2>1. Shape(b)
      BY <1>2 DEF Shape, Fields
    <2>2. /\ b.st = om.st /\ b.err = om.err /\ b.committed = om.committed /\ b.target = om.target
          /\ om.agents \subseteq b.agents /\ b.out = om.out /\ b.commitAcks = om.commitAcks
          /\ b.deferred = om.deferred /\ b.undone = om.undone
      BY <1>2 DEF Shape, Fields
    <2> HIDE DEF b
    <2> QED BY <1>1, <2>1, <2>2, Frame
  <1>5. Good(o, g, 0)
    BY <1>3, <1>4
  <1> HIDE DEF o
  <1>6. d \in Svc \cup {0}
    BY DEF Svc
  <1>7. Evt("up", d) \in Event /\ Stale(Evt("up", d), g)
    BY <1>6, EvtStale
  <1>8. Good(p, g, 0)
    BY <1>1, <1>5, <1>7, ProcessGood
  <1> HIDE DEF p
  <1>9. Good(u, g, 0)
    BY <1>1, <1>8, UpdateClusterGood
  <1> HIDE DEF u
  <1>10. u.committed \in Dmt
    BY <1>9 DEF Good, Shape
  <1>11. Good(w, g, 0)
    BY <1>9, <1>10, SendGood
  <1>12. Good(z, g, 0)
    BY <1>9, <1>11
  <1> HIDE DEF w
  <1>13. Become(z) /\ UNCHANGED <<svc, ans, pulls, lost>> /\ reg' \subseteq DM
    BY DEF Register, z, w, u, p, o, a, b, IInv, Types
  <1> HIDE DEF z
  <1> QED BY <1>12, <1>13, FinishAll DEF g

(* RetryTimerTask *)
LEMMA RetryTimerStep ==
    ASSUME IInv, RetryTimer
    PROVE  IInv'
  <1> DEFINE g == Here(Asked(req, ans, lost, om.committed.ver))
             a == [om EXCEPT !.retry = FALSE]
             z == UpdateCluster(a)
  <1>1. World(g) /\ Good(om, g, 0)
    BY BeginAll
  <1> HIDE DEF g
  <1>2. Shape(om)
    BY DEF IInv, Types
  <1>3. Shape(a)
    BY <1>2 DEF Shape, Fields
  <1>4. /\ a.st = om.st /\ a.err = om.err /\ a.committed = om.committed /\ a.target = om.target
        /\ a.agents = om.agents /\ a.out = om.out /\ a.commitAcks = om.commitAcks
        /\ a.deferred = om.deferred /\ a.undone = om.undone
    BY <1>2 DEF Shape, Fields
  <1> HIDE DEF a
  <1>5. Good(a, g, 0)
    BY <1>1, <1>3, <1>4, Frame
  <1>6. Good(z, g, 0)
    BY <1>1, <1>5, UpdateClusterGood
  <1>7. Become(z) /\ UNCHANGED <<svc, ans, pulls, lost>> /\ reg' \subseteq DM
    BY DEF RetryTimer, z, a, IInv, Types
  <1> HIDE DEF z
  <1> QED BY <1>6, <1>7, FinishAll DEF g

(* WaitingTimerTask *)
LEMMA WaitingTimerStep ==
    ASSUME IInv, WaitingTimer
    PROVE  IInv'
  <1> DEFINE g == Here(Asked(req, ans, lost, om.committed.ver))
             a == [om EXCEPT !.wait = FALSE]
             p == Process(a, Evt("timeout", 0))
             z == Process(p, Evt("volNone", 0))
  <1>1. World(g) /\ Good(om, g, 0)
    BY BeginAll
  <1> HIDE DEF g
  <1>2. Shape(om)
    BY DEF IInv, Types
  <1>3. Shape(a)
    BY <1>2 DEF Shape, Fields
  <1>4. /\ a.st = om.st /\ a.err = om.err /\ a.committed = om.committed /\ a.target = om.target
        /\ a.agents = om.agents /\ a.out = om.out /\ a.commitAcks = om.commitAcks
        /\ a.deferred = om.deferred /\ a.undone = om.undone
    BY <1>2 DEF Shape, Fields
  <1> HIDE DEF a
  <1>5. Good(a, g, 0)
    BY <1>1, <1>3, <1>4, Frame
  <1>6. Evt("timeout", 0) \in Event /\ Stale(Evt("timeout", 0), g)
    BY EvtStale
  <1>7. Evt("volNone", 0) \in Event /\ Stale(Evt("volNone", 0), g)
    BY EvtStale
  <1>8. Good(p, g, 0)
    BY <1>1, <1>5, <1>6, ProcessGood
  <1> HIDE DEF p
  <1>9. Good(z, g, 0)
    BY <1>1, <1>7, <1>8, ProcessGood
  <1>10. Become(z) /\ UNCHANGED <<svc, ans, pulls, lost>> /\ reg' \subseteq DM
    BY DEF WaitingTimer, z, p, a, IInv, Types
  <1> HIDE DEF z
  <1> QED BY <1>9, <1>10, FinishAll DEF g

(* The handlers of the responses.  n is 1 for the awaited answer of a DM. *)
LEMMA HandledGood ==
    ASSUME NEW g, World(g), NEW n \in {0, 1}, Good(om, g, n),
           NEW s \in Svc, NEW k \in Kinds, NEW v \in Nat, NEW r \in {"ok", "err", "timeout"},
           n = 1 => k = "dmt" /\ s \in DM /\ v = g.c.ver,
           n = 0 /\ k = "dmt" /\ r = "ok" /\ s \in DM /\ ~g.undone =>
              v <= g.c.ver /\ (g.bcast => v < g.c.ver)
    PROVE  Good(Handled(s, k, v, r), g, 0)
  <1> DEFINE ack == [k |-> "commitAck", svc |-> s, ver |-> v]
             ok == [k |-> "closeOk", svc |-> s, ver |-> v]
             ra == Recover(TRUE, s, r)
             rc == Recover(FALSE, s, r)
  <1>1. Good(om, g, 0)
    BY Lower
  <1>2. /\ Evt("volAck", s) \in Event /\ Stale(Evt("volAck", s), g)
        /\ Evt("pushMeta", s) \in Event /\ Stale(Evt("pushMeta", s), g)
        /\ Evt("errorFound", s) \in Event /\ Stale(Evt("errorFound", s), g)
    BY EvtStale
  <1>3. ack \in Event /\ ok \in Event /\ Stale(ok, g)
    BY DEF Event, Stale
  <1>4. ra \in Recovery /\ Stale(ra, g) /\ rc \in Recovery /\ Stale(rc, g)
    BY DEF Recovery, Recover, Stale
  <1> HIDE DEF ra, rc
  <1>5. CASE k = "vol"
    <2>1. Good(Process(om, Evt("volAck", s)), g, 0)
      BY <1>1, <1>2, ProcessGood
    <2> QED BY <1>1, <1>5, <2>1 DEF Handled, VolCmdResp
  <1>6. CASE k = "pull"
    <2>1. Good(Process(om, Evt("pushMeta", s)), g, 0)
      BY <1>1, <1>2, ProcessGood
    <2>2. Good(Process(om, Evt("errorFound", s)), g, 0)
      BY <1>1, <1>2, ProcessGood
    <2> QED BY <1>6, <2>1, <2>2 DEF Handled
  <1>7. CASE k = "dmt"
    <2> DEFINE x == IF r = "ok" \/ (r = "timeout" /\ s \notin DM) THEN ack ELSE Evt("errorFound", s)
    <2>1. x \in Event
      BY <1>2, <1>3
    <2>2. First(Evt("errorFound", s), g) /\ (n = 1 => First(ack, g))
      BY DEF First, Evt
    <2>3. n = 1 => First(x, g)
      BY <2>2
    <2>4. n = 0 => Stale(x, g)
      <3>1. CASE r = "ok" \/ (r = "timeout" /\ s \notin DM)
        BY <1>7, <3>1 DEF Stale
      <3>2. CASE ~(r = "ok" \/ (r = "timeout" /\ s \notin DM))
        BY <1>2, <3>2
      <3> QED BY <3>1, <3>2
    <2> HIDE DEF x
    <2>5. Good(Process(om, x), g, 0)
      BY <2>1, <2>3, <2>4, ProcessGood
    <2>6. Good(Process(Process(om, x), rc), g, 0)
      BY <1>4, <2>5, ProcessGood
    <2> QED BY <1>7, <2>6 DEF Handled, x, rc
  <1>8. CASE k = "close"
    <2>1. Good(Process(om, ok), g, 0)
      BY <1>1, <1>3, ProcessGood
    <2>2. Good(Process(om, Evt("errorFound", s)), g, 0)
      BY <1>1, <1>2, ProcessGood
    <2> QED BY <1>8, <2>1, <2>2 DEF Handled
  <1>9. CASE k = "abort"
    <2>1. Good(Process(om, ra), g, 0)
      BY <1>1, <1>4, ProcessGood
    <2> QED BY <1>9, <2>1 DEF Handled, ra
  <1> QED BY <1>5, <1>6, <1>7, <1>8, <1>9 DEF Kinds

(* An answer is handled.  When it is that of a DM to the table being sent,   *)
(* that DM has the table and is not awaited any more.                        *)
LEMMA HandleAnswerStep ==
    ASSUME IInv, NEW s \in Svc, HandleAnswer(s)
    PROVE  IInv'
  <1> DEFINE m == Head(ans[s])
             v == om.committed.ver
             A == Asked(req, ans', lost', v)
             B == Asked(req, ans, lost, v)
             g == Here(A)
             n == IF ~om.undone /\ Broad(om) /\ s \in DM /\ IsV(m, v) THEN 1 ELSE 0
             z == Handled(s, m.kind, m.dmt.ver, m.res)
  <1>1. /\ Shape(om) /\ ans \in [Svc -> Seq(Ack)] /\ svc \in [Svc -> [known : SUBSET Dmt, cur : Dmt]]
        /\ v \in Nat
    BY DEF IInv, Types, Shape, Dmt
  <1>2. /\ ans[s] # <<>> /\ ans' = [ans EXCEPT ![s] = Tail(@)] /\ Become(z)
        /\ UNCHANGED <<svc, reg, pulls, lost>>
    BY DEF HandleAnswer
  <1>3. /\ m \in Ack /\ 1 \in DOMAIN ans[s] /\ m = ans[s][1]
        /\ Tail(ans[s]) \in Seq(Ack)
        /\ \A i \in DOMAIN Tail(ans[s]) : i + 1 \in DOMAIN ans[s] /\ i + 1 # 1 /\ Tail(ans[s])[i] = ans[s][i + 1]
        /\ \A i \in DOMAIN ans[s] : i # 1 => i - 1 \in DOMAIN Tail(ans[s]) /\ Tail(ans[s])[i - 1] = ans[s][i]
    <2>1. ans[s] \in Seq(Ack)
      BY <1>1
    <2> DEFINE q == ans[s]
               t == Tail(q)
               k == Len(q)
    <2>2. k \in Nat /\ k # 0 /\ DOMAIN q = 1 .. k /\ Head(q) = q[1] /\ \A i \in 1 .. k : q[i] \in Ack
      BY <1>2, <2>1
    <2>3. t \in Seq(Ack) /\ DOMAIN t = 1 .. (k - 1) /\ \A i \in 1 .. (k - 1) : t[i] = q[i + 1]
      BY <1>2, <2>1
    <2> HIDE DEF q, t, k
    <2>4. 1 \in DOMAIN q /\ \A i \in DOMAIN t : i + 1 \in DOMAIN q /\ i + 1 # 1
      BY <2>2, <2>3
    <2>5. \A i \in DOMAIN q : i # 1 => i - 1 \in 1 .. (k - 1) /\ (i - 1) + 1 = i
      BY <2>2
    <2>6. \A i \in DOMAIN q : i # 1 => i - 1 \in DOMAIN t /\ t[i - 1] = q[i]
      BY <2>3, <2>5
    <2> QED BY <2>2, <2>3, <2>4, <2>6 DEF q, t
  <1>4. \A x \in Svc : ans'[x] = IF x = s THEN Tail(ans[s]) ELSE ans[x]
    BY <1>1, <1>2
  <1>5. ans' \in [Svc -> Seq(Ack)]
    BY <1>1, <1>2, <1>3
  <1>6. DM \subseteq Svc
    BY DEF Svc
  <1>7. m.kind \in Kinds /\ m.dmt.ver \in Nat /\ m.res \in {"ok", "err", "timeout"}
    BY <1>3 DEF Ack, Dmt
  <1> HIDE DEF m, v, A, B, g, z
  <1>8. \A d \in DM : \A i \in DOMAIN ans'[d] : \E j \in DOMAIN ans[d] : ans'[d][i] = ans[d][j]
    <2> SUFFICES ASSUME NEW d \in DM, NEW i \in DOMAIN ans'[d]
                 PROVE  \E j \in DOMAIN ans[d] : ans'[d][i] = ans[d][j]
      OBVIOUS
    <2>1. CASE d = s
      <3>1. i \in DOMAIN Tail(ans[s]) /\ ans'[d][i] = Tail(ans[s])[i]
        BY <1>4, <2>1
      <3> QED BY <1>3, <2>1, <3>1
    <2>2. CASE d # s
      BY <1>4, <1>6, <2>2
    <2> QED BY <2>1, <2>2
  <1>9. ASSUME ~om.undone, s \in DM, m.kind = "dmt"
        PROVE  m.dmt.ver <= v /\ m.dmt.ver <= svc[s].cur.ver
    <2>1. Follows(s) /\ svc[s].cur.ver \in Nat
      BY <1>1, <1>6, <1>9 DEF IInv, Safe, Dmt
    <2>2. m.dmt.ver <= svc[s].cur.ver /\ svc[s].cur.ver <= v
      BY <1>3, <1>9, <2>1 DEF Follows, v
    <2> QED BY <1>1, <1>7, <2>1, <2>2
  <1>10. ASSUME ~om.undone, Broad(om)
         PROVE  /\ \A d \in om.committed.nodes : svc[d].cur.ver >= v \/ d \in A
                /\ Cardinality(A) + n <= om.commitAcks
                /\ \A d \in DM : Once(req, ans', lost', d, v)
    <2>1. /\ \A d \in om.committed.nodes : svc[d].cur.ver >= v \/ d \in B
          /\ Cardinality(B) <= om.commitAcks
          /\ \A d \in DM : Once(req, ans, lost, d, v)
      BY <1>10 DEF IInv, Safe, Gathering, B, v
    <2>2. ASSUME NEW d \in DM
          PROVE  HasV(ans'[d], v) => HasV(ans[d], v)
      BY <1>8 DEF HasV
    <2>3. ASSUME NEW d \in DM
          PROVE  OnceV(ans'[d], v)
      <3>1. OnceV(ans[d], v)
        BY <2>1 DEF Once
      <3>2. CASE d # s
        BY <1>4, <1>6, <3>1, <3>2
      <3>3. CASE d = s
        <4>1. ASSUME NEW i \in DOMAIN Tail(ans[s]), NEW j \in DOMAIN Tail(ans[s]),
                     IsV(Tail(ans[s])[i], v), IsV(Tail(ans[s])[j], v)
              PROVE  i = j
          <5>1. i \in Nat /\ j \in Nat
            <6>1. Tail(ans[s]) \in Seq(Ack)
              BY <1>3
            <6> QED BY <6>1
          <5>2. i + 1 = j + 1
            BY <1>3, <3>1, <3>3, <4>1 DEF OnceV
          <5> QED BY <5>1, <5>2
        <4> QED BY <1>4, <3>3, <4>1 DEF OnceV
      <3> QED BY <3>2, <3>3
    <2>4. \A d \in DM : Once(req, ans', lost', d, v)
      BY <1>2, <2>1, <2>2, <2>3 DEF Once
    <2>5. B \subseteq DM /\ IsFiniteSet(B) /\ Cardinality(B) \in Nat
      <3>1. B \subseteq DM
        BY DEF B, Asked
      <3> QED BY <3>1, DmtDeployAssumption, FS_Subset, FS_CardinalityType
    <2>6. om.commitAcks \in Nat
      BY <1>1 DEF Shape
    <2>7. CASE s \in DM /\ IsV(m, v)
      <3>1. HasV(ans[s], v)
        BY <1>3, <2>7 DEF HasV
      <3>2. ~HasV(ans'[s], v)
        <4>1. \A i \in DOMAIN Tail(ans[s]) : ~IsV(Tail(ans[s])[i], v)
          BY <1>3, <2>1, <2>7 DEF Once, OnceV
        <4> QED BY <1>4, <4>1 DEF HasV
      <3>3. ~HasV(req[s], v) /\ ~LostV(lost, s, v)
        BY <2>1, <2>7, <3>1 DEF Once
      <3>4. A = B \ {s} /\ s \in B
        BY <1>2, <1>4, <1>6, <2>7, <3>1, <3>2, <3>3 DEF A, B, Asked
      <3>5. Cardinality(A) = Cardinality(B) - 1
        BY <2>5, <3>4, FS_RemoveElement
      <3>6. svc[s].cur.ver >= v
        BY <1>1, <1>6, <1>7, <1>9, <1>10, <2>7 DEF IsV, Dmt
      <3>7. n = 1
        BY <1>10, <2>7
      <3> QED BY <2>1, <2>4, <2>5, <2>6, <3>4, <3>5, <3>6, <3>7
    <2>8. CASE ~(s \in DM /\ IsV(m, v))
      <3>1. ASSUME NEW d \in DM, HasV(ans[d], v)
            PROVE  HasV(ans'[d], v)
        <4>1. CASE d # s
          BY <1>4, <1>6, <3>1, <4>1
        <4>2. CASE d = s
          <5>1. PICK i \in DOMAIN ans[s] : IsV(ans[s][i], v)
            BY <3>1, <4>2 DEF HasV
          <5>2. i # 1
            BY <1>3, <2>8, <4>2, <5>1
          <5>3. i - 1 \in DOMAIN Tail(ans[s]) /\ Tail(ans[s])[i - 1] = ans[s][i]
            BY <1>3, <5>2
          <5> QED BY <1>4, <4>2, <5>1, <5>3 DEF HasV
        <4> QED BY <4>1, <4>2
      <3>2. A = B
        BY <1>2, <2>2, <3>1 DEF A, B, Asked
      <3>3. n = 0
        BY <2>8
      <3> QED BY <2>1, <2>4, <2>5, <3>2, <3>3
    <2> QED BY <2>7, <2>8
  <1>11. A \in SUBSET DM /\ n \in {0, 1} /\ (~om.undone /\ n = 1 => Broad(om))
    BY DEF A, Asked
  <1>12. /\ n = 1 => m.kind = "dmt" /\ s \in DM /\ m.dmt.ver = v
         /\ n = 0 /\ m.kind = "dmt" /\ s \in DM /\ ~om.undone /\ Broad(om) => m.dmt.ver # v
    BY DEF IsV
  <1> HIDE DEF n
  <1>13. World(g) /\ Good(om, g, n)
    BY <1>10, <1>11, Begin DEF g, v
  <1>14. g.c.ver = v /\ (g.bcast <=> Broad(om)) /\ g.undone = om.undone
    BY DEF g, Here, v
  <1>15. n = 0 /\ m.kind = "dmt" /\ m.res = "ok" /\ s \in DM /\ ~g.undone =>
            m.dmt.ver <= v /\ (g.bcast => m.dmt.ver < v)
    BY <1>1, <1>7, <1>9, <1>12, <1>14
  <1>16. Good(z, g, 0)
    BY <1>7, <1>11, <1>12, <1>13, <1>14, <1>15, HandledGood DEF z
  <1>17. Shape(z)
    BY <1>16 DEF Good
  <1>18. Types'
    BY <1>2, <1>5, <1>17, BecomeTypes DEF IInv, Types
  <1> QED BY <1>2, <1>8, <1>10, <1>16, <1>18, Finish DEF g, A, v

(* An error found while the committed table is being sent undoes it. *)
LEMMA ErrorUndone ==
    ASSUME NEW o, Shape(o), Stage(o), Broad(o), o.committed # NoDmt
    PROVE  ErrorFound(o).undone = TRUE /\ ErrorFound(o).st = o.st
  <1> DEFINE u == UndoTarget(o)
             s == Send(u, u.agents, "abort", u.committed)
             a == [s EXCEPT !.err = "Error", !.abortAcks = Cardinality(u.agents)]
             r == Send(a, Clients, "dmt", u.committed)
             b == [r EXCEPT !.rollbackAcks = Cardinality(Clients)]
  <1>1. o.target = o.committed /\ o.target # NoDmt /\ "abort" \in Kinds /\ "dmt" \in Kinds
    BY DEF Stage, Broad, Kinds
  <1>2. Shape(u)
    BY DEF Shape, UndoTarget, Fields, NoDmt, Dmt
  <1>3. u.undone = TRUE /\ u.st = o.st
    BY <1>1 DEF Shape, UndoTarget, Fields
  <1> HIDE DEF u
  <1>4. u.committed \in Dmt
    BY <1>2 DEF Shape
  <1>5. Shape(s) /\ s.undone = u.undone /\ s.st = u.st
    BY <1>1, <1>2, <1>4, SendShape DEF Fields
  <1> HIDE DEF s
  <1>6. Shape(a)
    BY <1>5 DEF Shape, Fields
  <1>7. a.undone = s.undone /\ a.st = s.st
    BY <1>5 DEF Shape, Fields
  <1> HIDE DEF a
  <1>8. Shape(r) /\ r.undone = a.undone /\ r.st = a.st
    BY <1>1, <1>4, <1>6, SendShape DEF Fields
  <1> HIDE DEF r
  <1>9. b.undone = r.undone /\ b.st = r.st
    BY <1>8 DEF Shape, Fields
  <1> HIDE DEF b
  <1>10. ErrorFound(o) = a \/ ErrorFound(o) = b
    BY <1>1 DEF ErrorFound, b, r, a, s, u
  <1> QED BY <1>3, <1>5, <1>7, <1>8, <1>9, <1>10

(* A request is timed out.  When a DM was being asked to take the committed  *)
(* table, that table is undone.                                              *)
LEMMA RequestTimeoutStep ==
    ASSUME IInv, NEW m \in lost, RequestTimeout(m)
    PROVE  IInv'
  <1> DEFINE s == m.svc
             v == om.committed.ver
             A == Asked(req, ans', lost', v)
             B == Asked(req, ans, lost, v)
             g == Here(A)
             h == Here(B)
             z == Handled(s, m.kind, m.dmt.ver, "timeout")
  <1>1. /\ Shape(om) /\ Stage(om) /\ v \in Nat
        /\ s \in Svc /\ m.kind \in Kinds /\ m.dmt.ver \in Nat
    BY DEF IInv, Types, Shape, Dmt
  <1>2. /\ lost' = lost \ {m} /\ Become(z) /\ UNCHANGED <<svc, reg, ans, pulls>>
    BY DEF RequestTimeout
  <1>3. World(h) /\ Good(om, h, 0)
    BY BeginAll
  <1>4. A \in SUBSET DM /\ B \in SUBSET DM
    BY DEF Asked
  <1>5. g.undone = om.undone /\ h.undone = om.undone
    BY DEF Here
  <1>6. ASSUME ~om.undone, Broad(om)
        PROVE  \A d \in DM : Once(req, ans', lost', d, v)
    <2>1. \A d \in DM : Once(req, ans, lost, d, v)
      BY <1>6 DEF IInv, Safe, Gathering
    <2>2. \A d \in DM : LostV(lost', d, v) => LostV(lost, d, v)
      BY <1>2 DEF LostV
    <2> QED BY <1>2, <2>1, <2>2 DEF Once
  <1> HIDE DEF A, B, g, h, z, v
  <1>7. ASSUME ~om.undone, Broad(om), s \in DM, IsV(m, v)
        PROVE  Good(z, g, 0)
    <2> DEFINE e == Evt("errorFound", s)
               p == Process(om, e)
               f == Recover(FALSE, s, "timeout")
               w == [c |-> om.committed, asked |-> {}, undone |-> TRUE]
    <2>1. e \in Event /\ Stale(e, h) /\ e.k = "errorFound"
      BY <1>1, EvtStale DEF Evt
    <2>2. f \in Recovery /\ Stale(f, w)
      BY <1>1 DEF Recovery, Recover, Stale
    <2>3. World(w) /\ w.undone
      BY <1>1, FS_EmptySet DEF World, Shape
    <2>4. z = Process(p, f)
      BY <1>7 DEF z, Handled, IsV
    <2> HIDE DEF e, f, w
    <2>5. Good(p, h, 0)
      BY <1>3, <2>1, ProcessGood
    <2>6. om.committed # NoDmt
      BY <1>1, <1>7 DEF IInv, Safe, NoDmt, v
    <2>7. ErrorFound(om).undone = TRUE /\ ErrorFound(om).st = om.st
      BY <1>1, <1>7, <2>6, ErrorUndone
    <2>8. Dispatch(om, e) = ErrorFound(om)
      BY <1>7, <2>1 DEF Dispatch, Broad
    <2>9. p.undone
      BY <2>7, <2>8 DEF Process
    <2> HIDE DEF p
    <2>10. Good(p, w, 0)
      BY <2>5, <2>9 DEF Good, Since
    <2>11. Good(Process(p, f), w, 0)
      BY <2>2, <2>3, <2>10, ProcessGood
    <2>12. Good(z, g, 0)
      BY <2>3, <2>4, <2>11 DEF Good, Since
    <2> QED BY <2>12
  <1>8. ASSUME ~(~om.undone /\ Broad(om) /\ s \in DM /\ IsV(m, v))
        PROVE  Good(z, g, 0)
    <2>1. ASSUME ~om.undone, Broad(om)
          PROVE  /\ \A d \in om.committed.nodes : svc[d].cur.ver >= om.committed.ver \/ d \in A
                 /\ Cardinality(A) + 0 <= om.commitAcks
      <3>1. \A d \in DM : LostV(lost', d, v) <=> LostV(lost, d, v)
        BY <1>2, <1>8, <2>1 DEF LostV
      <3>2. A = B
        BY <1>2, <3>1 DEF A, B, Asked
      <3>3. Cardinality(B) \in Nat
        BY <1>4, DmtDeployAssumption, FS_Subset, FS_CardinalityType
      <3> QED BY <2>1, <3>2, <3>3 DEF IInv, Safe, Gathering, B, v
    <2>2. World(g) /\ Good(om, g, 0)
      BY <1>4, <2>1, Begin DEF g
    <2>3. Good(z, g, 0)
      BY <1>1, <2>2, HandledGood DEF z
    <2> QED BY <2>3
  <1>9. Good(z, g, 0)
    BY <1>7, <1>8
  <1>10. Shape(z)
    BY <1>9 DEF Good
  <1>11. Types'
    BY <1>2, <1>10, BecomeTypes DEF IInv, Types
  <1> QED BY <1>2, <1>6, <1>9, <1>11, Finish DEF g, A, v

-----------------------------------------------------------------------------
(* Steps of the services *)

(* A step of service s, which leaves the OM and the other services alone,    *)
(* keeps the invariant if a DM does not go back and awaited answers stay     *)
(* awaited, and if a client only uses tables whose DMs have them.            *)
LEMMA ServiceStep ==
    ASSUME IInv, Types', om' = om, NEW s \in Svc,
           \A x \in Svc \ {s} : svc'[x] = svc[x] /\ req'[x] = req[x] /\ ans'[x] = ans[x],
           \A m : m.svc # s => (m \in lost' <=> m \in lost),
           s \in DM => (svc'[s].known = {} => svc'[s].cur = NoDmt),
           s \in DM /\ ~om.undone =>
              /\ Follows(s)'
              /\ svc'[s].cur.ver >= svc[s].cur.ver
              /\ Broad(om) =>
                    /\ Once(req', ans', lost', s, om.committed.ver)
                    /\ s \in Asked(req', ans', lost', om.committed.ver) <=>
                       s \in Asked(req, ans, lost, om.committed.ver),
           s \in Clients /\ ~om.undone =>
              /\ AllHave(svc'[s].cur)
              /\ \A i \in DOMAIN req'[s] : \E j \in DOMAIN req[s] : req'[s][i] = req[s][j]
    PROVE  IInv'
  <1> DEFINE v == om.committed.ver
             A == Asked(req, ans, lost, v)
             B == Asked(req', ans', lost', v)
  <1>1. DM \subseteq Svc /\ Clients \subseteq Svc /\ \A d \in DM : d \notin Clients
    BY DmtDeployAssumption DEF Svc, Clients
  <1>2. Stage(om)'
    BY DEF IInv, Stage
  <1>3. Blank'
    BY <1>1 DEF IInv, Blank
  <1>4. \A x \in Svc : svc[x].cur \in Dmt /\ svc'[x].cur \in Dmt
    BY DEF IInv, Types
  <1>5. \A x \in Svc : svc[x].cur.ver \in Nat /\ svc'[x].cur.ver \in Nat
    BY <1>4 DEF Dmt
  <1>6. ASSUME ~om.undone
        PROVE  /\ om'.committed.ver >= 1
               /\ \A d \in DM : Follows(d)'
               /\ \A c \in Clients : AllHave(svc[c].cur)'
               /\ \A c \in Clients : \A i \in DOMAIN req'[c] :
                     req'[c][i].kind = "dmt" => AllHave(req[c][i].dmt)'
               /\ Broad(om)' => Gathering'
               /\ DeferredOld'
    <2>1. /\ om.committed.ver >= 1 /\ DeferredOld
          /\ \A d \in DM : Follows(d)
          /\ \A c \in Clients : AllHave(svc[c].cur)
          /\ \A c \in Clients : \A i \in DOMAIN req[c] : req[c][i].kind = "dmt" => AllHave(req[c][i].dmt)
      BY <1>6 DEF IInv, Safe
    <2>2. \A d \in DM : svc'[d].cur.ver >= svc[d].cur.ver
      BY <1>1, <1>5, <1>6
    <2>3. ASSUME NEW t \in Dmt, AllHave(t)
          PROVE  AllHave(t)'
      <3>1. \A d \in t.nodes : d \in DM
        BY DEF Dmt
      <3>2. t.ver \in Nat
        BY DEF Dmt
      <3> QED BY <1>1, <1>5, <2>2, <2>3, <3>1, <3>2 DEF AllHave
    <2>4. ASSUME NEW d \in DM PROVE Follows(d)'
      <3>1. CASE d = s
        <4>1. Follows(s)'
          BY <1>6, <3>1
        <4> QED BY <3>1, <4>1 DEF Follows
      <3>2. CASE d # s
        <4>1. Follows(d) /\ svc'[d] = svc[d] /\ req'[d] = req[d] /\ ans'[d] = ans[d]
          BY <1>1, <2>1, <3>2
        <4>2. \A m \in lost' : m.svc = d => m \in lost
          BY <3>2
        <4>3. \A m \in lost' : m.svc = d /\ m.kind = "dmt" => m.dmt.ver <= om.committed.ver
          BY <4>1, <4>2 DEF Follows
        <4> QED BY <4>1, <4>3 DEF Follows
      <3> QED BY <3>1, <3>2
    <2>5. ASSUME NEW c \in Clients PROVE AllHave(svc[c].cur)'
      <3>1. AllHave(svc'[c].cur)
        BY <1>1, <1>6, <2>1
      <3>2. AllHave(svc[c].cur)'
        <4> DEFINE t == svc'[c].cur
        <4>1. t \in Dmt /\ AllHave(t)
          BY <1>1, <1>4, <3>1
        <4>2. \A d \in t.nodes : d \in DM
          BY <4>1 DEF Dmt
        <4>3. t.ver \in Nat
          BY <4>1 DEF Dmt
        <4> HIDE DEF t
        <4>4. \A d \in t.nodes : svc'[d].cur.ver >= t.ver
          BY <1>1, <1>5, <2>2, <4>1, <4>2, <4>3 DEF AllHave
        <4> QED BY <4>4 DEF AllHave, t
      <3> QED BY <3>2
    <2>6. ASSUME NEW c \in Clients, NEW i \in DOMAIN req'[c], req'[c][i].kind = "dmt"
          PROVE  AllHave(req[c][i].dmt)'
      <3> DEFINE t == req'[c][i].dmt
      <3>1. PICK j \in DOMAIN req[c] : req'[c][i] = req[c][j]
        BY <1>1, <1>6
      <3>2. AllHave(t)
        BY <2>1, <2>6, <3>1
      <3>3. t \in Dmt
        <4>1. req'[c] \in Seq(Msg)
          BY <1>1 DEF Types
        <4>2. req'[c][i] \in Msg
          BY <4>1
        <4> QED BY <4>2 DEF Msg
      <3>4. /\ \A d \in t.nodes : d \in DM
            /\ t.ver \in Nat
        BY <3>3 DEF Dmt
      <3> HIDE DEF t
      <3>5. \A d \in t.nodes : svc'[d].cur.ver >= t.ver
        BY <1>1, <1>5, <2>2, <3>2, <3>4 DEF AllHave
      <3> QED BY <3>5 DEF AllHave, t
    <2>7. ASSUME Broad(om) PROVE Gathering'
      <3>1. /\ \A d \in om.committed.nodes : svc[d].cur.ver >= v \/ d \in A
            /\ Cardinality(A) <= om.commitAcks
            /\ \A d \in DM : Once(req, ans, lost, d, v)
        BY <1>6, <2>7 DEF IInv, Safe, Gathering
      <3>2. ASSUME NEW d \in DM \ {s}
            PROVE  /\ LostV(lost', d, v) <=> LostV(lost, d, v)
                   /\ HasV(req'[d], v) <=> HasV(req[d], v)
                   /\ HasV(ans'[d], v) <=> HasV(ans[d], v)
        <4>1. \A m : m.svc = d => (m \in lost' <=> m \in lost)
          OBVIOUS
        <4>2. LostV(lost', d, v) <=> LostV(lost, d, v)
          BY <4>1 DEF LostV
        <4>3. req'[d] = req[d] /\ ans'[d] = ans[d]
          BY <1>1
        <4> QED BY <4>2, <4>3
      <3>3. \A d \in DM \ {s} : d \in B <=> d \in A
        BY <3>2 DEF Asked
      <3>4. s \in DM => (s \in B <=> s \in A)
        BY <1>6, <2>7
      <3>5. A \subseteq DM /\ B \subseteq DM
        BY DEF Asked
      <3>6. B = A
        <4> HIDE DEF A, B
        <4>1. \A d \in DM : d \in B <=> d \in A
          BY <3>3, <3>4
        <4> QED BY <3>5, <4>1
      <3>7. ASSUME NEW d \in DM PROVE Once(req', ans', lost', d, v)
        <4>1. CASE d = s
          BY <1>6, <2>7, <4>1
        <4>2. CASE d # s
          <5>1. req'[d] = req[d] /\ ans'[d] = ans[d] /\ Once(req, ans, lost, d, v)
            BY <1>1, <3>1, <4>2
          <5> QED BY <3>2, <4>2, <5>1 DEF Once
        <4> QED BY <4>1, <4>2
      <3>8. om.committed.nodes \subseteq DM /\ v \in Nat
        BY DEF IInv, Types, Shape, Dmt
      <3>9. \A d \in om.committed.nodes : svc'[d].cur.ver >= v \/ d \in B
        BY <1>1, <1>5, <2>2, <3>1, <3>6, <3>8
      <3> QED BY <3>1, <3>6, <3>7, <3>9 DEF Gathering
    <2>8. DeferredOld' /\ om'.committed.ver >= 1 /\ (Broad(om)' => Broad(om))
      BY <2>1 DEF DeferredOld, Broad
    <2> QED BY <2>4, <2>5, <2>6, <2>7, <2>8
  <1>7. Safe'
    BY <1>6 DEF Safe
  <1> QED BY <1>2, <1>3, <1>7 DEF IInv

(* The head of a queue is taken off *)
Popped(q, t) ==
    /\ 1 \in DOMAIN q /\ DOMAIN t \subseteq Nat
    /\ \A i \in DOMAIN t : i + 1 \in DOMAIN q /\ 1 < i + 1 /\ t[i] = q[i + 1]
    /\ \A i \in DOMAIN q : i # 1 => i - 1 \in DOMAIN t /\ t[i - 1] = q[i]

(* What Taken does to the queue of a service. *)
LEMMA Pop ==
    ASSUME NEW q \in Seq(Msg), q # <<>>
    PROVE  Tail(q) \in Seq(Msg) /\ Head(q) = q[1] /\ Head(q) \in Msg /\ Popped(q, Tail(q))
  <1> DEFINE t == Tail(q)
             k == Len(q)
  <1>1. k \in Nat /\ k # 0 /\ DOMAIN q = 1 .. k /\ Head(q) = q[1] /\ \A i \in 1 .. k : q[i] \in Msg
    OBVIOUS
  <1>2. t \in Seq(Msg) /\ DOMAIN t = 1 .. (k - 1) /\ \A i \in 1 .. (k - 1) : t[i] = q[i + 1]
    OBVIOUS
  <1> HIDE DEF t, k
  <1>3. /\ 1 \in DOMAIN q /\ DOMAIN t \subseteq Nat
        /\ \A i \in DOMAIN t : i + 1 \in DOMAIN q /\ 1 < i + 1
    BY <1>1, <1>2
  <1>4. \A i \in DOMAIN q : i # 1 => i - 1 \in 1 .. (k - 1) /\ (i - 1) + 1 = i
    BY <1>1
  <1>5. \A i \in DOMAIN q : i # 1 => i - 1 \in DOMAIN t /\ t[i - 1] = q[i]
    BY <1>2, <1>4
  <1>6. Popped(q, t)
    BY <1>2, <1>3, <1>5 DEF Popped
  <1> QED BY <1>1, <1>2, <1>3, <1>6 DEF t

(* Tables stay in order when one is taken off, *)
LEMMA PopSorted ==
    ASSUME NEW q, NEW t, Popped(q, t), Sorted(q), NEW lo, NEW hi, Between(q, lo, hi)
    PROVE  /\ Sorted(t) /\ Between(t, lo, hi)
           /\ Tabled(q[1]) => Between(t, q[1].dmt.ver, hi)
  <1>1. Between(t, lo, hi)
    BY DEF Popped, Between
  <1>2. Sorted(t)
    <2> SUFFICES ASSUME NEW i \in DOMAIN t, NEW j \in DOMAIN t, i < j, Tabled(t[i]), Tabled(t[j])
                 PROVE  t[i].dmt.ver <= t[j].dmt.ver
      BY DEF Sorted
    <2>1. i \in Nat /\ j \in Nat
      BY DEF Popped
    <2>2. i + 1 \in DOMAIN q /\ j + 1 \in DOMAIN q /\ t[i] = q[i + 1] /\ t[j] = q[j + 1] /\ i + 1 < j + 1
      BY <2>1 DEF Popped
    <2> QED BY <2>2 DEF Sorted
  <1>3. Tabled(q[1]) => Between(t, q[1].dmt.ver, hi)
    <2> SUFFICES ASSUME Tabled(q[1]), NEW i \in DOMAIN t, Tabled(t[i])
                 PROVE  q[1].dmt.ver <= t[i].dmt.ver /\ t[i].dmt.ver <= hi
      BY DEF Between
    <2>1. i + 1 \in DOMAIN q /\ 1 \in DOMAIN q /\ 1 < i + 1 /\ t[i] = q[i + 1]
      BY DEF Popped
    <2> QED BY <2>1 DEF Sorted, Between
  <1> QED BY <1>1, <1>2, <1>3

(* and the request for a version is there once or not at all. *)
LEMMA PopOnce ==
    ASSUME NEW q, NEW t, Popped(q, t), NEW v
    PROVE  /\ HasV(q, v) <=> IsV(q[1], v) \/ HasV(t, v)
           /\ OnceV(q, v) => OnceV(t, v) /\ (IsV(q[1], v) => ~HasV(t, v))
  <1>1. HasV(q, v) => IsV(q[1], v) \/ HasV(t, v)
    BY DEF Popped, HasV
  <1>2. IsV(q[1], v) \/ HasV(t, v) => HasV(q, v)
    BY DEF Popped, HasV
  <1>3. ASSUME OnceV(q, v), NEW i \in DOMAIN t, NEW j \in DOMAIN t, IsV(t[i], v), IsV(t[j], v)
        PROVE  i = j
    <2>1. i \in Nat /\ j \in Nat /\ i + 1 = j + 1
      BY <1>3 DEF Popped, OnceV
    <2> QED BY <2>1
  <1>4. ASSUME OnceV(q, v), IsV(q[1], v), NEW i \in DOMAIN t, IsV(t[i], v)
        PROVE  FALSE
    <2>1. i \in Nat /\ i + 1 = 1
      BY <1>4 DEF Popped, OnceV
    <2>2. 1 < i + 1
      BY DEF Popped
    <2> QED BY <2>1, <2>2
  <1>5. OnceV(q, v) => OnceV(t, v)
    BY <1>3 DEF OnceV
  <1>6. OnceV(q, v) /\ IsV(q[1], v) => ~HasV(t, v)
    BY <1>4 DEF HasV
  <1> QED BY <1>1, <1>2, <1>5, <1>6

(* Answer x is at the end of b, after the answers of a *)
Longer(a, x, b, v) ==
    /\ b \in Seq(Ack)
    /\ \A i \in DOMAIN b : b[i] = x \/ \E j \in DOMAIN a : b[i] = a[j]
    /\ HasV(b, v) <=> HasV(a, v) \/ IsV(x, v)
    /\ OnceV(a, v) /\ (IsV(x, v) => ~HasV(a, v)) => OnceV(b, v)

(* What Answer does to the queue of a service. *)
LEMMA AppendOnce ==
    ASSUME NEW a \in Seq(Ack), NEW x \in Ack, NEW v, NEW b, b = Append(a, x)
    PROVE  Longer(a, x, b, v)
  <1> DEFINE n == Len(a)
  <1>1. /\ n \in Nat /\ DOMAIN a = 1 .. n /\ b \in Seq(Ack) /\ DOMAIN b = 1 .. (n + 1)
        /\ b[n + 1] = x /\ \A i \in 1 .. n : b[i] = a[i]
    OBVIOUS
  <1> HIDE DEF n
  <1>2. /\ \A i \in DOMAIN b : i = n + 1 \/ i \in DOMAIN a
        /\ \A i \in DOMAIN a : i \in DOMAIN b /\ i # n + 1 /\ b[i] = a[i]
        /\ n + 1 \in DOMAIN b
    BY <1>1
  <1>3. \A i \in DOMAIN b : b[i] = x \/ \E j \in DOMAIN a : b[i] = a[j]
    BY <1>1, <1>2
  <1>4. HasV(b, v) <=> HasV(a, v) \/ IsV(x, v)
    BY <1>1, <1>2 DEF HasV
  <1>5. OnceV(a, v) /\ (IsV(x, v) => ~HasV(a, v)) => OnceV(b, v)
    BY <1>1, <1>2 DEF HasV, OnceV
  <1> QED BY <1>1, <1>3, <1>4, <1>5 DEF Longer

(* What the table of a DM may become when it takes request m *)
Uses(s, m) ==
    LET c == svc'[s].cur IN
    /\ c.ver >= svc[s].cur.ver /\ c.ver <= om.committed.ver
    /\ c.ver = svc[s].cur.ver \/ (Tabled(m) /\ c.ver = m.dmt.ver)
    /\ \A t \in svc'[s].known : t.ver <= c.ver
    /\ m.kind = "dmt" => m.dmt.ver <= c.ver

(* A service takes a request and answers it. *)
LEMMA AnswerStep ==
    ASSUME IInv, NEW s \in Svc, req[s] # <<>>, NEW m, m = Head(req[s]), NEW r \in {"ok", "err"},
           Taken(s), Answer(s, m, r), om' = om, lost' = lost,
           reg' \subseteq DM, pulls' \subseteq [dm : DM, ep : Nat, aborted : BOOLEAN],
           svc' \in [Svc -> [known : SUBSET Dmt, cur : Dmt]],
           \A x \in Svc \ {s} : svc'[x] = svc[x],
           s \in DM => (svc'[s].known = {} => svc'[s].cur = NoDmt),
           s \in DM /\ ~om.undone => Uses(s, m),
           s \in Clients /\ ~om.undone => AllHave(svc'[s].cur)
    PROVE  IInv'
  <1> DEFINE v == om.committed.ver
             x == [kind |-> m.kind, dmt |-> m.dmt, res |-> r]
             t == Tail(req[s])
             b == Append(ans[s], x)
  <1>1. /\ req \in [Svc -> Seq(Msg)] /\ ans \in [Svc -> Seq(Ack)]
        /\ svc \in [Svc -> [known : SUBSET Dmt, cur : Dmt]]
    BY DEF IInv, Types
  <1>2. req[s] \in Seq(Msg) /\ ans[s] \in Seq(Ack)
    BY <1>1
  <1>3. t \in Seq(Msg) /\ m = req[s][1] /\ m \in Msg /\ Popped(req[s], t)
    BY <1>2, Pop
  <1>4. x \in Ack /\ x.kind = m.kind /\ x.dmt = m.dmt
    BY <1>3 DEF Msg, Ack
  <1>5. IsV(x, v) <=> IsV(m, v)
    BY <1>4 DEF IsV
  <1>6. req' = [req EXCEPT ![s] = t] /\ ans' = [ans EXCEPT ![s] = b] /\ b = Append(ans[s], x)
    BY DEF Taken, Answer
  <1> HIDE DEF x, t, b
  <1>7. /\ b \in Seq(Ack)
        /\ \A i \in DOMAIN b : b[i] = x \/ \E j \in DOMAIN ans[s] : b[i] = ans[s][j]
        /\ HasV(b, v) <=> HasV(ans[s], v) \/ IsV(x, v)
        /\ OnceV(ans[s], v) /\ (IsV(x, v) => ~HasV(ans[s], v)) => OnceV(b, v)
    <2>1. Longer(ans[s], x, b, v)
      BY <1>2, <1>4, <1>6, AppendOnce
    <2> QED BY <2>1 DEF Longer
  <1>8. /\ req'[s] = t /\ ans'[s] = b
        /\ req' \in [Svc -> Seq(Msg)] /\ ans' \in [Svc -> Seq(Ack)]
        /\ \A y \in Svc \ {s} : req'[y] = req[y] /\ ans'[y] = ans[y]
    BY <1>1, <1>3, <1>6, <1>7
  <1>9. Types'
    <2>1. Shape(om)' /\ om'.out = NoOut /\ lost' \subseteq [kind : Kinds, dmt : Dmt, svc : Svc, ep : Nat]
      BY DEF IInv, Types, Shape
    <2> QED BY <1>8, <2>1 DEF Types
  <1>10. ASSUME s \in DM, ~om.undone
         PROVE  /\ Follows(s)'
                /\ svc'[s].cur.ver >= svc[s].cur.ver
                /\ Broad(om) =>
                      /\ Once(req', ans', lost', s, v)
                      /\ s \in Asked(req', ans', lost', v) <=> s \in Asked(req, ans, lost, v)
    <2>1. Uses(s, m) /\ Follows(s)
      BY <1>10 DEF IInv, Safe
    <2>2. svc[s].cur \in Dmt /\ svc'[s].cur \in Dmt /\ om.committed \in Dmt
      BY <1>1 DEF IInv, Types, Shape
    <2>3. svc[s].cur.ver \in Nat /\ svc'[s].cur.ver \in Nat /\ v \in Nat
      BY <2>2 DEF Dmt
    <2>4. Sorted(t) /\ Between(t, svc[s].cur.ver, v) /\ (Tabled(m) => Between(t, m.dmt.ver, v))
      <3>1. Sorted(req[s]) /\ Between(req[s], svc[s].cur.ver, v)
        BY <2>1 DEF Follows
      <3> QED BY <1>3, <3>1, PopSorted
    <2>5. Between(t, svc'[s].cur.ver, v)
      BY <2>1, <2>4 DEF Uses
    <2>6. \A i \in DOMAIN b : b[i].kind = "dmt" => b[i].dmt.ver <= svc'[s].cur.ver
      <3> SUFFICES ASSUME NEW i \in DOMAIN b, b[i].kind = "dmt"
                   PROVE  b[i].dmt.ver <= svc'[s].cur.ver
        OBVIOUS
      <3>1. CASE b[i] = x
        BY <1>4, <2>1, <3>1 DEF Uses
      <3>2. CASE b[i] # x
        <4>1. PICK j \in DOMAIN ans[s] : b[i] = ans[s][j]
          BY <1>7, <3>2
        <4>2. b[i].dmt.ver <= svc[s].cur.ver
          BY <2>1, <4>1 DEF Follows
        <4>3. b[i].dmt.ver \in Nat
          <5>1. ans[s][j] \in Ack
            BY <1>2
          <5> QED BY <4>1, <5>1 DEF Ack, Dmt
        <4> QED BY <2>1, <2>3, <4>2, <4>3 DEF Uses
      <3> QED BY <3>1, <3>2
    <2>7. Follows(s)'
      BY <1>8, <2>1, <2>4, <2>5, <2>6 DEF Follows, Uses
    <2>8. ASSUME Broad(om)
          PROVE  /\ Once(req', ans', lost', s, v)
                 /\ s \in Asked(req', ans', lost', v) <=> s \in Asked(req, ans, lost, v)
      <3>1. Once(req, ans, lost, s, v)
        BY <1>10, <2>8 DEF IInv, Safe, Gathering
      <3>2. /\ HasV(req[s], v) <=> IsV(m, v) \/ HasV(t, v)
            /\ OnceV(req[s], v) => OnceV(t, v) /\ (IsV(m, v) => ~HasV(t, v))
        BY <1>3, PopOnce
      <3>3. Once(req', ans', lost', s, v)
        BY <1>5, <1>7, <1>8, <3>1, <3>2 DEF Once
      <3>4. (HasV(t, v) \/ HasV(b, v) \/ LostV(lost, s, v))
            <=> (HasV(req[s], v) \/ HasV(ans[s], v) \/ LostV(lost, s, v))
        BY <1>5, <1>7, <3>2
      <3>5. s \in Asked(req', ans', lost', v) <=> s \in Asked(req, ans, lost, v)
        BY <1>8, <3>4 DEF Asked
      <3> QED BY <3>3, <3>5
    <2> QED BY <2>1, <2>7, <2>8 DEF Uses
  <1>11. \A i \in DOMAIN req'[s] : \E j \in DOMAIN req[s] : req'[s][i] = req[s][j]
    BY <1>3, <1>8 DEF Popped
  <1> QED BY <1>8, <1>9, <1>10, <1>11, ServiceStep

(* The request a service takes *)
LEMMA HeadMsg ==
    ASSUME IInv, NEW s \in Svc, req[s] # <<>>
    PROVE  /\ Head(req[s]) \in Msg /\ Head(req[s]) = req[s][1] /\ 1 \in DOMAIN req[s]
           /\ Head(req[s]).kind \in Kinds /\ Head(req[s]).dmt \in Dmt
           /\ Head(req[s]).dmt.ver \in Nat /\ Head(req[s]).ep \in Nat
           /\ Popped(req[s], Tail(req[s]))
  <1>1. req[s] \in Seq(Msg)
    BY DEF IInv, Types
  <1>2. /\ Head(req[s]) \in Msg /\ Head(req[s]) = req[s][1] /\ Popped(req[s], Tail(req[s]))
    BY <1>1, Pop
  <1>3. 1 \in DOMAIN req[s]
    BY <1>2 DEF Popped
  <1> QED BY <1>2, <1>3 DEF Msg, Dmt

(* A table the OM sends to a DM is not older than the one it uses *)
LEMMA HeadTable ==
    ASSUME IInv, NEW d \in DM, req[d] # <<>>, ~om.undone
    PROVE  /\ \A t \in svc[d].known : t.ver <= svc[d].cur.ver
           /\ svc[d].cur.ver <= om.committed.ver
           /\ Tabled(Head(req[d])) => /\ svc[d].cur.ver <= Head(req[d]).dmt.ver
                                      /\ Head(req[d]).dmt.ver <= om.committed.ver
  <1>1. Follows(d) /\ d \in Svc
    BY DEF IInv, Safe, Svc
  <1>2. Head(req[d]) = req[d][1] /\ 1 \in DOMAIN req[d]
    BY <1>1, HeadMsg
  <1> QED BY <1>1, <1>2 DEF Follows, Between

(* The types of what services use *)
LEMMA SvcTypes ==
    ASSUME IInv
    PROVE  /\ svc \in [Svc -> [known : SUBSET Dmt, cur : Dmt]]
           /\ \A s \in Svc : svc[s].known \subseteq Dmt /\ svc[s].cur \in Dmt /\ svc[s].cur.ver \in Nat
           /\ \A s \in Svc : \A t \in svc[s].known : t \in Dmt /\ t.ver \in Nat
           /\ reg \subseteq DM /\ pulls \subseteq [dm : DM, ep : Nat, aborted : BOOLEAN]
           /\ lost \subseteq [kind : Kinds, dmt : Dmt, svc : Svc, ep : Nat]
           /\ om.committed \in Dmt /\ om.committed.ver \in Nat
           /\ \A d \in DM : d \in Svc /\ d \notin Clients
  <1>1. /\ svc \in [Svc -> [known : SUBSET Dmt, cur : Dmt]]
        /\ reg \subseteq DM /\ pulls \subseteq [dm : DM, ep : Nat, aborted : BOOLEAN]
        /\ lost \subseteq [kind : Kinds, dmt : Dmt, svc : Svc, ep : Nat]
        /\ om.committed \in Dmt
    BY DEF IInv, Types, Shape
  <1>2. \A s \in Svc : svc[s].known \subseteq Dmt /\ svc[s].cur \in Dmt
    BY <1>1
  <1>3. \A t \in Dmt : t.ver \in Nat
    BY DEF Dmt
  <1>4. \A d \in DM : d \in Svc /\ d \notin Clients
    BY DmtDeployAssumption DEF Svc, Clients
  <1> QED BY <1>1, <1>2, <1>3, <1>4

(* A service that leaves its tables alone and answers *)
LEMMA KeepStep ==
    ASSUME IInv, NEW s \in Svc, req[s] # <<>>, NEW m, m = Head(req[s]), NEW r \in {"ok", "err"},
           Taken(s), Answer(s, m, r), UNCHANGED <<om, svc, reg, pulls, lost>>,
           s \in DM /\ ~om.undone /\ m.kind = "dmt" => m.dmt.ver <= svc[s].cur.ver
    PROVE  IInv'
  <1>1. s \in DM => (svc'[s].known = {} => svc'[s].cur = NoDmt)
    BY DEF IInv, Blank
  <1>2. ASSUME s \in DM, ~om.undone PROVE Uses(s, m)
    <2>1. svc[s].cur.ver \in Nat
      BY SvcTypes
    <2>2. \A t \in svc[s].known : t.ver <= svc[s].cur.ver
      BY <1>2, HeadTable
    <2>3. svc[s].cur.ver <= om.committed.ver
      BY <1>2, HeadTable
    <2> QED BY <1>2, <2>1, <2>2, <2>3 DEF Uses
  <1>3. s \in Clients /\ ~om.undone => AllHave(svc'[s].cur)
    BY DEF IInv, Safe
  <1>4. /\ svc' \in [Svc -> [known : SUBSET Dmt, cur : Dmt]]
        /\ reg' \subseteq DM /\ pulls' \subseteq [dm : DM, ep : Nat, aborted : BOOLEAN]
        /\ om' = om /\ lost' = lost /\ \A x \in Svc \ {s} : svc'[x] = svc[x]
    BY SvcTypes
  <1> QED BY <1>1, <1>2, <1>3, <1>4, AnswerStep

(* DMTManager::add *)
LEMMA UpdateDmtStep ==
    ASSUME IInv, NEW s \in Svc, UpdateDmt(s)
    PROVE  IInv'
  <1> DEFINE m == Head(req[s])
  <1>1. /\ req[s] # <<>> /\ m.kind = "dmt" /\ Taken(s) /\ UNCHANGED <<om, reg, pulls, lost>>
    BY DEF UpdateDmt, Arrived
  <1>2. m = req[s][1] /\ 1 \in DOMAIN req[s] /\ m.dmt \in Dmt /\ m.dmt.ver \in Nat
    BY <1>1, HeadMsg
  <1>3. Tabled(m)
    BY <1>1 DEF Tabled
  <1>4. CASE Knows(s, m.dmt.ver)
    <2>1. PICK t \in svc[s].known : t.ver = m.dmt.ver
      BY <1>4 DEF Knows
    <2>2. s \in DM /\ ~om.undone => m.dmt.ver <= svc[s].cur.ver
      BY <1>1, <2>1, HeadTable
    <2>3. Answer(s, m, "ok") /\ svc' = svc
      BY <1>4 DEF UpdateDmt
    <2> HIDE DEF m
    <2>4. m = Head(req[s])
      BY DEF m
    <2> QED BY <1>1, <2>2, <2>3, <2>4, KeepStep
  <1>5. CASE ~Knows(s, m.dmt.ver)
    <2>1. /\ svc' = [svc EXCEPT ![s] = [known |-> @.known \cup {m.dmt}, cur |-> m.dmt]]
          /\ Answer(s, m, "ok")
      BY <1>5 DEF UpdateDmt
    <2>2. m = Head(req[s])
      OBVIOUS
    <2> HIDE DEF m
    <2>3. /\ svc' \in [Svc -> [known : SUBSET Dmt, cur : Dmt]]
          /\ svc'[s].known = svc[s].known \cup {m.dmt} /\ svc'[s].cur = m.dmt
          /\ \A x \in Svc \ {s} : svc'[x] = svc[x]
      BY <1>2, <2>1, SvcTypes
    <2>4. ASSUME s \in DM, ~om.undone PROVE Uses(s, m)
      <3>1. svc[s].cur.ver <= m.dmt.ver /\ m.dmt.ver <= om.committed.ver
        BY <1>1, <1>3, <2>2, <2>4, HeadTable
      <3>2. \A t \in svc[s].known : t.ver <= svc[s].cur.ver /\ t.ver \in Nat
        BY <1>1, <2>4, HeadTable, SvcTypes
      <3>3. svc[s].cur.ver \in Nat
        BY SvcTypes
      <3>4. \A t \in svc'[s].known : t.ver <= m.dmt.ver
        BY <1>2, <2>3, <3>1, <3>2, <3>3
      <3> QED BY <1>2, <1>3, <2>3, <3>1, <3>3, <3>4 DEF Uses
    <2>5. s \in Clients /\ ~om.undone => AllHave(svc'[s].cur)
      BY <1>1, <1>2, <2>2, <2>3 DEF IInv, Safe
    <2>6. svc'[s].known # {}
      BY <2>3
    <2>7. /\ reg' \subseteq DM /\ pulls' \subseteq [dm : DM, ep : Nat, aborted : BOOLEAN]
          /\ om' = om /\ lost' = lost
      BY <1>1, SvcTypes
    <2> QED BY <1>1, <2>1, <2>2, <2>3, <2>4, <2>5, <2>6, <2>7, AnswerStep
  <1> QED BY <1>4, <1>5

(* The volume notification and the close *)
LEMMA AcknowledgeStep ==
    ASSUME IInv, NEW d \in DM, Acknowledge(d)
    PROVE  IInv'
  <1> DEFINE m == Head(req[d])
  <1>1. /\ req[d] # <<>> /\ m.kind # "dmt" /\ Taken(d)
        /\ UNCHANGED <<om, svc, reg, pulls, lost>> /\ d \in Svc /\ m = Head(req[d])
    BY DEF Acknowledge, Arrived, Svc
  <1>2. PICK r \in {"ok", "err"} : Answer(d, m, r)
    BY DEF Acknowledge
  <1> HIDE DEF m
  <1> QED BY <1>1, <1>2, KeepStep

(* A request is lost, or answered with an error by an AM. *)
LEMMA FailStep ==
    ASSUME IInv, NEW s \in Svc, Fail(s)
    PROVE  IInv'
  <1> DEFINE m == Head(req[s])
             l == [kind |-> m.kind, dmt |-> m.dmt, svc |-> s, ep |-> m.ep]
             t == Tail(req[s])
             v == om.committed.ver
  <1>1. req[s] # <<>> /\ Taken(s) /\ UNCHANGED <<om, svc, reg, pulls>> /\ m = Head(req[s])
    BY DEF Fail
  <1>2. CASE s \in AM /\ m.kind = "dmt" /\ Answer(s, m, "err") /\ UNCHANGED lost
    <2>1. s \notin DM
      BY <1>2, DmtDeployAssumption
    <2> HIDE DEF m
    <2> QED BY <1>1, <1>2, <2>1, KeepStep
  <1>3. CASE lost' = lost \cup {l} /\ UNCHANGED ans
    <2>1. /\ m \in Msg /\ m.kind \in Kinds /\ m.dmt \in Dmt /\ m.ep \in Nat
          /\ Popped(req[s], t) /\ m = req[s][1]
      BY <1>1, HeadMsg
    <2>2. l \in [kind : Kinds, dmt : Dmt, svc : Svc, ep : Nat] /\ l.svc = s /\ (IsV(l, v) <=> IsV(m, v))
          /\ l.kind = m.kind /\ l.dmt = m.dmt
      BY <2>1 DEF IsV
    <2>3. req \in [Svc -> Seq(Msg)] /\ t \in Seq(Msg)
      BY <1>1, Pop DEF IInv, Types
    <2>4. req' = [req EXCEPT ![s] = t]
      BY <1>1 DEF Taken
    <2> HIDE DEF l, t, m
    <2>5. /\ req' \in [Svc -> Seq(Msg)] /\ req'[s] = t
          /\ \A x \in Svc \ {s} : svc'[x] = svc[x] /\ req'[x] = req[x] /\ ans'[x] = ans[x]
      BY <1>1, <1>3, <2>3, <2>4
    <2>6. Types'
      <3>1. /\ Shape(om)' /\ om'.out = NoOut /\ ans' \in [Svc -> Seq(Ack)]
            /\ svc' \in [Svc -> [known : SUBSET Dmt, cur : Dmt]]
        BY <1>1, <1>3 DEF IInv, Types, Shape
      <3>2. /\ reg' \subseteq DM /\ pulls' \subseteq [dm : DM, ep : Nat, aborted : BOOLEAN]
            /\ lost' \subseteq [kind : Kinds, dmt : Dmt, svc : Svc, ep : Nat]
        BY <1>1, <1>3, <2>2 DEF IInv, Types
      <3> QED BY <2>5, <3>1, <3>2 DEF Types
    <2>7. \A x : x.svc # s => (x \in lost' <=> x \in lost)
      BY <1>3, <2>2
    <2>8. s \in DM => (svc'[s].known = {} => svc'[s].cur = NoDmt)
      BY <1>1 DEF IInv, Blank
    <2>9. ASSUME s \in DM, ~om.undone
          PROVE  /\ Follows(s)'
                 /\ svc'[s].cur.ver >= svc[s].cur.ver
                 /\ Broad(om) =>
                       /\ Once(req', ans', lost', s, v)
                       /\ s \in Asked(req', ans', lost', v) <=> s \in Asked(req, ans, lost, v)
      <3>1. Follows(s)
        BY <2>9 DEF IInv, Safe
      <3>2. Sorted(t) /\ Between(t, svc[s].cur.ver, v)
        <4>1. Sorted(req[s]) /\ Between(req[s], svc[s].cur.ver, v)
          BY <3>1 DEF Follows
        <4> QED BY <2>1, <4>1, PopSorted
      <3>3. l.kind = "dmt" => l.dmt.ver <= v
        BY <1>1, <2>2, <2>9, HeadTable DEF Tabled
      <3>4. \A x \in lost' : x.svc = s /\ x.kind = "dmt" => x.dmt.ver <= v
        BY <1>3, <3>1, <3>3 DEF Follows
      <3>5. Follows(s)'
        BY <1>1, <1>3, <2>5, <3>1, <3>2, <3>4 DEF Follows
      <3>6. svc'[s].cur.ver >= svc[s].cur.ver
        BY <1>1, SvcTypes
      <3>7. ASSUME Broad(om)
            PROVE  /\ Once(req', ans', lost', s, v)
                   /\ s \in Asked(req', ans', lost', v) <=> s \in Asked(req, ans, lost, v)
        <4>1. Once(req, ans, lost, s, v)
          BY <2>9, <3>7 DEF IInv, Safe, Gathering
        <4>2. /\ HasV(req[s], v) <=> IsV(m, v) \/ HasV(t, v)
              /\ OnceV(req[s], v) => OnceV(t, v) /\ (IsV(m, v) => ~HasV(t, v))
          BY <2>1, PopOnce
        <4>3. LostV(lost', s, v) <=> LostV(lost, s, v) \/ IsV(m, v)
          BY <1>3, <2>2 DEF LostV
        <4>4. Once(req', ans', lost', s, v)
          BY <1>3, <2>5, <4>1, <4>2, <4>3 DEF Once
        <4>5. s \in Asked(req', ans', lost', v) <=> s \in Asked(req, ans, lost, v)
          BY <1>3, <2>5, <4>2, <4>3 DEF Asked
        <4> QED BY <4>4, <4>5
      <3> QED BY <3>5, <3>6, <3>7
    <2>10. s \in Clients /\ ~om.undone =>
              /\ AllHave(svc'[s].cur)
              /\ \A i \in DOMAIN req'[s] : \E j \in DOMAIN req[s] : req'[s][i] = req[s][j]
      BY <1>1, <2>1, <2>5 DEF IInv, Safe, Popped
    <2> QED BY <1>1, <2>5, <2>6, <2>7, <2>8, <2>9, <2>10, ServiceStep
  <1> QED BY <1>2, <1>3 DEF Fail

(* A pull starts: it is no request for a table. *)
LEMMA StartPullStep ==
    ASSUME IInv, NEW d \in DM, StartPull(d)
    PROVE  IInv'
  <1> DEFINE m == Head(req[d])
             t == Tail(req[d])
             v == om.committed.ver
  <1>1. /\ req[d] # <<>> /\ m.kind = "pull" /\ Taken(d) /\ UNCHANGED <<om, svc, reg, ans, lost>>
        /\ pulls' = pulls \cup {[dm |-> d, ep |-> m.ep, aborted |-> FALSE]} /\ d \in Svc
    BY DEF StartPull, Arrived, Svc
  <1>2. m.ep \in Nat /\ Popped(req[d], t) /\ m = req[d][1] /\ d \notin Clients
    BY <1>1, HeadMsg, SvcTypes
  <1>3. req \in [Svc -> Seq(Msg)] /\ t \in Seq(Msg)
    BY <1>1, Pop DEF IInv, Types
  <1>4. req' = [req EXCEPT ![d] = t]
    BY <1>1 DEF Taken
  <1> HIDE DEF t, m
  <1>5. /\ req' \in [Svc -> Seq(Msg)] /\ req'[d] = t
        /\ \A x \in Svc \ {d} : svc'[x] = svc[x] /\ req'[x] = req[x] /\ ans'[x] = ans[x]
    BY <1>1, <1>3, <1>4
  <1>6. Types'
    <2>1. /\ Shape(om)' /\ om'.out = NoOut /\ ans' \in [Svc -> Seq(Ack)]
          /\ svc' \in [Svc -> [known : SUBSET Dmt, cur : Dmt]]
      BY <1>1 DEF IInv, Types, Shape
    <2>2. /\ reg' \subseteq DM /\ pulls' \subseteq [dm : DM, ep : Nat, aborted : BOOLEAN]
          /\ lost' \subseteq [kind : Kinds, dmt : Dmt, svc : Svc, ep : Nat]
      <3>1. [dm |-> d, ep |-> m.ep, aborted |-> FALSE] \in [dm : DM, ep : Nat, aborted : BOOLEAN]
        BY <1>2
      <3> QED BY <1>1, <3>1, SvcTypes
    <2> QED BY <1>5, <2>1, <2>2 DEF Types
  <1>7. svc'[d].known = {} => svc'[d].cur = NoDmt
    BY <1>1 DEF IInv, Blank
  <1>8. ASSUME ~om.undone
        PROVE  /\ Follows(d)'
               /\ svc'[d].cur.ver >= svc[d].cur.ver
               /\ Broad(om) =>
                     /\ Once(req', ans', lost', d, v)
                     /\ d \in Asked(req', ans', lost', v) <=> d \in Asked(req, ans, lost, v)
    <2>1. Follows(d)
      BY <1>8 DEF IInv, Safe
    <2>2. Sorted(t) /\ Between(t, svc[d].cur.ver, v)
      <3>1. Sorted(req[d]) /\ Between(req[d], svc[d].cur.ver, v)
        BY <2>1 DEF Follows
      <3> QED BY <1>2, <3>1, PopSorted
    <2>3. Follows(d)'
      BY <1>1, <1>5, <2>1, <2>2 DEF Follows
    <2>4. svc'[d].cur.ver >= svc[d].cur.ver
      BY <1>1, SvcTypes
    <2>5. ASSUME Broad(om)
          PROVE  /\ Once(req', ans', lost', d, v)
                 /\ d \in Asked(req', ans', lost', v) <=> d \in Asked(req, ans, lost, v)
      <3>1. Once(req, ans, lost, d, v)
        BY <1>8, <2>5 DEF IInv, Safe, Gathering
      <3>2. ~IsV(m, v)
        BY <1>1 DEF IsV
      <3>3. /\ HasV(req[d], v) <=> HasV(t, v)
            /\ OnceV(req[d], v) => OnceV(t, v)
        BY <1>2, <3>2, PopOnce
      <3> QED BY <1>1, <1>5, <3>1, <3>3 DEF Once, Asked
    <2> QED BY <2>3, <2>4, <2>5
  <1> QED BY <1>1, <1>2, <1>5, <1>6, <1>7, <1>8, ServiceStep

(* The answer of a pull is no answer about a table. *)
LEMMA EndPullStep ==
    ASSUME IInv, NEW p \in pulls, EndPull(p)
    PROVE  IInv'
  <1> DEFINE d == p.dm
             v == om.committed.ver
             b == ans'[d]
  <1>1. d \in DM /\ d \in Svc /\ d \notin Clients /\ p.ep \in Nat
    BY SvcTypes
  <1>2. /\ UNCHANGED <<om, svc, reg, req, lost>> /\ pulls' = pulls \ {p}
        /\ \E r \in {"ok", "err"} : Answer(d, Request("pull", NoDmt, p.ep), r)
    BY DEF EndPull
  <1>3. PICK r \in {"ok", "err"} : Answer(d, Request("pull", NoDmt, p.ep), r)
    BY <1>2
  <1> DEFINE x == [kind |-> "pull", dmt |-> NoDmt, res |-> r]
  <1>4. x \in Ack /\ x.kind = "pull" /\ ~IsV(x, v)
    <2>1. NoDmt \in Dmt
      BY DEF NoDmt, Dmt
    <2> QED BY <2>1 DEF Ack, Kinds, IsV
  <1>5. ans \in [Svc -> Seq(Ack)] /\ ans[d] \in Seq(Ack)
    BY <1>1 DEF IInv, Types
  <1>6. ans' = [ans EXCEPT ![d] = Append(ans[d], x)]
    BY <1>3 DEF Answer, Request
  <1>7. b = Append(ans[d], x)
    BY <1>1, <1>5, <1>6
  <1> HIDE DEF d, x, b
  <1>8. Longer(ans[d], x, b, v)
    BY <1>4, <1>5, <1>7, AppendOnce
  <1>9. /\ ans' \in [Svc -> Seq(Ack)] /\ ans'[d] = b
        /\ \A y \in Svc \ {d} : svc'[y] = svc[y] /\ req'[y] = req[y] /\ ans'[y] = ans[y]
    <2>1. b \in Seq(Ack) /\ ans'[d] = b
      BY <1>8 DEF Longer, b
    <2> QED BY <1>1, <1>2, <1>5, <1>6, <1>7, <2>1
  <1>10. Types'
    <2>1. /\ Shape(om)' /\ om'.out = NoOut /\ req' \in [Svc -> Seq(Msg)]
          /\ svc' \in [Svc -> [known : SUBSET Dmt, cur : Dmt]]
      BY <1>2 DEF IInv, Types, Shape
    <2>2. /\ reg' \subseteq DM /\ pulls' \subseteq [dm : DM, ep : Nat, aborted : BOOLEAN]
          /\ lost' \subseteq [kind : Kinds, dmt : Dmt, svc : Svc, ep : Nat]
      BY <1>2, SvcTypes
    <2> QED BY <1>9, <2>1, <2>2 DEF Types
  <1>11. svc'[d].known = {} => svc'[d].cur = NoDmt
    BY <1>1, <1>2 DEF IInv, Blank
  <1>12. ASSUME ~om.undone
         PROVE  /\ Follows(d)'
                /\ svc'[d].cur.ver >= svc[d].cur.ver
                /\ Broad(om) =>
                      /\ Once(req', ans', lost', d, v)
                      /\ d \in Asked(req', ans', lost', v) <=> d \in Asked(req, ans, lost, v)
    <2>1. Follows(d)
      BY <1>1, <1>12 DEF IInv, Safe
    <2>2. \A i \in DOMAIN b : b[i].kind = "dmt" => b[i].dmt.ver <= svc[d].cur.ver
      BY <1>4, <1>8, <2>1 DEF Follows, Longer
    <2>3. Follows(d)'
      BY <1>2, <1>9, <2>1, <2>2 DEF Follows
    <2>4. svc'[d].cur.ver >= svc[d].cur.ver
      BY <1>1, <1>2, SvcTypes
    <2>5. ASSUME Broad(om)
          PROVE  /\ Once(req', ans', lost', d, v)
                 /\ d \in Asked(req', ans', lost', v) <=> d \in Asked(req, ans, lost, v)
      <3>1. Once(req, ans, lost, d, v)
        BY <1>1, <1>12, <2>5 DEF IInv, Safe, Gathering
      <3>2. /\ HasV(b, v) <=> HasV(ans[d], v)
            /\ OnceV(ans[d], v) => OnceV(b, v)
        BY <1>4, <1>8 DEF Longer
      <3> QED BY <1>2, <1>9, <3>1, <3>2 DEF Once, Asked
    <2> QED BY <2>3, <2>4, <2>5
  <1> QED BY <1>1, <1>2, <1>9, <1>10, <1>11, <1>12, ServiceStep

(* A DM process starts: what it was asked is lost, so still awaited. *)
LEMMA BootStep ==
    ASSUME IInv, NEW d \in DM, Boot(d, req[d]), UNCHANGED <<om, ans>>
    PROVE  IInv'
  <1> DEFINE v == om.committed.ver
             q == req[d]
             L(i) == [kind |-> q[i].kind, dmt |-> q[i].dmt, svc |-> d, ep |-> q[i].ep]
             P(p) == [kind |-> "pull", dmt |-> NoDmt, svc |-> d, ep |-> p.ep]
             T == [kind : Kinds, dmt : Dmt, svc : Svc, ep : Nat]
  <1>1. /\ svc' = [svc EXCEPT ![d] = [known |-> {om.committed}, cur |-> om.committed]]
        /\ req' = [req EXCEPT ![d] = <<>>]
        /\ lost' = lost \cup {L(i) : i \in DOMAIN q} \cup {P(p) : p \in {p \in pulls : p.dm = d}}
        /\ pulls' = {p \in pulls : p.dm # d} /\ reg' = reg \cup {d}
    BY DEF Boot
  <1>2. d \in Svc /\ d \notin Clients /\ v \in Nat /\ om.committed \in Dmt
    BY SvcTypes
  <1>3. req \in [Svc -> Seq(Msg)] /\ q \in Seq(Msg)
    BY <1>2 DEF IInv, Types
  <1>4. \A i \in DOMAIN q : q[i] \in Msg
    BY <1>3
  <1>5. \A i \in DOMAIN q : /\ L(i) \in T /\ L(i).svc = d
                            /\ L(i).kind = q[i].kind /\ L(i).dmt = q[i].dmt
    BY <1>2, <1>4 DEF Msg
  <1>6. \A p \in pulls : P(p) \in T /\ P(p).svc = d /\ P(p).kind = "pull"
    <2>1. NoDmt \in Dmt
      BY DEF NoDmt, Dmt
    <2>2. \A p \in pulls : p.ep \in Nat
      BY SvcTypes
    <2> QED BY <1>2, <2>1, <2>2 DEF Kinds
  <1> HIDE DEF q, L, P
  <1>7. /\ \A m \in lost' : m \in lost \/ (\E i \in DOMAIN q : m = L(i)) \/ (\E p \in pulls : m = P(p))
        /\ lost \subseteq lost'
        /\ \A i \in DOMAIN q : L(i) \in lost'
    BY <1>1
  <1>8. \A m : m.svc # d => (m \in lost' <=> m \in lost)
    BY <1>5, <1>6, <1>7
  <1>9. /\ req' \in [Svc -> Seq(Msg)] /\ req'[d] = <<>>
        /\ svc' \in [Svc -> [known : SUBSET Dmt, cur : Dmt]]
        /\ svc'[d].known = {om.committed} /\ svc'[d].cur = om.committed
        /\ \A x \in Svc \ {d} : svc'[x] = svc[x] /\ req'[x] = req[x] /\ ans'[x] = ans[x]
    BY <1>1, <1>2, <1>3, SvcTypes
  <1>10. Types'
    <2>1. /\ Shape(om)' /\ om'.out = NoOut /\ ans' \in [Svc -> Seq(Ack)]
      BY DEF IInv, Types, Shape
    <2>2. lost \subseteq T
      BY SvcTypes
    <2>3. lost' \subseteq T
      BY <1>5, <1>6, <1>7, <2>2
    <2>4. /\ reg' \subseteq DM /\ pulls' \subseteq [dm : DM, ep : Nat, aborted : BOOLEAN]
      BY <1>1, SvcTypes
    <2> QED BY <1>9, <2>1, <2>3, <2>4 DEF Types
  <1>11. ASSUME ~om.undone
         PROVE  /\ Follows(d)'
                /\ svc'[d].cur.ver >= svc[d].cur.ver
                /\ Broad(om) =>
                      /\ Once(req', ans', lost', d, v)
                      /\ d \in Asked(req', ans', lost', v) <=> d \in Asked(req, ans, lost, v)
    <2>1. Follows(d)
      BY <1>11 DEF IInv, Safe
    <2>2. svc'[d].cur.ver >= svc[d].cur.ver
      BY <1>2, <1>9, <2>1, SvcTypes DEF Follows
    <2>3. DOMAIN req'[d] = {}
      BY <1>9
    <2>4. \A i \in DOMAIN q : q[i].kind = "dmt" => q[i].dmt.ver <= v
      BY <2>1 DEF Follows, Between, Tabled, q
    <2>5. \A m \in lost' : m.svc = d /\ m.kind = "dmt" => m.dmt.ver <= v
      BY <1>5, <1>6, <1>7, <2>1, <2>4 DEF Follows
    <2>6. \A i \in DOMAIN ans[d] : ans[d][i].kind = "dmt" => ans[d][i].dmt.ver <= v
      <3> SUFFICES ASSUME NEW i \in DOMAIN ans[d], ans[d][i].kind = "dmt"
                   PROVE  ans[d][i].dmt.ver <= v
        OBVIOUS
      <3>1. ans[d][i].dmt.ver <= svc[d].cur.ver /\ svc[d].cur.ver <= v
        BY <2>1 DEF Follows
      <3>2. ans[d] \in Seq(Ack)
        BY <1>2 DEF IInv, Types
      <3>3. ans[d][i] \in Ack
        BY <3>2
      <3>4. ans[d][i].dmt.ver \in Nat
        BY <3>3 DEF Ack, Dmt
      <3>5. svc[d].cur.ver \in Nat
        BY <1>2, SvcTypes
      <3> QED BY <1>2, <3>1, <3>4, <3>5
    <2>7. Sorted(req'[d]) /\ Between(req'[d], v, v)
      BY <2>3 DEF Sorted, Between
    <2>8. v <= v
      BY <1>2
    <2>9. Follows(d)'
      BY <1>9, <2>5, <2>6, <2>7, <2>8 DEF Follows
    <2>10. ASSUME Broad(om)
           PROVE  /\ Once(req', ans', lost', d, v)
                  /\ d \in Asked(req', ans', lost', v) <=> d \in Asked(req, ans, lost, v)
      <3>1. Once(req, ans, lost, d, v)
        BY <1>11, <2>10 DEF IInv, Safe, Gathering
      <3>2. ~HasV(req'[d], v) /\ OnceV(req'[d], v)
        BY <2>3 DEF HasV, OnceV
      <3>3. LostV(lost', d, v) => LostV(lost, d, v) \/ HasV(q, v)
        BY <1>5, <1>6, <1>7 DEF LostV, HasV, IsV
      <3>4. HasV(q, v) => LostV(lost', d, v)
        <4> SUFFICES ASSUME NEW i \in DOMAIN q, IsV(q[i], v)
                     PROVE  LostV(lost', d, v)
          BY DEF HasV
        <4>1. L(i) \in lost' /\ L(i).svc = d /\ IsV(L(i), v)
          BY <1>5, <1>7 DEF IsV
        <4> QED BY <4>1 DEF LostV
      <3>5. LostV(lost, d, v) => LostV(lost', d, v)
        BY <1>7 DEF LostV
      <3>6. q = req[d]
        BY DEF q
      <3>7. Once(req', ans', lost', d, v)
        BY <3>1, <3>2, <3>3, <3>6 DEF Once
      <3>8. d \in Asked(req', ans', lost', v) <=> d \in Asked(req, ans, lost, v)
        BY <3>2, <3>3, <3>4, <3>5, <3>6 DEF Asked
      <3> QED BY <3>7, <3>8
    <2> QED BY <2>2, <2>9, <2>10
  <1> QED BY <1>2, <1>8, <1>9, <1>10, <1>11, ServiceStep

(* NotifyDMAbortMigration *)
LEMMA AbortMigrationStep ==
    ASSUME IInv, NEW d \in DM, AbortMigration(d)
    PROVE  IInv'
  <1> DEFINE m == Head(req[d])
             new == IF Knows(d, m.dmt.ver) THEN CHOOSE t \in svc[d].known : t.ver = m.dmt.ver ELSE NoDmt
  <1>1. req[d] # <<>> /\ m.kind = "abort" /\ om' = om /\ d \in Svc
    BY DEF AbortMigration, Arrived, Svc
  <1>2. m.dmt.ver \in Nat
    BY <1>1, HeadMsg
  <1>3. CASE ~Knows(d, m.dmt.ver) /\ svc[d].known # {}
    BY <1>1, <1>3, BootStep DEF AbortMigration
  <1>4. CASE Knows(d, m.dmt.ver) \/ svc[d].known = {}
    <2>1. /\ svc' = [svc EXCEPT ![d].cur = new]
          /\ pulls' = {IF p.dm = d THEN [p EXCEPT !.aborted = TRUE] ELSE p : p \in pulls}
          /\ Taken(d) /\ Answer(d, m, "ok") /\ UNCHANGED <<lost, reg>>
      BY <1>4 DEF AbortMigration
    <2>2. /\ Knows(d, m.dmt.ver) => new \in svc[d].known /\ new.ver = m.dmt.ver
          /\ ~Knows(d, m.dmt.ver) => new = NoDmt
      BY DEF Knows
    <2>3. m = Head(req[d]) /\ NoDmt \in Dmt
      BY DEF NoDmt, Dmt
    <2> HIDE DEF m, new
    <2>4. new \in Dmt
      BY <1>1, <2>2, <2>3, SvcTypes
    <2>5. /\ svc' \in [Svc -> [known : SUBSET Dmt, cur : Dmt]]
          /\ svc'[d].known = svc[d].known /\ svc'[d].cur = new
          /\ \A x \in Svc \ {d} : svc'[x] = svc[x]
      BY <1>1, <2>1, <2>4, SvcTypes
    <2>6. pulls' \subseteq [dm : DM, ep : Nat, aborted : BOOLEAN] /\ reg' \subseteq DM
      <3>1. \A p \in pulls : [p EXCEPT !.aborted = TRUE] \in [dm : DM, ep : Nat, aborted : BOOLEAN]
        BY SvcTypes
      <3> QED BY <2>1, <3>1, SvcTypes
    <2>7. svc'[d].known = {} => svc'[d].cur = NoDmt
      BY <2>2, <2>5 DEF Knows
    <2>8. ASSUME ~om.undone PROVE Uses(d, m)
      <3>1. /\ \A t \in svc[d].known : t.ver <= svc[d].cur.ver /\ t.ver \in Nat
            /\ svc[d].cur.ver <= om.committed.ver
            /\ svc[d].cur.ver <= m.dmt.ver /\ m.dmt.ver <= om.committed.ver
        <4>1. Tabled(m)
          BY <1>1 DEF Tabled
        <4>2. /\ \A t \in svc[d].known : t.ver <= svc[d].cur.ver
              /\ svc[d].cur.ver <= om.committed.ver
              /\ svc[d].cur.ver <= m.dmt.ver /\ m.dmt.ver <= om.committed.ver
          BY <1>1, <2>3, <2>8, <4>1, HeadTable
        <4>3. \A t \in svc[d].known : t.ver \in Nat
          BY <1>1, SvcTypes
        <4> QED BY <4>2, <4>3
      <3>2. svc[d].cur.ver \in Nat /\ om.committed.ver \in Nat
        BY <1>1, SvcTypes
      <3>3. CASE Knows(d, m.dmt.ver)
        <4>1. new.ver = m.dmt.ver /\ Tabled(m)
          BY <1>1, <2>2, <3>3 DEF Tabled
        <4>2. \A t \in svc[d].known : t.ver <= m.dmt.ver
          BY <1>2, <3>1, <3>2
        <4> QED BY <1>1, <1>2, <2>5, <3>1, <3>2, <4>1, <4>2 DEF Uses
      <3>4. CASE ~Knows(d, m.dmt.ver)
        <4>1. svc[d].known = {} /\ new = NoDmt
          BY <1>4, <2>2, <3>4
        <4>2. svc[d].cur = NoDmt
          BY <4>1 DEF IInv, Blank
        <4> QED BY <1>1, <2>5, <3>1, <3>2, <4>1, <4>2 DEF Uses
      <3> QED BY <3>3, <3>4
    <2>9. d \notin Clients
      BY SvcTypes
    <2> QED BY <1>1, <2>1, <2>3, <2>5, <2>6, <2>7, <2>8, <2>9, AnswerStep
  <1> QED BY <1>3, <1>4

-----------------------------------------------------------------------------
(* The theorems *)

(* The state the OM and the services start in. *)
LEMMA InitIInv ==
    Init => IInv
  <1> SUFFICES ASSUME Init PROVE IInv
    OBVIOUS
  <1>1. om = InitOm /\ reg = {} /\ req = NoOut /\ ans = NoOut /\ pulls = {} /\ lost = {}
    BY DEF Init
  <1>2. FirstDmt \in Dmt /\ NoDmt \in Dmt /\ FirstDmt.ver = 1 /\ NoDmt.ver = 0
    BY DmtDeployAssumption DEF FirstDmt, NoDmt, Dmt
  <1>3. /\ NoOut \in [Svc -> Seq(Msg)] /\ NoOut \in [Svc -> Seq(Ack)] /\ \A s \in Svc : DOMAIN NoOut[s] = {}
    BY DEF NoOut
  <1>4. Shape(om) /\ om.out = NoOut
    BY <1>1, <1>2, <1>3, DmtDeployAssumption DEF Shape, InitOm, Fields, States
  <1>5. /\ om.err = "AllOk" /\ om.st = "Idle" /\ om.target = NoDmt /\ om.committed = FirstDmt
        /\ om.deferred = <<>>
    BY <1>1 DEF InitOm
  <1>6. /\ svc \in [Svc -> [known : SUBSET Dmt, cur : Dmt]]
        /\ \A s \in Svc : \/ svc[s].known = {} /\ svc[s].cur = NoDmt
                          \/ svc[s].known = {FirstDmt} /\ svc[s].cur = FirstDmt
        /\ \A s \in Svc : s \notin DM \ InitDM => svc[s].cur = FirstDmt
    BY <1>2 DEF Init
  <1>7. Types
    BY <1>1, <1>3, <1>4, <1>6 DEF Types
  <1>8. Stage(om)
    BY <1>5 DEF Stage
  <1>9. DM \subseteq Svc /\ Clients \subseteq Svc /\ InitDM \subseteq DM /\ \A d \in DM : d \notin Clients
    BY DmtDeployAssumption DEF Svc, Clients
  <1>10. Blank
    BY <1>6, <1>9 DEF Blank
  <1>11. \A d \in DM : DOMAIN req[d] = {} /\ DOMAIN ans[d] = {}
    BY <1>1, <1>3, <1>9
  <1>12. \A d \in DM : Sorted(req[d]) /\ \A lo, hi : Between(req[d], lo, hi)
    BY <1>11 DEF Sorted, Between
  <1>13. \A d \in DM : /\ svc[d].cur.ver <= om.committed.ver
                       /\ \A t \in svc[d].known : t.ver <= svc[d].cur.ver
    BY <1>2, <1>5, <1>6, <1>9
  <1>14. \A d \in DM : Follows(d)
    BY <1>1, <1>11, <1>12, <1>13 DEF Follows
  <1>15. \A s \in Clients : AllHave(svc[s].cur)
    <2>1. \A s \in Clients : svc[s].cur = FirstDmt
      BY <1>6, <1>9
    <2>2. \A d \in FirstDmt.nodes : svc[d].cur = FirstDmt
      BY <1>6, <1>9 DEF FirstDmt
    <2> QED BY <1>2, <2>1, <2>2 DEF AllHave
  <1>16. \A s \in Clients : DOMAIN req[s] = {}
    BY <1>1, <1>3, <1>9
  <1>17. Safe
    BY <1>2, <1>5, <1>14, <1>15, <1>16 DEF Safe, Broad, DeferredOld
  <1> QED BY <1>7, <1>8, <1>10, <1>17 DEF IInv

(* Every step keeps the invariant. *)
LEMMA NextIInv ==
    IInv /\ [Next]_vars => IInv'
  <1> SUFFICES ASSUME IInv, [Next]_vars PROVE IInv'
    OBVIOUS
  <1>1. ASSUME NEW s \in Svc, UpdateDmt(s) PROVE IInv'
    BY <1>1, UpdateDmtStep
  <1>2. ASSUME NEW s \in Svc, Fail(s) PROVE IInv'
    BY <1>2, FailStep
  <1>3. ASSUME NEW s \in Svc, HandleAnswer(s) PROVE IInv'
    BY <1>3, HandleAnswerStep
  <1>4. ASSUME NEW d \in DM, Acknowledge(d) PROVE IInv'
    BY <1>4, AcknowledgeStep
  <1>5. ASSUME NEW d \in DM, StartPull(d) PROVE IInv'
    BY <1>5, StartPullStep
  <1>6. ASSUME NEW d \in DM, AbortMigration(d) PROVE IInv'
    BY <1>6, AbortMigrationStep
  <1>7. ASSUME NEW d \in DM, DmStarts(d) PROVE IInv'
    <2>1. Boot(d, req[d]) /\ UNCHANGED <<om, ans>>
      BY <1>7 DEF DmStarts
    <2> QED BY <2>1, BootStep
  <1>8. ASSUME NEW d \in DM, Register(d) PROVE IInv'
    BY <1>8, RegisterStep
  <1>9. ASSUME NEW p \in pulls, EndPull(p) PROVE IInv'
    BY <1>9, EndPullStep
  <1>10. ASSUME NEW m \in lost, RequestTimeout(m) PROVE IInv'
    BY <1>10, RequestTimeoutStep
  <1>11. ASSUME RetryTimer PROVE IInv'
    BY <1>11, RetryTimerStep
  <1>12. ASSUME WaitingTimer PROVE IInv'
    BY <1>12, WaitingTimerStep
  <1>13. ASSUME UNCHANGED vars PROVE IInv'
    <2>1. om' = om /\ svc' = svc /\ reg' = reg /\ req' = req /\ ans' = ans /\ pulls' = pulls /\ lost' = lost
      BY <1>13 DEF vars
    <2>2. Types' /\ Stage(om)' /\ Blank'
      BY <2>1 DEF IInv, Types, Shape, Stage, Blank
    <2>3. \A d \in DM : Follows(d) => Follows(d)'
      BY <2>1 DEF Follows
    <2>4. \A s \in Clients : AllHave(svc[s].cur) => AllHave(svc[s].cur)'
      BY <2>1 DEF AllHave
    <2>5. \A s \in Clients : \A i \in DOMAIN req[s] : AllHave(req[s][i].dmt) => AllHave(req[s][i].dmt)'
      BY <2>1 DEF AllHave
    <2>6. (Broad(om)' <=> Broad(om)) /\ (Gathering => Gathering') /\ (DeferredOld => DeferredOld')
      BY <2>1 DEF Broad, Gathering, DeferredOld
    <2>7. Safe'
      BY <2>1, <2>3, <2>4, <2>5, <2>6 DEF IInv, Safe
    <2> QED BY <2>2, <2>7 DEF IInv
  <1>14. Next \/ UNCHANGED vars
    OBVIOUS
  <1> QED BY <1>1, <1>2, <1>3, <1>4, <1>5, <1>6, <1>7, <1>8, <1>9, <1>10, <1>11, <1>12, <1>13, <1>14
          DEF Next

(* The invariant holds in every reachable state. *)
THEOREM Invariance == Spec => []IInv
  BY InitIInv, NextIInv, PTL DEF Spec

(* Whatever services restart, fail, answer late or not at all, the tables,   *)
(* the sets of the cluster map and the queues keep their types: the DMs that *)
(* resync are in the map, and those in the map are known to the OM.          *)
THEOREM TypeCorrect == Spec => []TypeOK
  <1>1. IInv => TypeOK
    <2> SUFFICES ASSUME IInv PROVE TypeOK
      OBVIOUS
    <2>1. Shape(om) /\ om.out = NoOut
      BY DEF IInv, Types
    <2>2. \A p \in pulls : p.dm \in DM
      BY SvcTypes
    <2>3. \A m \in lost : m.svc \in Svc
      BY SvcTypes
    <2> QED BY <2>1, <2>2, <2>3, SvcTypes DEF TypeOK, Shape, States
  <1> QED BY <1>1, Invariance, PTL

(* As long as no committed table was undone, an AM or SM never uses a table  *)
(* newer than the one used by a DM it sends the DM to: DST_BcastAM waits for *)
(* all DMs before DST_Close sends the table to clients, and no late, lost or *)
(* deferred ack, restart or error makes it count one too many.               *)
THEOREM ClientsFollow == Spec => []ClientsNeverAhead
  <1>1. IInv => ClientsNeverAhead
    BY DEF IInv, Safe, AllHave, ClientsNeverAhead
  <1> QED BY <1>1, Invariance, PTL

-----------------------------------------------------------------------------
(* The machine is never stuck.  The invariant is Live(om, Awaited): each     *)
(* state waits for acks, and for at most as many as will come.               *)

(* What is still to be answered, among requests r, answers a, lost requests  *)
(* l and running pulls u.  A volume notification that times out is counted   *)
(* by the machine like one that went well, but one refused by the DM is not: *)
(* such an answer is none that anybody may wait for.                         *)
HasKind(q, k) == \E i \in DOMAIN q : q[i].kind = k
Open(r, a, l, k) == {s \in Svc : HasKind(r[s], k) \/ HasKind(a[s], k) \/ \E m \in l : m.svc = s /\ m.kind = k}
Versions(r, a, l, s) ==
    {r[s][i].dmt.ver : i \in {i \in DOMAIN r[s] : r[s][i].kind = "dmt"}}
       \cup {a[s][i].dmt.ver : i \in {i \in DOMAIN a[s] : a[s][i].kind = "dmt"}}
       \cup {m.dmt.ver : m \in {m \in l : m.svc = s /\ m.kind = "dmt"}}
HasVol(q) == \E i \in DOMAIN q : q[i].kind = "vol" /\ q[i].res # "err"
Pending(r, a, l, u) ==
    [vol |-> {s \in Svc : HasKind(r[s], "vol") \/ HasVol(a[s]) \/ \E m \in l : m.svc = s /\ m.kind = "vol"},
     pull |-> {p.dm : p \in u} \cup Open(r, a, l, "pull"),
     close |-> Open(r, a, l, "close"), abort |-> Open(r, a, l, "abort"),
     dmt |-> [s \in Svc |-> Versions(r, a, l, s)]]

(* The services that owe the OM an answer, of those pending when the step    *)
(* began (g) or just asked                                                   *)
Due(o, g, k) == {s \in Svc : s \in g[k] \/ HasKind(o.out[s], k)}
DueV(o, g, v) == {s \in Svc : v \in g.dmt[s] \/ HasV(o.out[s], v)}
DueAny(o, g) == {s \in Clients : g.dmt[s] # {} \/ HasKind(o.out[s], "dmt")}

(* The types of the fields that Shape leaves out *)
Fit(o) ==
    /\ Shape(o) /\ InitDM \subseteq o.agents
    /\ o.closeAcks \in Nat /\ o.abortAcks \in Nat /\ o.rollbackAcks \in Nat
    /\ \A i \in DOMAIN o.deferred : o.deferred[i].k # "timeout"

(* The event e counts as the ack *)
AckV(e, S, v) == IF e.k = "commitAck" /\ e.svc \in S /\ e.ver = v THEN 1 ELSE 0
AckClose(e) == IF e.k = "closeOk" THEN 1 ELSE 0

(* Every state but DST_Idle waits for somebody that will make it go on; e is *)
(* the event that this step raises next, z allows an empty set of volume acks *)
Forward(o, g, e, z) ==
    o.err = "AllOk" =>
       /\ o.rollbackAcks = 0
       /\ o.st = "Waiting" => o.wait = TRUE
       /\ o.st = "Rebalance" =>
            /\ z \/ o.volAcks # {}
            /\ \A d \in o.volAcks : d \in o.agents /\ (d \in Due(o, g, "vol") \/ (e.k = "volAck" /\ d = e.svc))
       /\ o.st = "Commit" =>
            /\ o.pullAcks # {}
            /\ \A d \in o.pullAcks : d \in Due(o, g, "pull") \/ (e.k = "pushMeta" /\ d = e.svc)
       /\ o.st = "BcastAM" =>
            0 < o.commitAcks /\ o.commitAcks <= Cardinality(DueV(o, g, o.committed.ver) \cap DM) + AckV(e, DM, o.committed.ver)
       /\ o.st = "Close" =>
            0 < o.commitAcks /\ o.commitAcks <= Cardinality(DueV(o, g, o.committed.ver) \cap Clients) + AckV(e, Clients, o.committed.ver)
       /\ o.st = "Done" =>
            0 < o.closeAcks /\ o.closeAcks <= Cardinality(Due(o, g, "close")) + AckClose(e)

(* DST_Error waits for aborts or for the clients that go back; a and b are   *)
(* the acks that this step counts next                                       *)
Recovers(o, g, a, b) ==
    o.err = "Error" =>
       /\ 0 < o.abortAcks + o.rollbackAcks
       /\ o.abortAcks <= Cardinality(Due(o, g, "abort")) + a
       /\ o.rollbackAcks <= Cardinality(DueAny(o, g)) + b

(* No event, or one that no state counts *)
None == [k |-> "none", svc |-> 0]
Live(o, g) == Fit(o) /\ Forward(o, g, None, FALSE) /\ Recovers(o, g, 0, 0)

(* The forward region is at work *)
Calm(o) == Fit(o) /\ o.err = "AllOk" /\ o.rollbackAcks = 0

-----------------------------------------------------------------------------
(* Counting those who owe an answer *)

(* Sets of services are finite, and a part of one has no more members. *)
LEMMA CountSvc ==
    ASSUME NEW T, T \subseteq Svc, NEW S, S \subseteq T
    PROVE  /\ Cardinality(S) \in Nat /\ Cardinality(T) \in Nat
           /\ Cardinality(S) <= Cardinality(T)
           /\ S # {} => 0 < Cardinality(S)
  <1>1. IsFiniteSet(Svc)
    BY DmtDeployAssumption, FS_Union DEF Svc
  <1>2. IsFiniteSet(T) /\ IsFiniteSet(S)
    BY <1>1, FS_Subset
  <1>3. Cardinality(S) \in Nat /\ Cardinality(T) \in Nat /\ Cardinality(S) <= Cardinality(T)
    BY <1>2, FS_CardinalityType, FS_Subset
  <1>4. S # {} => Cardinality(S) # 0
    BY <1>2, FS_EmptySet
  <1> QED BY <1>3, <1>4

(* A set without one of its members has one member less. *)
LEMMA CountBut ==
    ASSUME NEW T, T \subseteq Svc, NEW S, NEW x, T \subseteq S \cup {x}, S \subseteq Svc
    PROVE  Cardinality(T) <= Cardinality(S) + 1
  <1>1. Cardinality(S) \in Nat /\ Cardinality(T) \in Nat /\ IsFiniteSet(T)
    BY CountSvc, DmtDeployAssumption, FS_Union, FS_Subset DEF Svc
  <1>2. T \ {x} \subseteq S /\ Cardinality(T \ {x}) \in Nat /\ Cardinality(T \ {x}) <= Cardinality(S)
    BY CountSvc
  <1>3. CASE x \in T
    <2>1. Cardinality(T \ {x}) = Cardinality(T) - 1
      BY <1>1, <1>3, FS_RemoveElement
    <2> QED BY <1>1, <1>2, <2>1
  <1>4. CASE x \notin T
    <2>1. T \ {x} = T
      BY <1>4
    <2> QED BY <1>1, <1>2, <2>1
  <1> QED BY <1>3, <1>4

(* What is due stays due when requests are added. *)
More(o, p, g) ==
    /\ \A k \in Kinds : Due(o, g, k) \subseteq Due(p, g, k)
    /\ \A v : DueV(o, g, v) \subseteq DueV(p, g, v)
    /\ DueAny(o, g) \subseteq DueAny(p, g)

(* A record with the same requests has the same answers due. *)
LEMMA SameDue ==
    ASSUME NEW o, NEW p, p.out = o.out, NEW g
    PROVE  /\ \A k : Due(p, g, k) = Due(o, g, k)
           /\ \A v : DueV(p, g, v) = DueV(o, g, v)
           /\ DueAny(p, g) = DueAny(o, g)
  BY DEF Due, DueV, DueAny

(* p has asked the services in S for an answer to a request of kind k with t *)
Asks(o, p, S, k, t, g) ==
    /\ More(o, p, g) /\ S \subseteq Due(p, g, k)
    /\ k = "dmt" => S \subseteq DueV(p, g, t.ver) /\ S \cap Clients \subseteq DueAny(p, g)

(* The addressees of a request owe an answer to it. *)
LEMMA SendDue ==
    ASSUME NEW o, Shape(o), NEW S, S \subseteq Svc, NEW k \in Kinds, NEW t \in Dmt, NEW g,
           NEW p, p = Send(o, S, k, t)
    PROVE  Asks(o, p, S, k, t, g)
  <1> DEFINE m == Request(k, t, o.epoch)
  <1>1. Appended(o, p, S, m)
    BY SendOut
  <1>2. m.kind = k /\ m.dmt = t
    BY DEF Request
  <1> HIDE DEF m
  <1>3. \A s \in Svc : \A j : HasKind(o.out[s], j) => HasKind(p.out[s], j)
    BY <1>1 DEF Appended, HasKind
  <1>4. \A s \in Svc : \A v : HasV(o.out[s], v) => HasV(p.out[s], v)
    BY <1>1 DEF Appended, HasV
  <1>5. \A s \in S : HasKind(p.out[s], k)
    BY <1>1, <1>2 DEF Appended, HasKind
  <1>6. k = "dmt" => \A s \in S : HasV(p.out[s], t.ver)
    BY <1>1, <1>2 DEF Appended, HasV, IsV
  <1>7. Clients \subseteq Svc
    BY DEF Clients, Svc
  <1>8. More(o, p, g)
    BY <1>3, <1>4, <1>7 DEF More, Due, DueV, DueAny
  <1> QED BY <1>5, <1>6, <1>8 DEF Asks, Due, DueV, DueAny

(* Send changes nothing but the requests. *)
LEMMA SendFit ==
    ASSUME NEW o, Fit(o), NEW S, NEW k \in Kinds, NEW t \in Dmt, NEW p, p = Send(o, S, k, t)
    PROVE  Fit(p) /\ \A f \in Fields \ {"out"} : p[f] = o[f]
  <1>1. Shape(p) /\ \A f \in Fields \ {"out"} : p[f] = o[f]
    BY SendShape DEF Fit
  <1>2. /\ p.agents = o.agents /\ p.closeAcks = o.closeAcks /\ p.abortAcks = o.abortAcks
        /\ p.rollbackAcks = o.rollbackAcks /\ p.deferred = o.deferred
    BY <1>1 DEF Fields
  <1> QED BY <1>1, <1>2 DEF Fit

(* An fds_verify changes the flag only. *)
LEMMA VerifyFit ==
    ASSUME NEW o, Fit(o), NEW b
    PROVE  Fit(Verify(o, b)) /\ \A f \in Fields \ {"panic"} : Verify(o, b)[f] = o[f]
  <1> DEFINE p == Verify(o, b)
  <1>1. DOMAIN p = Fields /\ \A f \in Fields \ {"panic"} : p[f] = o[f]
    BY DEF Fit, Shape, Fields, Verify
  <1> HIDE DEF p
  <1>2. Shape(p)
    BY <1>1 DEF Fit, Shape, Fields
  <1>3. /\ p.agents = o.agents /\ p.closeAcks = o.closeAcks /\ p.abortAcks = o.abortAcks
        /\ p.rollbackAcks = o.rollbackAcks /\ p.deferred = o.deferred
    BY <1>1 DEF Fields
  <1>4. Fit(p)
    BY <1>2, <1>3 DEF Fit
  <1> QED BY <1>1, <1>4 DEF p

-----------------------------------------------------------------------------
(* The forward path waits for those it asked *)

(* DACT_UpdDone *)
LEMMA UpdDoneLive ==
    ASSUME NEW o, Calm(o), NEW g
    PROVE  Calm(UpdDone(o)) /\ Forward(UpdDone(o), g, None, FALSE)
  <1> DEFINE p == UpdDone(o)
  <1>1. Shape(o)
    BY DEF Calm, Fit
  <1>2. Shape(p)
    BY <1>1 DEF Shape, UpdDone, Fields, States, NoDmt, Dmt
  <1>3. /\ p.st = "Idle" /\ p.err = o.err /\ p.agents = o.agents /\ p.closeAcks = o.closeAcks
        /\ p.abortAcks = o.abortAcks /\ p.rollbackAcks = o.rollbackAcks /\ p.deferred = o.deferred
    BY <1>1 DEF Shape, UpdDone, Fields
  <1> HIDE DEF p
  <1>4. Calm(p)
    BY <1>2, <1>3 DEF Calm, Fit
  <1>5. Forward(p, g, None, FALSE)
    BY <1>3, <1>4 DEF Calm, Forward
  <1> QED BY <1>4, <1>5 DEF p

(* DACT_Close: the DMs of the cluster map owe an answer, if there are any. *)
LEMMA CloseLive ==
    ASSUME NEW o, Calm(o), NEW g
    PROVE  Calm(Close(o)) /\ Forward(Close(o), g, None, FALSE)
  <1> DEFINE s == Send(o, o.cur, "close", o.committed)
             c == [s EXCEPT !.st = "Done", !.rebal = FALSE, !.closeAcks = Cardinality(o.cur)]
  <1>1. Fit(o) /\ Shape(o) /\ o.committed \in Dmt /\ "close" \in Kinds /\ o.cur \subseteq Svc
    BY DEF Calm, Fit, Shape, Kinds, Svc
  <1>2. Fit(s) /\ s.err = o.err /\ s.rollbackAcks = o.rollbackAcks
    BY <1>1, SendFit DEF Fields
  <1>11. Asks(o, s, o.cur, "close", o.committed, g)
    BY <1>1, SendDue
  <1> HIDE DEF s
  <1>3. o.cur \subseteq Due(s, g, "close")
    BY <1>11 DEF Asks
  <1>4. Cardinality(o.cur) \in Nat /\ (o.cur # {} => 0 < Cardinality(o.cur))
    BY <1>1, CountSvc
  <1>5. Shape(s)
    BY <1>2 DEF Fit
  <1>6. Shape(c)
    BY <1>5 DEF Shape, Fields, States
  <1>7. /\ c.st = "Done" /\ c.err = s.err /\ c.agents = s.agents /\ c.closeAcks = Cardinality(o.cur)
        /\ c.abortAcks = s.abortAcks /\ c.rollbackAcks = s.rollbackAcks /\ c.deferred = s.deferred
        /\ c.out = s.out
    BY <1>5 DEF Shape, Fields
  <1> HIDE DEF c
  <1>8. Calm(c)
    BY <1>2, <1>4, <1>6, <1>7 DEF Calm, Fit
  <1>9. Calm(UpdDone(c)) /\ Forward(UpdDone(c), g, None, FALSE)
    BY <1>8, UpdDoneLive
  <1>10. ASSUME o.cur # {} PROVE Forward(c, g, None, FALSE)
    <2>1. Due(c, g, "close") = Due(s, g, "close") /\ Due(s, g, "close") \subseteq Svc
      BY <1>7, SameDue DEF Due
    <2>2. Cardinality(o.cur) <= Cardinality(Due(c, g, "close")) /\ Cardinality(Due(c, g, "close")) \in Nat
      BY <1>3, <2>1, CountSvc
    <2>3. 0 < c.closeAcks /\ c.closeAcks <= Cardinality(Due(c, g, "close")) + AckClose(None)
      BY <1>4, <1>7, <1>10, <2>2 DEF AckClose, None
    <2> QED BY <1>7, <1>8, <2>3 DEF Calm, Forward
  <1> QED BY <1>8, <1>9, <1>10 DEF Close, c, s

(* DACT_BcastAM: the AMs and SMs owe an answer, if there are any. *)
LEMMA BcastAMLive ==
    ASSUME NEW o, Calm(o), NEW g
    PROVE  Calm(BcastAM(o)) /\ Forward(BcastAM(o), g, None, FALSE)
  <1> DEFINE s == Send(o, Clients, "dmt", o.committed)
             c == [s EXCEPT !.st = "Close", !.commitAcks = Cardinality(Clients)]
  <1>1. Fit(o) /\ Shape(o) /\ o.committed \in Dmt /\ "dmt" \in Kinds /\ Clients \subseteq Svc
    BY DEF Calm, Fit, Shape, Kinds, Svc, Clients
  <1>2. Fit(s) /\ s.err = o.err /\ s.rollbackAcks = o.rollbackAcks /\ s.committed = o.committed
    BY <1>1, SendFit DEF Fields
  <1>11. Asks(o, s, Clients, "dmt", o.committed, g)
    BY <1>1, SendDue
  <1> HIDE DEF s
  <1>3. Clients \subseteq DueV(s, g, o.committed.ver)
    BY <1>11 DEF Asks
  <1>4. Cardinality(Clients) \in Nat /\ (Clients # {} => 0 < Cardinality(Clients))
    BY <1>1, CountSvc
  <1>5. Shape(s)
    BY <1>2 DEF Fit
  <1>6. Shape(c)
    BY <1>4, <1>5 DEF Shape, Fields, States
  <1>7. /\ c.st = "Close" /\ c.err = s.err /\ c.agents = s.agents /\ c.closeAcks = s.closeAcks
        /\ c.abortAcks = s.abortAcks /\ c.rollbackAcks = s.rollbackAcks /\ c.deferred = s.deferred
        /\ c.out = s.out /\ c.committed = s.committed /\ c.commitAcks = Cardinality(Clients)
    BY <1>5 DEF Shape, Fields
  <1> HIDE DEF c
  <1>8. Calm(c)
    BY <1>2, <1>6, <1>7 DEF Calm, Fit
  <1>9. Calm(Close(c)) /\ Forward(Close(c), g, None, FALSE)
    BY <1>8, CloseLive
  <1>10. ASSUME Clients # {} PROVE Forward(c, g, None, FALSE)
    <2> DEFINE D == DueV(c, g, c.committed.ver) \cap Clients
    <2>1. D = Clients
      BY <1>2, <1>3, <1>7, SameDue
    <2>2. 0 < c.commitAcks /\ c.commitAcks <= Cardinality(D) + AckV(None, Clients, c.committed.ver)
      BY <1>4, <1>7, <1>10, <2>1 DEF AckV, None
    <2> QED BY <1>7, <1>8, <2>2 DEF Calm, Forward
  <1> QED BY <1>8, <1>9, <1>10 DEF BcastAM, c, s

(* DACT_Commit: all DMs the OM knows owe an answer, and it knows one. *)
LEMMA CommitLive ==
    ASSUME NEW o, Calm(o), NEW g
    PROVE  Calm(Commit(o)) /\ Forward(Commit(o), g, None, FALSE)
  <1> DEFINE s == Send(o, o.agents, "dmt", o.target)
             c == [s EXCEPT !.st = "BcastAM", !.prev = o.committed, !.committed = o.target,
                            !.commitAcks = Cardinality(o.agents), !.ongoing = {}]
  <1>1. /\ Fit(o) /\ Shape(o) /\ o.committed \in Dmt /\ o.target \in Dmt /\ "dmt" \in Kinds
        /\ o.agents \subseteq DM /\ o.agents \subseteq Svc
    BY DEF Calm, Fit, Shape, Kinds, Svc
  <1>2. Fit(s) /\ s.err = o.err /\ s.rollbackAcks = o.rollbackAcks
    BY <1>1, SendFit DEF Fields
  <1>11. Asks(o, s, o.agents, "dmt", o.target, g)
    BY <1>1, SendDue
  <1> HIDE DEF s
  <1>3. o.agents \subseteq DueV(s, g, o.target.ver)
    BY <1>11 DEF Asks
  <1>4. Cardinality(o.agents) \in Nat /\ 0 < Cardinality(o.agents)
    <2>1. o.agents # {}
      BY <1>1, DmtDeployAssumption DEF Fit
    <2> QED BY <1>1, <2>1, CountSvc
  <1>5. Shape(s)
    BY <1>2 DEF Fit
  <1>6. Shape(c)
    BY <1>1, <1>4, <1>5 DEF Shape, Fields, States
  <1>7. /\ c.st = "BcastAM" /\ c.err = s.err /\ c.agents = s.agents /\ c.closeAcks = s.closeAcks
        /\ c.abortAcks = s.abortAcks /\ c.rollbackAcks = s.rollbackAcks /\ c.deferred = s.deferred
        /\ c.out = s.out /\ c.committed = o.target /\ c.commitAcks = Cardinality(o.agents)
    BY <1>5 DEF Shape, Fields
  <1> HIDE DEF c
  <1>8. Calm(c)
    BY <1>2, <1>6, <1>7 DEF Calm, Fit
  <1>9. Forward(c, g, None, FALSE)
    <2> DEFINE D == DueV(c, g, c.committed.ver) \cap DM
    <2>1. D \subseteq Svc /\ o.agents \subseteq D
      BY <1>1, <1>3, <1>7, SameDue DEF Svc
    <2> HIDE DEF D
    <2>2. Cardinality(o.agents) <= Cardinality(D) /\ Cardinality(D) \in Nat
      BY <2>1, CountSvc
    <2>3. 0 < c.commitAcks /\ c.commitAcks <= Cardinality(D) + AckV(None, DM, c.committed.ver)
      BY <1>4, <1>7, <2>2 DEF AckV, None
    <2> QED BY <1>7, <1>8, <2>3 DEF Calm, Forward, D
  <1> QED BY <1>8, <1>9 DEF Commit, c, s

(* DACT_Rebalance: those that pull metadata owe an answer; when there are    *)
(* none the table is committed at once.                                      *)
LEMMA RebalanceLive ==
    ASSUME NEW o, Calm(o), NEW g
    PROVE  Calm(Rebalance(o)) /\ Forward(Rebalance(o), g, None, FALSE)
  <1> DEFINE ps == PullSet(o)
             s == Send(o, ps, "pull", o.target)
             v == Verify(s, ~o.rebal)
             r == [v EXCEPT !.st = "Commit", !.rebal = TRUE,
                            !.pullAcks = ps, !.ongoing = ps, !.need = ps]
  <1>1. Fit(o) /\ Shape(o) /\ o.target \in Dmt /\ "pull" \in Kinds
    BY DEF Calm, Fit, Shape, Kinds
  <1>2. ps \subseteq Svc
    BY <1>1 DEF PullSet, Shape, Dmt, Svc
  <1> HIDE DEF ps
  <1>3. Fit(s) /\ s.err = o.err /\ s.rollbackAcks = o.rollbackAcks
    BY <1>1, SendFit DEF Fields
  <1>4. Asks(o, s, ps, "pull", o.target, g)
    BY <1>1, <1>2, SendDue
  <1> HIDE DEF s
  <1>5. Fit(v) /\ v.err = s.err /\ v.rollbackAcks = s.rollbackAcks /\ v.out = s.out
    BY <1>3, VerifyFit DEF Fields
  <1> HIDE DEF v
  <1>6. Shape(v)
    BY <1>5 DEF Fit
  <1>7. Shape(r)
    BY <1>6 DEF Shape, Fields, States
  <1>8. /\ r.st = "Commit" /\ r.err = v.err /\ r.agents = v.agents /\ r.closeAcks = v.closeAcks
        /\ r.abortAcks = v.abortAcks /\ r.rollbackAcks = v.rollbackAcks /\ r.deferred = v.deferred
        /\ r.out = v.out /\ r.pullAcks = ps
    BY <1>6 DEF Shape, Fields
  <1> HIDE DEF r
  <1>9. Calm(r)
    BY <1>3, <1>5, <1>7, <1>8 DEF Calm, Fit
  <1>10. Calm(Commit(r)) /\ Forward(Commit(r), g, None, FALSE)
    BY <1>9, CommitLive
  <1>11. ASSUME ps # {} PROVE Forward(r, g, None, FALSE)
    <2>1. ps \subseteq Due(r, g, "pull")
      BY <1>4, <1>5, <1>8, SameDue DEF Asks
    <2> QED BY <1>8, <1>9, <1>11, <2>1 DEF Calm, Forward
  <1> QED BY <1>9, <1>10, <1>11 DEF Rebalance, r, v, s, ps

(* DACT_Start: the DMs just added owe an ack of the volumes.  There may be    *)
(* none: the event that follows takes the machine on.                         *)
LEMMA StartLive ==
    ASSUME NEW o, Calm(o), NEW g
    PROVE  Calm(Start(o)) /\ Forward(Start(o), g, None, TRUE)
  <1> DEFINE S == IF o.resync = {} THEN o.added ELSE {}
             s == Send(o, S, "vol", o.target)
             r == [s EXCEPT !.st = "Rebalance", !.volAcks = S]
  <1>1. Fit(o) /\ Shape(o) /\ o.target \in Dmt /\ "vol" \in Kinds
    BY DEF Calm, Fit, Shape, Kinds
  <1>2. S \subseteq o.agents /\ S \subseteq Svc
    BY <1>1 DEF Shape, Svc
  <1> HIDE DEF S
  <1>3. Fit(s) /\ s.err = o.err /\ s.rollbackAcks = o.rollbackAcks /\ s.agents = o.agents
    BY <1>1, SendFit DEF Fields
  <1>4. Asks(o, s, S, "vol", o.target, g)
    BY <1>1, <1>2, SendDue
  <1> HIDE DEF s
  <1>5. Shape(s)
    BY <1>3 DEF Fit
  <1>6. Shape(r)
    BY <1>5 DEF Shape, Fields, States
  <1>7. /\ r.st = "Rebalance" /\ r.err = s.err /\ r.agents = s.agents /\ r.closeAcks = s.closeAcks
        /\ r.abortAcks = s.abortAcks /\ r.rollbackAcks = s.rollbackAcks /\ r.deferred = s.deferred
        /\ r.out = s.out /\ r.volAcks = S
    BY <1>5 DEF Shape, Fields
  <1> HIDE DEF r
  <1>8. Calm(r)
    BY <1>3, <1>6, <1>7 DEF Calm, Fit
  <1>9. S \subseteq Due(r, g, "vol")
    BY <1>4, <1>7, SameDue DEF Asks
  <1>10. Forward(r, g, None, TRUE)
    BY <1>2, <1>3, <1>7, <1>8, <1>9 DEF Calm, Forward
  <1> QED BY <1>8, <1>10 DEF Start, r, s, S

(* GRD_DplyStart and DACT_Waiting: the waiting timer is armed. *)
LEMMA DplyStartLive ==
    ASSUME NEW o, Calm(o), o.st = "Idle", NEW g
    PROVE  Calm(DplyStart(o)) /\ Forward(DplyStart(o), g, None, FALSE)
  <1> DEFINE c == [o EXCEPT !.cur = @ \cup o.pendUp \cup o.pendResync, !.added = @ \cup o.pendUp,
                       !.resync = @ \cup o.pendResync, !.pendUp = {}, !.pendResync = {}]
             d == [c EXCEPT !.target = [ver |-> c.committed.ver + 1, nodes |-> c.cur],
                      !.st = "Waiting", !.wait = TRUE, !.epoch = @ + 1]
  <1>1. Shape(o)
    BY DEF Calm, Fit
  <1>2. Shape(c)
    BY <1>1 DEF Shape, Fields
  <1>3. /\ c.st = o.st /\ c.err = o.err /\ c.agents = o.agents /\ c.closeAcks = o.closeAcks
        /\ c.abortAcks = o.abortAcks /\ c.rollbackAcks = o.rollbackAcks /\ c.deferred = o.deferred
    BY <1>1 DEF Shape, Fields
  <1> HIDE DEF c
  <1>4. Calm(c)
    BY <1>2, <1>3 DEF Calm, Fit
  <1>5. Shape(d)
    BY <1>2 DEF Shape, Fields, States, Dmt
  <1>6. /\ d.st = "Waiting" /\ d.wait = TRUE /\ d.err = c.err /\ d.agents = c.agents
        /\ d.closeAcks = c.closeAcks /\ d.abortAcks = c.abortAcks
        /\ d.rollbackAcks = c.rollbackAcks /\ d.deferred = c.deferred
    BY <1>2 DEF Shape, Fields
  <1> HIDE DEF d
  <1>7. Calm(d)
    BY <1>4, <1>5, <1>6 DEF Calm, Fit
  <1>8. Forward(c, g, None, FALSE)
    BY <1>3, <1>4 DEF Calm, Forward
  <1>9. Forward(d, g, None, FALSE)
    BY <1>6, <1>7 DEF Calm, Forward
  <1> QED BY <1>4, <1>7, <1>8, <1>9 DEF DplyStart, c, d

-----------------------------------------------------------------------------
(* The error region waits for those it asked *)

(* DACT_EndError: the machine is idle. *)
LEMMA EndErrorLive ==
    ASSUME NEW o, Fit(o), o.rollbackAcks = 0, NEW g
    PROVE  Live(EndError(o), g)
  <1> DEFINE p == EndError(o)
  <1>1. Shape(o)
    BY DEF Fit
  <1>2. Shape(p)
    BY <1>1 DEF Shape, EndError, Fields, States
  <1>3. /\ p.st = "Idle" /\ p.err = "AllOk" /\ p.agents = o.agents /\ p.closeAcks = o.closeAcks
        /\ p.abortAcks = o.abortAcks /\ p.rollbackAcks = o.rollbackAcks /\ p.deferred = <<>>
    BY <1>1 DEF Shape, EndError, Fields
  <1> HIDE DEF p
  <1>4. Fit(p)
    BY <1>2, <1>3 DEF Fit
  <1>5. Forward(p, g, None, FALSE) /\ Recovers(p, g, 0, 0)
    BY <1>3 DEF Forward, Recovers
  <1> QED BY <1>4, <1>5 DEF p, Live

(* DACT_Error: all DMs owe an answer to the abort, and the clients, if they   *)
(* must go back, to the previous table.                                       *)
LEMMA ErrorFoundLive ==
    ASSUME NEW o, Calm(o), NEW g
    PROVE  Live(ErrorFound(o), g)
  <1> DEFINE u == UndoTarget(o)
             s == Send(u, u.agents, "abort", u.committed)
             a == [s EXCEPT !.err = "Error", !.abortAcks = Cardinality(u.agents)]
             r == Send(a, Clients, "dmt", u.committed)
             b == [r EXCEPT !.rollbackAcks = Cardinality(Clients)]
  <1>1. Fit(o) /\ Shape(o) /\ "abort" \in Kinds /\ "dmt" \in Kinds
    BY DEF Calm, Fit, Kinds
  <1>2. Shape(u)
    BY <1>1 DEF Shape, UndoTarget, Fields, NoDmt, Dmt
  <1>3. /\ u.agents = o.agents /\ u.closeAcks = o.closeAcks /\ u.abortAcks = o.abortAcks
        /\ u.rollbackAcks = o.rollbackAcks /\ u.deferred = o.deferred
    BY <1>1 DEF Shape, UndoTarget, Fields
  <1> HIDE DEF u
  <1>4. Fit(u) /\ u.committed \in Dmt /\ u.agents \subseteq Svc
    BY <1>1, <1>2, <1>3 DEF Fit, Shape, Svc
  <1>5. Fit(s) /\ s.rollbackAcks = u.rollbackAcks
    BY <1>1, <1>4, SendFit DEF Fields
  <1>6. Asks(u, s, u.agents, "abort", u.committed, g)
    BY <1>1, <1>2, <1>4, SendDue
  <1> HIDE DEF s
  <1>7. Cardinality(u.agents) \in Nat /\ 0 < Cardinality(u.agents)
    <2>1. u.agents # {}
      BY <1>4, DmtDeployAssumption DEF Fit
    <2> QED BY <1>4, <2>1, CountSvc
  <1>8. Shape(s)
    BY <1>5 DEF Fit
  <1>9. Shape(a)
    BY <1>8 DEF Shape, Fields
  <1>10. /\ a.err = "Error" /\ a.agents = s.agents /\ a.closeAcks = s.closeAcks
         /\ a.abortAcks = Cardinality(u.agents) /\ a.rollbackAcks = s.rollbackAcks
         /\ a.deferred = s.deferred /\ a.out = s.out
    BY <1>8 DEF Shape, Fields
  <1> HIDE DEF a
  <1>11. Fit(a) /\ a.rollbackAcks = 0
    BY <1>3, <1>5, <1>7, <1>9, <1>10 DEF Fit, Calm
  <1>12. Cardinality(u.agents) <= Cardinality(Due(a, g, "abort")) /\ Cardinality(Due(a, g, "abort")) \in Nat
    <2>1. u.agents \subseteq Due(a, g, "abort") /\ Due(a, g, "abort") \subseteq Svc
      BY <1>6, <1>10, SameDue DEF Asks, Due
    <2> QED BY <2>1, CountSvc
  <1>13. Cardinality(DueAny(a, g)) \in Nat /\ Clients \subseteq Svc
    <2>1. DueAny(a, g) \subseteq Svc /\ Clients \subseteq Svc
      BY DEF DueAny, Clients, Svc
    <2> QED BY <2>1, CountSvc
  <1>14. Live(a, g)
    <2>1. 0 < a.abortAcks + a.rollbackAcks
      BY <1>7, <1>10, <1>11
    <2>2. a.abortAcks <= Cardinality(Due(a, g, "abort")) + 0 /\ a.rollbackAcks <= Cardinality(DueAny(a, g)) + 0
      BY <1>10, <1>11, <1>12, <1>13, <1>7
    <2> QED BY <1>10, <1>11, <2>1, <2>2 DEF Live, Forward, Recovers
  <1>15. Fit(r) /\ r.err = a.err /\ r.abortAcks = a.abortAcks
    BY <1>1, <1>4, <1>11, SendFit DEF Fields
  <1>16. Asks(a, r, Clients, "dmt", u.committed, g)
    BY <1>1, <1>4, <1>9, <1>13, SendDue
  <1> HIDE DEF r
  <1>17. Cardinality(Clients) \in Nat
    BY <1>13, CountSvc
  <1>18. Shape(r)
    BY <1>15 DEF Fit
  <1>19. Shape(b)
    BY <1>18 DEF Shape, Fields
  <1>20. /\ b.err = r.err /\ b.agents = r.agents /\ b.closeAcks = r.closeAcks
         /\ b.abortAcks = r.abortAcks /\ b.rollbackAcks = Cardinality(Clients)
         /\ b.deferred = r.deferred /\ b.out = r.out
    BY <1>18 DEF Shape, Fields
  <1> HIDE DEF b
  <1>21. Fit(b)
    BY <1>15, <1>17, <1>19, <1>20 DEF Fit
  <1>22. Live(b, g)
    <2>1. Due(a, g, "abort") \subseteq Due(b, g, "abort") /\ Due(b, g, "abort") \subseteq Svc
      BY <1>1, <1>16, <1>20, SameDue DEF Asks, More, Due
    <2>2. /\ Cardinality(Due(a, g, "abort")) <= Cardinality(Due(b, g, "abort"))
          /\ Cardinality(Due(b, g, "abort")) \in Nat
      BY <2>1, CountSvc
    <2>3. DueAny(b, g) = Clients
      BY <1>16, <1>20, SameDue DEF Asks, DueAny
    <2>4. 0 < b.abortAcks + b.rollbackAcks
      BY <1>7, <1>10, <1>15, <1>17, <1>20
    <2>5. b.abortAcks <= Cardinality(Due(b, g, "abort")) + 0
      BY <1>7, <1>10, <1>12, <1>15, <1>20, <2>2
    <2>6. b.rollbackAcks <= Cardinality(DueAny(b, g)) + 0
      BY <1>17, <1>20, <2>3
    <2> QED BY <1>10, <1>15, <1>20, <1>21, <2>4, <2>5, <2>6 DEF Live, Forward, Recovers
  <1>23. Live(EndError(o), g)
    BY <1>1, EndErrorLive DEF Calm
  <1>24. CASE o.target = NoDmt
    BY <1>23, <1>24 DEF ErrorFound
  <1>25. CASE o.target # NoDmt
    BY <1>14, <1>22, <1>25 DEF ErrorFound, b, r, a, s, u
  <1> QED BY <1>24, <1>25

(* DACT_ChkEndErr: an abort or a client's answer is counted; the one that is *)
(* counted was still due, and when none is left the machine is idle.         *)
LEMMA ChkEndErrLive ==
    ASSUME NEW o, Fit(o), o.err = "Error", NEW e \in Recovery, NEW g,
           Recovers(o, g, IF e.abort THEN 1 ELSE 0, IF e.abort THEN 0 ELSE 1)
    PROVE  Live(ChkEndErr(o, e), g)
  <1> DEFINE m == IF e.svc \in DM /\ e.res = "timeout" THEN RmAddedSvc(o, e.svc) ELSE o
             a == [m EXCEPT !.abortAcks = IF @ > 0 THEN @ - 1 ELSE 0]
             v == Verify(a, m.abortAcks > 0)
             b == [m EXCEPT !.rollbackAcks = IF @ > 0 THEN @ - 1 ELSE 0]
             c == IF e.abort THEN v ELSE b
             A == Cardinality(Due(o, g, "abort"))
             B == Cardinality(DueAny(o, g))
  <1>1. Shape(o)
    BY DEF Fit
  <1>2. Shape(m)
    BY <1>1 DEF RmAddedSvc, Shape, Fields
  <1>3. /\ m.err = o.err /\ m.agents = o.agents /\ m.closeAcks = o.closeAcks
        /\ m.abortAcks = o.abortAcks /\ m.rollbackAcks = o.rollbackAcks
        /\ m.deferred = o.deferred /\ m.out = o.out
    BY <1>1 DEF RmAddedSvc, Shape, Fields
  <1> HIDE DEF m
  <1>4. Shape(a) /\ Shape(b)
    BY <1>2 DEF Shape, Fields
  <1>5. /\ a.err = m.err /\ a.agents = m.agents /\ a.closeAcks = m.closeAcks
        /\ a.abortAcks = (IF m.abortAcks > 0 THEN m.abortAcks - 1 ELSE 0)
        /\ a.rollbackAcks = m.rollbackAcks /\ a.deferred = m.deferred /\ a.out = m.out
    BY <1>2 DEF Shape, Fields
  <1>6. /\ b.err = m.err /\ b.agents = m.agents /\ b.closeAcks = m.closeAcks
        /\ b.abortAcks = m.abortAcks /\ b.deferred = m.deferred /\ b.out = m.out
        /\ b.rollbackAcks = (IF m.rollbackAcks > 0 THEN m.rollbackAcks - 1 ELSE 0)
    BY <1>2 DEF Shape, Fields
  <1> HIDE DEF a, b
  <1>7. o.abortAcks \in Nat /\ o.rollbackAcks \in Nat
    BY DEF Fit
  <1>8. a.abortAcks \in Nat /\ b.rollbackAcks \in Nat
    BY <1>3, <1>5, <1>6, <1>7
  <1>9. Fit(a) /\ Fit(b)
    BY <1>3, <1>4, <1>5, <1>6, <1>8 DEF Fit
  <1>10. /\ Fit(v) /\ v.err = a.err /\ v.abortAcks = a.abortAcks /\ v.rollbackAcks = a.rollbackAcks
         /\ v.out = a.out
    BY <1>9, VerifyFit DEF Fields
  <1> HIDE DEF v
  <1>11. A \in Nat /\ B \in Nat
    <2>1. Due(o, g, "abort") \subseteq Svc /\ DueAny(o, g) \subseteq Svc
      BY DEF Due, DueAny, Clients, Svc
    <2> QED BY <2>1, CountSvc
  <1> HIDE DEF A, B
  <1>12. /\ o.abortAcks <= A + (IF e.abort THEN 1 ELSE 0)
         /\ o.rollbackAcks <= B + (IF e.abort THEN 0 ELSE 1)
    BY DEF Recovers, A, B
  <1>13. e.abort \in BOOLEAN
    BY DEF Recovery
  <1>14. ASSUME e.abort = TRUE PROVE v.abortAcks <= A /\ v.rollbackAcks <= B
    <2>1. o.abortAcks <= A + 1 /\ o.rollbackAcks <= B + 0
      BY <1>12, <1>14
    <2>2. v.abortAcks = (IF o.abortAcks > 0 THEN o.abortAcks - 1 ELSE 0) /\ v.rollbackAcks = o.rollbackAcks
      BY <1>3, <1>5, <1>10
    <2> QED BY <1>7, <1>11, <2>1, <2>2
  <1>15. ASSUME e.abort = FALSE PROVE b.abortAcks <= A /\ b.rollbackAcks <= B
    <2>1. o.abortAcks <= A + 0 /\ o.rollbackAcks <= B + 1
      BY <1>12, <1>15
    <2>2. b.rollbackAcks = (IF o.rollbackAcks > 0 THEN o.rollbackAcks - 1 ELSE 0) /\ b.abortAcks = o.abortAcks
      BY <1>3, <1>6
    <2> QED BY <1>7, <1>11, <2>1, <2>2
  <1>16. Fit(c) /\ c.err = "Error" /\ c.out = o.out /\ c.abortAcks <= A /\ c.rollbackAcks <= B
    <2>1. CASE e.abort = TRUE
      <3>1. c = v
        BY <2>1
      <3> QED BY <1>3, <1>5, <1>10, <1>14, <2>1, <3>1
    <2>2. CASE e.abort = FALSE
      <3>1. c = b
        BY <2>2
      <3> QED BY <1>3, <1>6, <1>9, <1>15, <2>2, <3>1
    <2> QED BY <1>13, <2>1, <2>2
  <1> HIDE DEF c
  <1>17. c.abortAcks \in Nat /\ c.rollbackAcks \in Nat
    BY <1>16 DEF Fit
  <1>18. ASSUME c.abortAcks = 0, c.rollbackAcks = 0 PROVE Live(EndError(c), g)
    BY <1>16, <1>18, EndErrorLive
  <1>19. ASSUME ~(c.abortAcks = 0 /\ c.rollbackAcks = 0) PROVE Live(c, g)
    <2>1. 0 < c.abortAcks + c.rollbackAcks
      BY <1>17, <1>19
    <2>2. Due(c, g, "abort") = Due(o, g, "abort") /\ DueAny(c, g) = DueAny(o, g)
      BY <1>16, SameDue
    <2>3. c.abortAcks <= Cardinality(Due(c, g, "abort")) + 0 /\ c.rollbackAcks <= Cardinality(DueAny(c, g)) + 0
      <3>1. c.abortAcks <= A + 0 /\ c.rollbackAcks <= B + 0
        BY <1>11, <1>16, <1>17
      <3> QED BY <2>2, <3>1 DEF A, B
    <2> QED BY <1>16, <2>1, <2>3 DEF Live, Forward, Recovers
  <1> QED BY <1>18, <1>19 DEF ChkEndErr, c, b, v, a, m

-----------------------------------------------------------------------------
(* Events that count acks *)

(* The event that counts adds one at most. *)
LEMMA AckTypes ==
    ASSUME NEW e, NEW S, NEW v
    PROVE  /\ AckV(e, S, v) \in {0, 1} /\ AckClose(e) \in {0, 1}
           /\ AckV(None, S, v) = 0 /\ AckClose(None) = 0 /\ None.k = "none"
  BY DEF AckV, AckClose, None

(* The numbers of those who owe an answer are naturals. *)
LEMMA DueTypes ==
    ASSUME NEW o, NEW g, NEW v
    PROVE  /\ Cardinality(DueV(o, g, v) \cap DM) \in Nat
           /\ Cardinality(DueV(o, g, v) \cap Clients) \in Nat
           /\ \A k : Cardinality(Due(o, g, k)) \in Nat
           /\ Cardinality(DueAny(o, g)) \in Nat
  <1>1. /\ DueV(o, g, v) \cap DM \subseteq Svc /\ DueV(o, g, v) \cap Clients \subseteq Svc
        /\ DueAny(o, g) \subseteq Svc /\ \A k : Due(o, g, k) \subseteq Svc
    BY DEF DueV, DueAny, Due, Clients, Svc
  <1>2. ASSUME NEW k PROVE Cardinality(Due(o, g, k)) \in Nat
    BY <1>1, CountSvc
  <1> QED BY <1>1, <1>2, CountSvc

(* GRD_DmtRebal: the ack is counted, or the set is only looked at. *)
LEMMA VolAckLive ==
    ASSUME NEW o, Calm(o), o.st = "Rebalance", NEW g, NEW e, Forward(o, g, e, TRUE),
           NEW S, e.k = "volAck" => e.svc \in S
    PROVE  Calm(VolAck(o, S)) /\ Forward(VolAck(o, S), g, None, FALSE)
  <1> DEFINE c == [o EXCEPT !.volAcks = @ \ S]
  <1>1. Shape(o) /\ Fit(o)
    BY DEF Calm, Fit
  <1>2. Shape(c)
    BY <1>1 DEF Shape, Fields
  <1>3. /\ c.st = o.st /\ c.err = o.err /\ c.agents = o.agents /\ c.closeAcks = o.closeAcks
        /\ c.abortAcks = o.abortAcks /\ c.rollbackAcks = o.rollbackAcks /\ c.deferred = o.deferred
        /\ c.out = o.out /\ c.volAcks = o.volAcks \ S
    BY <1>1 DEF Shape, Fields
  <1> HIDE DEF c
  <1>4. Calm(c)
    BY <1>1, <1>2, <1>3 DEF Calm, Fit
  <1>5. Calm(Rebalance(c)) /\ Forward(Rebalance(c), g, None, FALSE)
    BY <1>4, RebalanceLive
  <1>6. ASSUME c.volAcks # {} PROVE Forward(c, g, None, FALSE)
    <2>1. \A d \in o.volAcks : d \in o.agents /\ (d \in Due(o, g, "vol") \/ (e.k = "volAck" /\ d = e.svc))
      BY DEF Calm, Forward
    <2>2. \A d \in c.volAcks : d \in c.agents /\ d \in Due(c, g, "vol")
      <3>1. Due(c, g, "vol") = Due(o, g, "vol")
        BY <1>3, SameDue
      <3> QED BY <1>3, <2>1, <3>1
    <2> QED BY <1>3, <1>4, <1>6, <2>2 DEF Calm, Forward
  <1> QED BY <1>4, <1>5, <1>6 DEF VolAck, c

(* GRD_Commit *)
LEMMA PushMetaAckLive ==
    ASSUME NEW o, Calm(o), o.st = "Commit", NEW g, NEW e, NEW z, Forward(o, g, e, z),
           NEW d, e.k = "pushMeta" => e.svc = d
    PROVE  Calm(PushMetaAck(o, d)) /\ Forward(PushMetaAck(o, d), g, None, FALSE)
  <1> DEFINE a == [o EXCEPT !.pullAcks = @ \ {d}]
             c == Verify(a, d \in o.pullAcks)
  <1>1. Shape(o) /\ Fit(o)
    BY DEF Calm, Fit
  <1>2. Shape(a)
    BY <1>1 DEF Shape, Fields
  <1>3. /\ a.st = o.st /\ a.err = o.err /\ a.agents = o.agents /\ a.closeAcks = o.closeAcks
        /\ a.abortAcks = o.abortAcks /\ a.rollbackAcks = o.rollbackAcks /\ a.deferred = o.deferred
        /\ a.out = o.out /\ a.pullAcks = o.pullAcks \ {d}
    BY <1>1 DEF Shape, Fields
  <1> HIDE DEF a
  <1>4. Fit(a)
    BY <1>1, <1>2, <1>3 DEF Fit
  <1>5. /\ Fit(c) /\ c.st = o.st /\ c.err = o.err /\ c.rollbackAcks = o.rollbackAcks
        /\ c.out = o.out /\ c.pullAcks = o.pullAcks \ {d}
    BY <1>3, <1>4, VerifyFit DEF Fields
  <1> HIDE DEF c
  <1>6. Calm(c)
    BY <1>5 DEF Calm
  <1>7. Calm(Commit(c)) /\ Forward(Commit(c), g, None, FALSE)
    BY <1>6, CommitLive
  <1>8. ASSUME c.pullAcks # {} PROVE Forward(c, g, None, FALSE)
    <2>1. \A x \in o.pullAcks : x \in Due(o, g, "pull") \/ (e.k = "pushMeta" /\ x = e.svc)
      BY DEF Calm, Forward
    <2>2. \A x \in c.pullAcks : x \in Due(c, g, "pull")
      <3>1. Due(c, g, "pull") = Due(o, g, "pull")
        BY <1>5, SameDue
      <3> QED BY <1>5, <2>1, <3>1
    <2> QED BY <1>5, <1>6, <1>8, <2>2 DEF Calm, Forward
  <1> QED BY <1>6, <1>7, <1>8 DEF PushMetaAck, c, a

(* GRD_BcastAM: what is counted is the ack of a DM that owed one. *)
LEMMA CommitAckDMLive ==
    ASSUME NEW o, Calm(o), o.st = "BcastAM", NEW g, NEW e, e.k = "commitAck", NEW z,
           Forward(o, g, e, z)
    PROVE  Calm(CommitAckDM(o, e)) /\ Forward(CommitAckDM(o, e), g, None, FALSE)
  <1> DEFINE v == Verify(o, e.ver <= o.committed.ver)
             a == [v EXCEPT !.commitAcks = IF @ > 0 THEN @ - 1 ELSE 0]
             c == Verify(a, v.commitAcks > 0)
             D == Cardinality(DueV(o, g, o.committed.ver) \cap DM)
  <1>1. Fit(o) /\ o.commitAcks \in Nat /\ D \in Nat
    BY DueTypes DEF Calm, Fit, Shape
  <1>2. /\ Fit(v) /\ v.st = o.st /\ v.err = o.err /\ v.rollbackAcks = o.rollbackAcks
        /\ v.out = o.out /\ v.commitAcks = o.commitAcks /\ v.committed = o.committed
    BY <1>1, VerifyFit DEF Fields
  <1> HIDE DEF v
  <1>3. Shape(v)
    BY <1>2 DEF Fit
  <1>4. Shape(a)
    <2>1. (IF v.commitAcks > 0 THEN v.commitAcks - 1 ELSE 0) \in Nat
      BY <1>1, <1>2
    <2> QED BY <1>3, <2>1 DEF Shape, Fields
  <1>5. /\ a.st = v.st /\ a.err = v.err /\ a.agents = v.agents /\ a.closeAcks = v.closeAcks
        /\ a.abortAcks = v.abortAcks /\ a.rollbackAcks = v.rollbackAcks /\ a.deferred = v.deferred
        /\ a.out = v.out /\ a.committed = v.committed
        /\ a.commitAcks = (IF v.commitAcks > 0 THEN v.commitAcks - 1 ELSE 0)
    BY <1>3 DEF Shape, Fields
  <1> HIDE DEF a
  <1>6. Fit(a)
    BY <1>2, <1>4, <1>5 DEF Fit
  <1>7. /\ Fit(c) /\ c.st = o.st /\ c.err = o.err /\ c.rollbackAcks = o.rollbackAcks
        /\ c.out = o.out /\ c.committed = o.committed /\ c.commitAcks = a.commitAcks
    BY <1>2, <1>5, <1>6, VerifyFit DEF Fields
  <1> HIDE DEF c
  <1>8. Calm(v) /\ Calm(c)
    BY <1>2, <1>7 DEF Calm
  <1>9. 0 < o.commitAcks /\ o.commitAcks <= D + AckV(e, DM, o.committed.ver)
    BY DEF Calm, Forward
  <1>10. Calm(BcastAM(c)) /\ Forward(BcastAM(c), g, None, FALSE)
    BY <1>8, BcastAMLive
  <1>11. /\ DueV(v, g, v.committed.ver) = DueV(o, g, o.committed.ver)
         /\ DueV(c, g, c.committed.ver) = DueV(o, g, o.committed.ver)
    BY <1>2, <1>7, SameDue
  <1> HIDE DEF D
  <1>12. ASSUME e.svc \notin DM \/ e.ver # o.committed.ver
         PROVE  Forward(o, g, None, FALSE) /\ Forward(v, g, None, FALSE)
    <2>1. o.commitAcks <= D + 0
      BY <1>9, <1>12 DEF AckV
    <2>2. /\ 0 < o.commitAcks
          /\ o.commitAcks <= Cardinality(DueV(o, g, o.committed.ver) \cap DM) + AckV(None, DM, o.committed.ver)
      BY <1>9, <2>1, AckTypes DEF D
    <2>3. /\ 0 < v.commitAcks
          /\ v.commitAcks <= Cardinality(DueV(v, g, v.committed.ver) \cap DM) + AckV(None, DM, v.committed.ver)
      BY <1>2, <1>11, <2>2
    <2> QED BY <1>2, <1>8, <2>2, <2>3 DEF Calm, Forward
  <1>13. ASSUME c.commitAcks # 0 PROVE Forward(c, g, None, FALSE)
    <2>1. AckV(e, DM, o.committed.ver) \in {0, 1}
      BY AckTypes
    <2>2. 0 < c.commitAcks /\ c.commitAcks <= D + 0
      BY <1>1, <1>2, <1>5, <1>7, <1>9, <1>13, <2>1
    <2>3. /\ 0 < c.commitAcks
          /\ c.commitAcks <= Cardinality(DueV(c, g, c.committed.ver) \cap DM) + AckV(None, DM, c.committed.ver)
      BY <1>11, <2>2, AckTypes DEF D
    <2> QED BY <1>7, <1>8, <2>3 DEF Calm, Forward
  <1> QED BY <1>8, <1>10, <1>12, <1>13 DEF CommitAckDM, c, a, v

(* GRD_Close *)
LEMMA CommitAckClientLive ==
    ASSUME NEW o, Calm(o), o.st = "Close", NEW g, NEW e, e.k = "commitAck", NEW z,
           Forward(o, g, e, z)
    PROVE  Calm(CommitAckClient(o, e)) /\ Forward(CommitAckClient(o, e), g, None, FALSE)
  <1> DEFINE v == Verify(o, e.ver <= o.committed.ver)
             c == [v EXCEPT !.commitAcks = IF @ > 0 THEN @ - 1 ELSE 0]
             D == Cardinality(DueV(o, g, o.committed.ver) \cap Clients)
  <1>1. Fit(o) /\ o.commitAcks \in Nat /\ D \in Nat
    BY DueTypes DEF Calm, Fit, Shape
  <1>2. /\ Fit(v) /\ v.st = o.st /\ v.err = o.err /\ v.rollbackAcks = o.rollbackAcks
        /\ v.out = o.out /\ v.commitAcks = o.commitAcks /\ v.committed = o.committed
    BY <1>1, VerifyFit DEF Fields
  <1> HIDE DEF v
  <1>3. Shape(v)
    BY <1>2 DEF Fit
  <1>4. Shape(c)
    <2>1. (IF v.commitAcks > 0 THEN v.commitAcks - 1 ELSE 0) \in Nat
      BY <1>1, <1>2
    <2> QED BY <1>3, <2>1 DEF Shape, Fields
  <1>5. /\ c.st = v.st /\ c.err = v.err /\ c.agents = v.agents /\ c.closeAcks = v.closeAcks
        /\ c.abortAcks = v.abortAcks /\ c.rollbackAcks = v.rollbackAcks /\ c.deferred = v.deferred
        /\ c.out = v.out /\ c.committed = v.committed
        /\ c.commitAcks = (IF v.commitAcks > 0 THEN v.commitAcks - 1 ELSE 0)
    BY <1>3 DEF Shape, Fields
  <1> HIDE DEF c
  <1>6. Fit(c)
    BY <1>2, <1>4, <1>5 DEF Fit
  <1>8. Calm(v) /\ Calm(c)
    BY <1>2, <1>5, <1>6 DEF Calm
  <1>9. 0 < o.commitAcks /\ o.commitAcks <= D + AckV(e, Clients, o.committed.ver)
    BY DEF Calm, Forward
  <1>10. Calm(Close(c)) /\ Forward(Close(c), g, None, FALSE)
    BY <1>8, CloseLive
  <1>11. /\ DueV(v, g, v.committed.ver) = DueV(o, g, o.committed.ver)
         /\ DueV(c, g, c.committed.ver) = DueV(o, g, o.committed.ver)
    BY <1>2, <1>5, SameDue
  <1> HIDE DEF D
  <1>12. ASSUME e.ver # o.committed.ver PROVE Forward(v, g, None, FALSE)
    <2>1. o.commitAcks <= D + 0
      BY <1>9, <1>12 DEF AckV
    <2>3. /\ 0 < v.commitAcks
          /\ v.commitAcks <= Cardinality(DueV(v, g, v.committed.ver) \cap Clients) + AckV(None, Clients, v.committed.ver)
      BY <1>2, <1>9, <1>11, <2>1, AckTypes DEF D
    <2> QED BY <1>2, <1>8, <2>3 DEF Calm, Forward
  <1>13. ASSUME c.commitAcks # 0 PROVE Forward(c, g, None, FALSE)
    <2>1. AckV(e, Clients, o.committed.ver) \in {0, 1}
      BY AckTypes
    <2>2. 0 < c.commitAcks /\ c.commitAcks <= D + 0
      BY <1>1, <1>2, <1>5, <1>9, <1>13, <2>1
    <2>3. /\ 0 < c.commitAcks
          /\ c.commitAcks <= Cardinality(DueV(c, g, c.committed.ver) \cap Clients) + AckV(None, Clients, c.committed.ver)
      BY <1>11, <2>2, AckTypes DEF D
    <2> QED BY <1>2, <1>5, <1>8, <2>3 DEF Calm, Forward
  <1> QED BY <1>8, <1>10, <1>12, <1>13 DEF CommitAckClient, c, v

(* GRD_Done *)
LEMMA CloseOkLive ==
    ASSUME NEW o, Calm(o), o.st = "Done", NEW g, NEW e, NEW z, Forward(o, g, e, z)
    PROVE  Calm(CloseOk(o, e)) /\ Forward(CloseOk(o, e), g, None, FALSE)
  <1> DEFINE a == [o EXCEPT !.closeAcks = IF @ > 0 THEN @ - 1 ELSE 0]
             c == Verify(a, e.ver = o.committed.ver)
             D == Cardinality(Due(o, g, "close"))
  <1>1. Fit(o) /\ Shape(o) /\ o.closeAcks \in Nat /\ D \in Nat
    BY DueTypes DEF Calm, Fit
  <1>4. Shape(a)
    BY <1>1 DEF Shape, Fields
  <1>5. /\ a.st = o.st /\ a.err = o.err /\ a.agents = o.agents
        /\ a.closeAcks = (IF o.closeAcks > 0 THEN o.closeAcks - 1 ELSE 0)
        /\ a.abortAcks = o.abortAcks /\ a.rollbackAcks = o.rollbackAcks /\ a.deferred = o.deferred
        /\ a.out = o.out
    BY <1>1 DEF Shape, Fields
  <1> HIDE DEF a
  <1>6. Fit(a)
    <2>1. a.closeAcks \in Nat
      BY <1>1, <1>5
    <2> QED BY <1>1, <1>4, <1>5, <2>1 DEF Fit
  <1>7. /\ Fit(c) /\ c.st = o.st /\ c.err = o.err /\ c.rollbackAcks = o.rollbackAcks
        /\ c.out = o.out /\ c.closeAcks = a.closeAcks
    BY <1>5, <1>6, VerifyFit DEF Fields
  <1> HIDE DEF c
  <1>8. Calm(c)
    BY <1>7 DEF Calm
  <1>9. 0 < o.closeAcks /\ o.closeAcks <= D + AckClose(e)
    BY DEF Calm, Forward
  <1>10. Calm(UpdDone(c)) /\ Forward(UpdDone(c), g, None, FALSE)
    BY <1>8, UpdDoneLive
  <1>11. Due(c, g, "close") = Due(o, g, "close")
    BY <1>7, SameDue
  <1> HIDE DEF D
  <1>13. ASSUME c.closeAcks # 0 PROVE Forward(c, g, None, FALSE)
    <2>1. AckClose(e) \in {0, 1}
      BY AckTypes
    <2>2. 0 < c.closeAcks /\ c.closeAcks <= D + 0
      BY <1>1, <1>5, <1>7, <1>9, <1>13, <2>1
    <2>3. 0 < c.closeAcks /\ c.closeAcks <= Cardinality(Due(c, g, "close")) + AckClose(None)
      BY <1>11, <2>2, AckTypes DEF D
    <2> QED BY <1>7, <1>8, <2>3 DEF Calm, Forward
  <1> QED BY <1>8, <1>10, <1>13 DEF CloseOk, c, a

-----------------------------------------------------------------------------
(* The transition table *)

(* A record in which every state waits for somebody; a and b are the acks of *)
(* aborts and of clients that this step has still to count                   *)
Lively(o, g, z, a, b) == Fit(o) /\ Forward(o, g, None, z) /\ Recovers(o, g, a, b)

(* The event does not count in the state that the machine is in *)
Uncounted(o, e) ==
    /\ e.k = "volAck" => o.st # "Rebalance"
    /\ e.k = "pushMeta" => o.st # "Commit"
    /\ e.k = "commitAck" => o.st \notin {"BcastAM", "Close"}
    /\ e.k = "closeOk" => o.st # "Done"

(* An event that counts nowhere leaves every count as it is. *)
LEMMA UncountedForward ==
    ASSUME NEW o, NEW g, NEW e, NEW z, Forward(o, g, e, z), Uncounted(o, e)
    PROVE  Forward(o, g, None, z)
  <1>1. o.st \in {"BcastAM", "Close"} => AckV(e, DM, o.committed.ver) = 0 /\ AckV(e, Clients, o.committed.ver) = 0
    BY DEF Uncounted, AckV
  <1>2. o.st = "Done" => AckClose(e) = 0
    BY DEF Uncounted, AckClose
  <1>3. /\ AckV(None, DM, o.committed.ver) = 0 /\ AckV(None, Clients, o.committed.ver) = 0
        /\ AckClose(None) = 0
    BY AckTypes
  <1> QED BY <1>1, <1>2, <1>3 DEF Forward, Uncounted

(* What waits for somebody still does when an event may count once more. *)
LEMMA CountedForward ==
    ASSUME NEW o, Fit(o), NEW g, NEW e, NEW z, Forward(o, g, None, z)
    PROVE  Forward(o, g, e, z)
  <1> DEFINE v == o.committed.ver
             D == Cardinality(DueV(o, g, v) \cap DM)
             C == Cardinality(DueV(o, g, v) \cap Clients)
             L == Cardinality(Due(o, g, "close"))
  <1>1. D \in Nat /\ C \in Nat /\ L \in Nat
    BY DueTypes
  <1>2. o.commitAcks \in Nat /\ o.closeAcks \in Nat
    BY DEF Fit, Shape
  <1>3. AckV(e, DM, v) \in {0, 1} /\ AckV(e, Clients, v) \in {0, 1} /\ AckClose(e) \in {0, 1}
    BY AckTypes
  <1>4. AckV(None, DM, v) = 0 /\ AckV(None, Clients, v) = 0 /\ AckClose(None) = 0 /\ None.k = "none"
    BY AckTypes
  <1> HIDE DEF D, C, L, v
  <1>5. /\ o.commitAcks <= D + AckV(None, DM, v) => o.commitAcks <= D + AckV(e, DM, v)
        /\ o.commitAcks <= C + AckV(None, Clients, v) => o.commitAcks <= C + AckV(e, Clients, v)
        /\ o.closeAcks <= L + AckClose(None) => o.closeAcks <= L + AckClose(e)
    BY <1>1, <1>2, <1>3, <1>4
  <1> QED BY <1>4, <1>5 DEF Forward, D, C, L, v

(* An event kept for later. *)
LEMMA DeferLive ==
    ASSUME NEW o, Fit(o), o.err = "AllOk", NEW e \in Event, e.k # "timeout", NEW g, NEW z,
           Forward(o, g, None, z)
    PROVE  Fit(Defer(o, e)) /\ Defer(o, e).err = "AllOk" /\ Forward(Defer(o, e), g, None, z)
  <1> DEFINE p == Defer(o, e)
  <1>1. Shape(o)
    BY DEF Fit
  <1>2. DOMAIN p = Fields /\ p.deferred = Append(o.deferred, e)
        /\ \A f \in Fields \ {"deferred"} : p[f] = o[f]
    BY <1>1 DEF Shape, Fields, Defer
  <1> HIDE DEF p
  <1>3. o.deferred \in Seq(Event)
    BY <1>1 DEF Shape
  <1>4. p.deferred \in Seq(Event)
    BY <1>2, <1>3
  <1>5. \A i \in DOMAIN p.deferred : p.deferred[i] = e \/ (i \in DOMAIN o.deferred /\ p.deferred[i] = o.deferred[i])
    <2> DEFINE n == Len(o.deferred)
    <2>1. /\ n \in Nat /\ DOMAIN o.deferred = 1 .. n /\ DOMAIN p.deferred = 1 .. (n + 1)
          /\ p.deferred[n + 1] = e /\ \A i \in 1 .. n : p.deferred[i] = o.deferred[i]
      BY <1>2, <1>3
    <2> HIDE DEF n
    <2>2. \A i \in 1 .. (n + 1) : i = n + 1 \/ i \in 1 .. n
      BY <2>1
    <2> QED BY <2>1, <2>2
  <1>6. Shape(p)
    BY <1>1, <1>2, <1>4 DEF Shape, Fields
  <1>7. /\ p.st = o.st /\ p.err = o.err /\ p.agents = o.agents /\ p.closeAcks = o.closeAcks
        /\ p.abortAcks = o.abortAcks /\ p.rollbackAcks = o.rollbackAcks /\ p.out = o.out
        /\ p.volAcks = o.volAcks /\ p.pullAcks = o.pullAcks /\ p.commitAcks = o.commitAcks
        /\ p.committed = o.committed /\ p.wait = o.wait
    BY <1>2 DEF Fields
  <1>8. Fit(p)
    BY <1>5, <1>6, <1>7 DEF Fit
  <1>9. /\ \A k : Due(p, g, k) = Due(o, g, k)
        /\ \A v : DueV(p, g, v) = DueV(o, g, v)
    BY <1>7, SameDue
  <1>10. Forward(p, g, None, z)
    BY <1>7, <1>9 DEF Forward
  <1> QED BY <1>7, <1>8, <1>10 DEF p

(* Acks that this step has still to count may go uncounted. *)
LEMMA RecoversMore ==
    ASSUME NEW o, Fit(o), NEW g, NEW a \in {0, 1}, NEW b \in {0, 1}, Recovers(o, g, 0, 0)
    PROVE  Recovers(o, g, a, b)
  <1> DEFINE A == Cardinality(Due(o, g, "abort"))
             B == Cardinality(DueAny(o, g))
  <1>1. A \in Nat /\ B \in Nat /\ o.abortAcks \in Nat /\ o.rollbackAcks \in Nat
    BY DueTypes DEF Fit
  <1> HIDE DEF A, B
  <1>2. /\ o.abortAcks <= A + 0 => o.abortAcks <= A + a
        /\ o.rollbackAcks <= B + 0 => o.rollbackAcks <= B + b
    BY <1>1
  <1> QED BY <1>2 DEF Recovers, A, B

(* A row of the table, for an event that is no timeout of the waiting timer. *)
LEMMA DispatchLive ==
    ASSUME NEW o, Fit(o), NEW e \in Event, e.k # "timeout", NEW g, NEW z \in BOOLEAN,
           NEW a \in {0, 1}, NEW b \in {0, 1}, Forward(o, g, e, z), Recovers(o, g, a, b)
    PROVE  /\ Lively(Dispatch(o, e), g, z, a, b)
           /\ e.k = "volNone" => Lively(Dispatch(o, e), g, FALSE, a, b)
  <1>1. o.st \in States /\ o.err \in {"AllOk", "Error"} /\ e.k # "recovery"
    BY DEF Fit, Shape, Event
  <1>2. CASE o.err = "Error"
    <2>1. Dispatch(o, e) = o
      BY <1>1, <1>2 DEF Dispatch
    <2>2. Forward(o, g, None, z) /\ Forward(o, g, None, FALSE)
      BY <1>2 DEF Forward
    <2> QED BY <2>1, <2>2 DEF Lively
  <1>3. CASE o.err = "AllOk"
    <2> DEFINE L(p) == /\ Lively(p, g, z, a, b)
                       /\ e.k = "volNone" => Lively(p, g, FALSE, a, b)
    <2>1. Calm(o)
      BY <1>3 DEF Calm, Forward
    <2>2. Forward(o, g, e, TRUE)
      BY DEF Forward
    <2>3. \A p : Forward(p, g, None, FALSE) => Forward(p, g, None, z)
      BY DEF Forward
    <2>4. \A p : Calm(p) /\ Forward(p, g, None, FALSE) => L(p)
      BY <2>3 DEF Calm, Recovers, Lively
    <2>5. L(ErrorFound(o))
      <3> DEFINE p == ErrorFound(o)
      <3>1. Live(p, g)
        BY <2>1, ErrorFoundLive
      <3> HIDE DEF p
      <3>2. Fit(p) /\ Forward(p, g, None, FALSE) /\ Recovers(p, g, a, b)
        BY <3>1, RecoversMore DEF Live
      <3>3. L(p)
        BY <2>3, <3>2 DEF Lively
      <3> QED BY <3>3 DEF p
    <2>6. ASSUME o.st = "Idle" PROVE L(DplyStart(o))
      BY <2>1, <2>4, <2>6, DplyStartLive
    <2>7. ASSUME o.st = "Rebalance", e.k = "volAck" PROVE L(VolAck(o, {e.svc}))
      BY <2>1, <2>2, <2>4, <2>7, VolAckLive
    <2>8. ASSUME o.st = "Rebalance", e.k = "volNone" PROVE L(VolAck(o, {}))
      BY <2>1, <2>2, <2>4, <2>8, VolAckLive
    <2>9. ASSUME o.st = "Commit" PROVE L(PushMetaAck(o, e.svc))
      BY <2>1, <2>4, <2>9, PushMetaAckLive
    <2>10. ASSUME o.st = "BcastAM", e.k = "commitAck" PROVE L(CommitAckDM(o, e))
      BY <2>1, <2>4, <2>10, CommitAckDMLive
    <2>11. ASSUME o.st = "Close", e.k = "commitAck" PROVE L(CommitAckClient(o, e))
      BY <2>1, <2>4, <2>11, CommitAckClientLive
    <2>12. ASSUME o.st = "Done" PROVE L(CloseOk(o, e))
      BY <2>1, <2>4, <2>12, CloseOkLive
    <2>13. ASSUME Uncounted(o, e), e.k \in {"pushMeta", "commitAck", "closeOk"} PROVE L(Defer(o, e))
      <3>1. Forward(o, g, None, z)
        BY <2>13, UncountedForward
      <3> DEFINE p == Defer(o, e)
      <3>2. Fit(p) /\ p.err = "AllOk" /\ Forward(p, g, None, z)
        BY <1>3, <3>1, DeferLive
      <3> HIDE DEF p
      <3>3. L(p)
        BY <2>13, <3>2 DEF Lively, Recovers
      <3> QED BY <3>3 DEF p
    <2>14. ASSUME Uncounted(o, e), ~(e.k = "volNone" /\ o.st = "Rebalance") PROVE L(o)
      <3>1. Forward(o, g, None, z)
        BY <2>14, UncountedForward
      <3>2. e.k = "volNone" => Forward(o, g, None, FALSE)
        BY <2>14, <3>1 DEF Forward
      <3> QED BY <3>1, <3>2 DEF Lively
    <2> HIDE DEF L
    <2>15. L(Dispatch(o, e))
      <3> DEFINE p == Dispatch(o, e)
      <3>1. CASE e.k = "errorFound" \/ (e.k = "up" /\ e.svc \in o.ongoing)
        BY <1>3, <2>5, <3>1 DEF Dispatch
      <3>2. CASE e.k = "up" /\ e.svc \notin o.ongoing
        BY <1>3, <2>14, <3>2 DEF Dispatch, Uncounted
      <3>3. CASE e.k = "deploy"
        BY <1>3, <2>6, <2>14, <3>3 DEF Dispatch, Uncounted
      <3>4. CASE e.k = "volAck"
        BY <1>3, <2>7, <2>14, <3>4 DEF Dispatch, Uncounted
      <3>5. CASE e.k = "volNone"
        BY <1>3, <2>8, <2>14, <3>5 DEF Dispatch, Uncounted
      <3>6. CASE e.k = "pushMeta"
        BY <1>3, <2>9, <2>13, <2>14, <3>6 DEF Dispatch, Uncounted
      <3>7. CASE e.k = "commitAck"
        BY <1>3, <2>10, <2>11, <2>13, <2>14, <3>7 DEF Dispatch, Uncounted
      <3>8. CASE e.k = "closeOk"
        BY <1>3, <2>12, <2>13, <2>14, <3>8 DEF Dispatch, Uncounted
      <3>9. e.k \in {"up", "deploy", "volAck", "volNone", "pushMeta", "errorFound", "commitAck", "closeOk"}
        BY DEF Event
      <3> QED BY <3>1, <3>2, <3>3, <3>4, <3>5, <3>6, <3>7, <3>8, <3>9
    <2> QED BY <2>15 DEF L
  <1> QED BY <1>1, <1>2, <1>3

(* The failure of a request: whatever the forward region waited for, it is   *)
(* the error region that waits now.                                          *)
LEMMA DispatchError ==
    ASSUME NEW o, Fit(o), o.err = "AllOk" => o.rollbackAcks = 0, NEW s, NEW g,
           NEW a \in {0, 1}, NEW b \in {0, 1}, Recovers(o, g, a, b)
    PROVE  Lively(Dispatch(o, Evt("errorFound", s)), g, FALSE, a, b)
  <1> DEFINE e == Evt("errorFound", s)
  <1>1. o.err \in {"AllOk", "Error"} /\ e.k = "errorFound"
    BY DEF Fit, Shape, Evt
  <1> HIDE DEF e
  <1>2. CASE o.err = "Error"
    <2>1. Dispatch(o, e) = o
      BY <1>1, <1>2 DEF Dispatch
    <2>2. Lively(o, g, FALSE, a, b)
      BY <1>2 DEF Lively, Forward
    <2> QED BY <2>1, <2>2 DEF e
  <1>3. CASE o.err = "AllOk"
    <2> DEFINE p == ErrorFound(o)
    <2>1. Dispatch(o, e) = p
      BY <1>1, <1>3 DEF Dispatch
    <2>2. Live(p, g)
      BY <1>3, ErrorFoundLive DEF Calm
    <2> HIDE DEF p
    <2>3. Lively(p, g, FALSE, a, b)
      BY <2>2, RecoversMore DEF Live, Lively
    <2> QED BY <2>1, <2>3 DEF e
  <1> QED BY <1>1, <1>2, <1>3

(* The answer of a DM that aborts or of a client that goes back. *)
LEMMA DispatchRecovery ==
    ASSUME NEW o, NEW g, NEW e \in Recovery,
           Lively(o, g, FALSE, IF e.abort THEN 1 ELSE 0, IF e.abort THEN 0 ELSE 1)
    PROVE  Lively(Dispatch(o, e), g, FALSE, 0, 0)
  <1>1. o.err \in {"AllOk", "Error"} /\ e.k = "recovery" /\ Fit(o)
    BY DEF Lively, Fit, Shape, Recovery
  <1>2. CASE o.err = "Error"
    <2>1. Live(ChkEndErr(o, e), g)
      BY <1>1, <1>2, ChkEndErrLive DEF Lively
    <2>2. Dispatch(o, e) = ChkEndErr(o, e)
      BY <1>1, <1>2 DEF Dispatch
    <2> QED BY <2>1, <2>2 DEF Live, Lively
  <1>3. CASE o.err = "AllOk"
    <2>1. Dispatch(o, e) = o
      BY <1>1, <1>3 DEF Dispatch
    <2> QED BY <1>3, <2>1 DEF Lively, Recovers
  <1> QED BY <1>1, <1>2, <1>3

(* The waiting timer starts the rebalancing; only then may the set of volume *)
(* acks be empty.                                                            *)
LEMMA DispatchTimeout ==
    ASSUME NEW o, Fit(o), NEW g, NEW s,
           o.st = "Waiting" /\ o.err = "AllOk" => o.rollbackAcks = 0,
           ~(o.st = "Waiting" /\ o.err = "AllOk") => Forward(o, g, None, FALSE),
           Recovers(o, g, 0, 0)
    PROVE  Lively(Dispatch(o, Evt("timeout", s)), g, TRUE, 0, 0)
  <1> DEFINE e == Evt("timeout", s)
  <1>1. o.err \in {"AllOk", "Error"} /\ e.k = "timeout"
    BY DEF Fit, Shape, Evt
  <1> HIDE DEF e
  <1>2. CASE o.st = "Waiting" /\ o.err = "AllOk"
    <2>1. Calm(Start(o)) /\ Forward(Start(o), g, None, TRUE)
      BY <1>2, StartLive DEF Calm
    <2>2. Dispatch(o, e) = Start(o)
      BY <1>1, <1>2 DEF Dispatch
    <2> QED BY <2>1, <2>2 DEF Calm, Lively, Recovers, e
  <1>3. CASE ~(o.st = "Waiting" /\ o.err = "AllOk")
    <2>1. Dispatch(o, e) = o
      BY <1>1, <1>3 DEF Dispatch
    <2>2. Forward(o, g, None, TRUE)
      BY <1>3 DEF Forward
    <2> QED BY <2>1, <2>2 DEF Lively, e
  <1> QED BY <1>2, <1>3

(* Deferred events, tried again in order. *)
LEMMA FoldLive ==
    ASSUME NEW o, NEW g, NEW z \in BOOLEAN, NEW a \in {0, 1}, NEW b \in {0, 1}, Lively(o, g, z, a, b),
           NEW q \in Seq(Event), \A i \in DOMAIN q : q[i].k # "timeout"
    PROVE  Lively(DispatchAll(o, q), g, z, a, b)
  <1> DEFINE n == Len(q)
  <1>1. n \in Nat /\ DOMAIN q = 1 .. n
    OBVIOUS
  <1>2. PICK f : /\ f[0] = o
                 /\ \A i \in 1 .. n : f[i] = Dispatch(f[i - 1], q[i])
                 /\ DispatchAll(o, q) = f[n]
    BY <1>1, FoldSteps
  <1>3. \A i \in 1 .. n : q[i] \in Event /\ q[i].k # "timeout"
    BY <1>1
  <1> HIDE DEF n
  <1> DEFINE T == {i \in 0 .. n : ~Lively(f[i], g, z, a, b)}
  <1>4. T = {}
    <2> SUFFICES ASSUME T # {} PROVE FALSE
      OBVIOUS
    <2>1. PICK m \in T : \A y \in T : m <= y
      <3>1. T \subseteq Nat
        BY <1>1
      <3> HIDE DEF T
      <3> QED BY <3>1, Least
    <2>2. m \in 1 .. n /\ m - 1 \in 0 .. n /\ ~(m <= m - 1)
      BY <1>1, <1>2, <2>1
    <2>3. Lively(f[m - 1], g, z, a, b)
      BY <2>1, <2>2
    <2> DEFINE p == f[m - 1]
               e == q[m]
    <2>4. Lively(p, g, z, a, b) /\ e \in Event /\ e.k # "timeout"
      BY <1>3, <2>2, <2>3
    <2> HIDE DEF p, e
    <2>5. Forward(p, g, e, z)
      BY <2>4, CountedForward DEF Lively
    <2>6. Lively(Dispatch(p, e), g, z, a, b)
      BY <2>4, <2>5, DispatchLive DEF Lively
    <2> QED BY <1>2, <2>1, <2>2, <2>6 DEF p, e
  <1>5. Lively(f[n], g, z, a, b)
    BY <1>1, <1>4
  <1> QED BY <1>2, <1>5

(* process_event: deferred events follow the event that changed the state. *)
LEMMA ProcessLive ==
    ASSUME NEW o, NEW e, NEW g, NEW z \in BOOLEAN, NEW a \in {0, 1}, NEW b \in {0, 1},
           Lively(Dispatch(o, e), g, z, a, b)
    PROVE  Lively(Process(o, e), g, z, a, b)
  <1> DEFINE o1 == Dispatch(o, e)
             o2 == [o1 EXCEPT !.deferred = <<>>]
  <1>1. Lively(o1, g, z, a, b)
    OBVIOUS
  <1> HIDE DEF o1
  <1>2. Fit(o1) /\ Shape(o1)
    BY <1>1 DEF Lively, Fit
  <1>3. Shape(o2)
    BY <1>2 DEF Shape, Fields
  <1>4. /\ o2.st = o1.st /\ o2.err = o1.err /\ o2.agents = o1.agents /\ o2.closeAcks = o1.closeAcks
        /\ o2.abortAcks = o1.abortAcks /\ o2.rollbackAcks = o1.rollbackAcks /\ o2.out = o1.out
        /\ o2.volAcks = o1.volAcks /\ o2.pullAcks = o1.pullAcks /\ o2.commitAcks = o1.commitAcks
        /\ o2.committed = o1.committed /\ o2.wait = o1.wait /\ o2.deferred = <<>>
    BY <1>2 DEF Shape, Fields
  <1> HIDE DEF o2
  <1>5. Fit(o2)
    BY <1>2, <1>3, <1>4 DEF Fit
  <1>11. o2.out = o1.out
    BY <1>4
  <1>6. /\ \A k : Due(o2, g, k) = Due(o1, g, k)
        /\ \A v : DueV(o2, g, v) = DueV(o1, g, v)
    BY <1>11 DEF Due, DueV
  <1>10. DueAny(o2, g) = DueAny(o1, g)
    BY <1>4 DEF DueAny
  <1>7. Forward(o2, g, None, z) /\ Recovers(o2, g, a, b)
    BY <1>1, <1>4, <1>6, <1>10 DEF Lively, Forward, Recovers
  <1>8. o1.deferred \in Seq(Event) /\ \A i \in DOMAIN o1.deferred : o1.deferred[i].k # "timeout"
    BY <1>2 DEF Fit, Shape
  <1>9. Lively(DispatchAll(o2, o1.deferred), g, z, a, b)
    BY <1>5, <1>7, <1>8, FoldLive DEF Lively
  <1> QED BY <1>1, <1>9 DEF Process, DispatchAll, FoldLeft, MapThenFoldSet, o1, o2

-----------------------------------------------------------------------------
(* What is pending before and after a step *)

(* All that is due to o, with g pending, is due to p, with h pending *)
Covers(o, g, p, h) ==
    /\ \A k \in {"vol", "pull", "close", "abort"} : Due(o, g, k) \subseteq Due(p, h, k)
    /\ \A v : DueV(o, g, v) \subseteq DueV(p, h, v)
    /\ DueAny(o, g) \subseteq DueAny(p, h)

(* When nothing that is due is forgotten, every state waits for somebody. *)
LEMMA CoversLive ==
    ASSUME NEW o, NEW g, Live(o, g), NEW p, NEW h, Fit(p),
           \A f \in Fields \ {"out", "deferred", "agents", "pendUp", "pendResync", "retry"} : p[f] = o[f],
           o.agents \subseteq p.agents, Covers(o, g, p, h)
    PROVE  Live(p, h)
  <1>1. /\ p.st = o.st /\ p.err = o.err /\ p.closeAcks = o.closeAcks
        /\ p.abortAcks = o.abortAcks /\ p.rollbackAcks = o.rollbackAcks
        /\ p.volAcks = o.volAcks /\ p.pullAcks = o.pullAcks /\ p.commitAcks = o.commitAcks
        /\ p.committed = o.committed /\ p.wait = o.wait
    BY DEF Fields
  <1> DEFINE v == o.committed.ver
             D == Cardinality(DueV(o, g, v) \cap DM)
             E == Cardinality(DueV(p, h, v) \cap DM)
             C == Cardinality(DueV(o, g, v) \cap Clients)
             B == Cardinality(DueV(p, h, v) \cap Clients)
             L(k) == Cardinality(Due(o, g, k))
             M(k) == Cardinality(Due(p, h, k))
             X == Cardinality(DueAny(o, g))
             Y == Cardinality(DueAny(p, h))
  <1>2. D \in Nat /\ E \in Nat /\ D <= E
    <2>1. DueV(o, g, v) \cap DM \subseteq DueV(p, h, v) \cap DM /\ DueV(p, h, v) \cap DM \subseteq Svc
      BY DEF Covers, DueV
    <2> QED BY <2>1, CountSvc
  <1>3. C \in Nat /\ B \in Nat /\ C <= B
    <2>1. DueV(o, g, v) \cap Clients \subseteq DueV(p, h, v) \cap Clients /\ DueV(p, h, v) \cap Clients \subseteq Svc
      BY DEF Covers, DueV
    <2> QED BY <2>1, CountSvc
  <1>4. L("close") \in Nat /\ M("close") \in Nat /\ L("close") <= M("close")
    <2>1. Due(o, g, "close") \subseteq Due(p, h, "close") /\ Due(p, h, "close") \subseteq Svc
      BY DEF Covers, Due
    <2> QED BY <2>1, CountSvc
  <1>5. L("abort") \in Nat /\ M("abort") \in Nat /\ L("abort") <= M("abort")
    <2>1. Due(o, g, "abort") \subseteq Due(p, h, "abort") /\ Due(p, h, "abort") \subseteq Svc
      BY DEF Covers, Due
    <2> QED BY <2>1, CountSvc
  <1>6. X \in Nat /\ Y \in Nat /\ X <= Y
    <2>1. DueAny(o, g) \subseteq DueAny(p, h) /\ DueAny(p, h) \subseteq Svc
      BY DEF Covers, DueAny, Clients, Svc
    <2> QED BY <2>1, CountSvc
  <1>7. Due(o, g, "vol") \subseteq Due(p, h, "vol") /\ Due(o, g, "pull") \subseteq Due(p, h, "pull")
    BY DEF Covers
  <1>8. p.commitAcks \in Nat /\ p.closeAcks \in Nat /\ p.abortAcks \in Nat /\ p.rollbackAcks \in Nat
    BY DEF Fit, Shape
  <1>9. /\ AckV(None, DM, v) = 0 /\ AckV(None, Clients, v) = 0 /\ AckClose(None) = 0
    BY AckTypes
  <1> HIDE DEF D, E, C, B, L, M, X, Y, v
  <1>10. /\ p.commitAcks <= D + AckV(None, DM, v) => p.commitAcks <= E + AckV(None, DM, v)
         /\ p.commitAcks <= C + AckV(None, Clients, v) => p.commitAcks <= B + AckV(None, Clients, v)
         /\ p.closeAcks <= L("close") + AckClose(None) => p.closeAcks <= M("close") + AckClose(None)
         /\ p.abortAcks <= L("abort") + 0 => p.abortAcks <= M("abort") + 0
         /\ p.rollbackAcks <= X + 0 => p.rollbackAcks <= Y + 0
    BY <1>2, <1>3, <1>4, <1>5, <1>6, <1>8, <1>9
  <1>11. Forward(p, h, None, FALSE)
    <2> SUFFICES ASSUME p.err = "AllOk"
                 PROVE  /\ p.rollbackAcks = 0
                        /\ p.st = "Waiting" => p.wait = TRUE
                        /\ p.st = "Rebalance" =>
                             /\ FALSE \/ p.volAcks # {}
                             /\ \A d \in p.volAcks : d \in p.agents /\ (d \in Due(p, h, "vol") \/ (None.k = "volAck" /\ d = None.svc))
                        /\ p.st = "Commit" =>
                             /\ p.pullAcks # {}
                             /\ \A d \in p.pullAcks : d \in Due(p, h, "pull") \/ (None.k = "pushMeta" /\ d = None.svc)
                        /\ p.st = "BcastAM" => 0 < p.commitAcks /\ p.commitAcks <= E + AckV(None, DM, v)
                        /\ p.st = "Close" => 0 < p.commitAcks /\ p.commitAcks <= B + AckV(None, Clients, v)
                        /\ p.st = "Done" => 0 < p.closeAcks /\ p.closeAcks <= M("close") + AckClose(None)
      BY <1>1 DEF Forward, E, B, M, v
    <2>1. /\ o.rollbackAcks = 0
          /\ o.st = "Waiting" => o.wait = TRUE
          /\ o.st = "Rebalance" =>
               /\ o.volAcks # {}
               /\ \A d \in o.volAcks : d \in o.agents /\ (d \in Due(o, g, "vol") \/ (None.k = "volAck" /\ d = None.svc))
          /\ o.st = "Commit" =>
               /\ o.pullAcks # {}
               /\ \A d \in o.pullAcks : d \in Due(o, g, "pull") \/ (None.k = "pushMeta" /\ d = None.svc)
          /\ o.st = "BcastAM" => 0 < o.commitAcks /\ o.commitAcks <= D + AckV(None, DM, v)
          /\ o.st = "Close" => 0 < o.commitAcks /\ o.commitAcks <= C + AckV(None, Clients, v)
          /\ o.st = "Done" => 0 < o.closeAcks /\ o.closeAcks <= L("close") + AckClose(None)
      BY <1>1 DEF Live, Forward, D, C, L, v
    <2> QED BY <1>1, <1>7, <1>10, <2>1
  <1>12. Recovers(p, h, 0, 0)
    <2>1. o.err = "Error" =>
             0 < o.abortAcks + o.rollbackAcks /\ o.abortAcks <= L("abort") + 0 /\ o.rollbackAcks <= X + 0
      BY DEF Live, Recovers, L, X
    <2>2. p.err = "Error" =>
             0 < p.abortAcks + p.rollbackAcks /\ p.abortAcks <= M("abort") + 0 /\ p.rollbackAcks <= Y + 0
      BY <1>1, <1>10, <2>1
    <2> QED BY <2>2 DEF Recovers, M, Y
  <1> QED BY <1>11, <1>12 DEF Live

(* Who is pending, member by member *)
LEMMA PendingMembers ==
    ASSUME NEW r, NEW a, NEW l, NEW u, NEW g, g = Pending(r, a, l, u), NEW s \in Svc
    PROVE  /\ s \in g["vol"] <=>
                HasKind(r[s], "vol") \/ HasVol(a[s]) \/ \E m \in l : m.svc = s /\ m.kind = "vol"
           /\ s \in g["pull"] <=>
                \/ \E p \in u : p.dm = s
                \/ HasKind(r[s], "pull") \/ HasKind(a[s], "pull") \/ \E m \in l : m.svc = s /\ m.kind = "pull"
           /\ \A k \in {"close", "abort"} : s \in g[k] <=>
                HasKind(r[s], k) \/ HasKind(a[s], k) \/ \E m \in l : m.svc = s /\ m.kind = k
           /\ \A v : v \in g.dmt[s] <=> HasV(r[s], v) \/ HasV(a[s], v) \/ LostV(l, s, v)
  <1>1. g["vol"] = {x \in Svc : HasKind(r[x], "vol") \/ HasVol(a[x]) \/ \E m \in l : m.svc = x /\ m.kind = "vol"}
    BY DEF Pending
  <1>2. g["pull"] = {p.dm : p \in u} \cup Open(r, a, l, "pull")
    BY DEF Pending
  <1>3. g["close"] = Open(r, a, l, "close") /\ g["abort"] = Open(r, a, l, "abort")
    BY DEF Pending
  <1>4. g.dmt[s] = Versions(r, a, l, s)
    BY DEF Pending
  <1>5. \A v : v \in Versions(r, a, l, s) <=> HasV(r[s], v) \/ HasV(a[s], v) \/ LostV(l, s, v)
    BY DEF Versions, HasV, LostV, IsV
  <1>6. s \in g["pull"] <=>
                \/ \E p \in u : p.dm = s
                \/ HasKind(r[s], "pull") \/ HasKind(a[s], "pull") \/ \E m \in l : m.svc = s /\ m.kind = "pull"
    BY <1>2 DEF Open
  <1>7. \A k \in {"close", "abort"} : s \in g[k] <=>
                HasKind(r[s], k) \/ HasKind(a[s], k) \/ \E m \in l : m.svc = s /\ m.kind = k
    BY <1>3 DEF Open
  <1> QED BY <1>1, <1>4, <1>5, <1>6, <1>7

(* What the OM waits for in the current state *)
Awaited == Pending(req, ans, lost, pulls)

(* A request of service s stays, is answered, is lost or is under way *)
Passed(s, m) ==
    \/ \E i \in DOMAIN req'[s] : req'[s][i] = m
    \/ \E i \in DOMAIN ans'[s] :
          ans'[s][i].kind = m.kind /\ ans'[s][i].dmt = m.dmt /\ (m.kind = "vol" => ans'[s][i].res # "err")
    \/ \E x \in lost' : x.svc = s /\ x.kind = m.kind /\ x.dmt = m.dmt
    \/ m.kind = "pull" /\ \E p \in pulls' : p.dm = s

(* A service forgets no request, answer, loss or pull. *)
LEMMA ServiceLive ==
    ASSUME Types, Live(om, Awaited), om' = om, lost \subseteq lost',
           \A s \in Svc : \A i \in DOMAIN req[s] : Passed(s, req[s][i]),
           \A s \in Svc : \A i \in DOMAIN ans[s] : \E j \in DOMAIN ans'[s] : ans'[s][j] = ans[s][i],
           \A p \in pulls : \/ \E q \in pulls' : q.dm = p.dm
                            \/ \E i \in DOMAIN ans'[p.dm] : ans'[p.dm][i].kind = "pull"
                            \/ \E m \in lost' : m.svc = p.dm /\ m.kind = "pull"
    PROVE  Live(om, Awaited)'
  <1> DEFINE g == Awaited
             h == Awaited'
  <1>1. ASSUME NEW s \in Svc
        PROVE  /\ s \in g["vol"] => s \in h["vol"]
               /\ s \in g["pull"] => s \in h["pull"]
               /\ \A k \in {"close", "abort"} : s \in g[k] => s \in h[k]
               /\ \A v : v \in g.dmt[s] => v \in h.dmt[s]
    <2>1. /\ s \in g["vol"] <=>
                HasKind(req[s], "vol") \/ HasVol(ans[s]) \/ \E m \in lost : m.svc = s /\ m.kind = "vol"
          /\ s \in g["pull"] <=>
                \/ \E p \in pulls : p.dm = s
                \/ HasKind(req[s], "pull") \/ HasKind(ans[s], "pull") \/ \E m \in lost : m.svc = s /\ m.kind = "pull"
          /\ \A k \in {"close", "abort"} : s \in g[k] <=>
                HasKind(req[s], k) \/ HasKind(ans[s], k) \/ \E m \in lost : m.svc = s /\ m.kind = k
          /\ \A v : v \in g.dmt[s] <=> HasV(req[s], v) \/ HasV(ans[s], v) \/ LostV(lost, s, v)
      BY PendingMembers DEF Awaited
    <2>2. h = Pending(req', ans', lost', pulls')
      BY DEF Awaited, Pending, Open, Versions, HasKind, HasVol
    <2> HIDE DEF g, h
    <2>3. /\ s \in h["vol"] <=>
                HasKind(req'[s], "vol") \/ HasVol(ans'[s]) \/ \E m \in lost' : m.svc = s /\ m.kind = "vol"
          /\ s \in h["pull"] <=>
                \/ \E p \in pulls' : p.dm = s
                \/ HasKind(req'[s], "pull") \/ HasKind(ans'[s], "pull") \/ \E m \in lost' : m.svc = s /\ m.kind = "pull"
          /\ \A k \in {"close", "abort"} : s \in h[k] <=>
                HasKind(req'[s], k) \/ HasKind(ans'[s], k) \/ \E m \in lost' : m.svc = s /\ m.kind = k
          /\ \A v : v \in h.dmt[s] <=> HasV(req'[s], v) \/ HasV(ans'[s], v) \/ LostV(lost', s, v)
      BY <2>2, PendingMembers
    <2>4. s \in g["vol"] => s \in h["vol"]
      <3>1. HasKind(req[s], "vol") => s \in h["vol"]
        BY <2>3 DEF HasKind, HasVol, Passed
      <3>2. HasVol(ans[s]) \/ (\E m \in lost : m.svc = s /\ m.kind = "vol") => s \in h["vol"]
        BY <2>3 DEF HasVol
      <3> QED BY <2>1, <3>1, <3>2
    <2>5. s \in g["pull"] => s \in h["pull"]
      <3>1. (\E p \in pulls : p.dm = s) => s \in h["pull"]
        BY <2>3 DEF HasKind
      <3>2. HasKind(req[s], "pull") => s \in h["pull"]
        BY <2>3 DEF HasKind, Passed
      <3>3. HasKind(ans[s], "pull") \/ (\E m \in lost : m.svc = s /\ m.kind = "pull") => s \in h["pull"]
        BY <2>3 DEF HasKind
      <3> QED BY <2>1, <3>1, <3>2, <3>3
    <2>6. ASSUME NEW k \in {"close", "abort"}, s \in g[k] PROVE s \in h[k]
      <3>1. HasKind(req[s], k) => s \in h[k]
        BY <2>3 DEF HasKind, Passed
      <3>2. HasKind(ans[s], k) \/ (\E m \in lost : m.svc = s /\ m.kind = k) => s \in h[k]
        BY <2>3 DEF HasKind
      <3> QED BY <2>1, <2>6, <3>1, <3>2
    <2>7. ASSUME NEW v, v \in g.dmt[s] PROVE v \in h.dmt[s]
      <3>1. HasV(req[s], v) => v \in h.dmt[s]
        <4> SUFFICES ASSUME NEW i \in DOMAIN req[s], IsV(req[s][i], v) PROVE v \in h.dmt[s]
          BY DEF HasV
        <4> DEFINE m == req[s][i]
        <4>1. m.kind = "dmt" /\ m.dmt.ver = v /\ Passed(s, m)
          BY DEF IsV
        <4> HIDE DEF m
        <4> QED BY <2>3, <4>1 DEF HasV, LostV, IsV, Passed
      <3>2. HasV(ans[s], v) \/ LostV(lost, s, v) => v \in h.dmt[s]
        BY <2>3 DEF HasV, LostV
      <3> QED BY <2>1, <2>7, <3>1, <3>2
    <2> QED BY <2>4, <2>5, <2>6, <2>7
  <1> HIDE DEF g, h
  <1>2. Clients \subseteq Svc
    BY DEF Clients, Svc
  <1>3. Covers(om, g, om, h)
    <2>1. \A v : DueV(om, g, v) \subseteq DueV(om, h, v)
      BY <1>1 DEF DueV
    <2>2. DueAny(om, g) \subseteq DueAny(om, h)
      BY <1>1, <1>2 DEF DueAny
    <2>3. /\ Due(om, g, "vol") \subseteq Due(om, h, "vol") /\ Due(om, g, "pull") \subseteq Due(om, h, "pull")
          /\ Due(om, g, "close") \subseteq Due(om, h, "close") /\ Due(om, g, "abort") \subseteq Due(om, h, "abort")
      BY <1>1 DEF Due
    <2> QED BY <2>1, <2>2, <2>3 DEF Covers
  <1>4. Live(om, g) /\ Fit(om)
    BY DEF Live, g
  <1>5. Live(om, h)
    BY <1>3, <1>4, CoversLive
  <1> QED BY <1>5 DEF h, Live, Fit, Forward, Recovers, Shape

(* The step of the OM ends: its requests join the queues. *)
LEMMA BecomeLive ==
    ASSUME Types, NEW g, g = Pending(req, ans', lost', pulls'), NEW o, Live(o, g), Become(o)
    PROVE  Live(om, Awaited)'
  <1> DEFINE h == Awaited'
             p == [o EXCEPT !.out = NoOut]
  <1>1. Shape(o) /\ Fit(o) /\ om' = p
    BY DEF Live, Fit, Become
  <1>2. NoOut \in [Svc -> Seq(Msg)]
    BY DEF NoOut
  <1>3. DOMAIN p = Fields /\ p.out = NoOut /\ \A f \in Fields \ {"out"} : p[f] = o[f]
    BY <1>1 DEF Shape, Fields
  <1> HIDE DEF p
  <1>4. Shape(p)
    BY <1>1, <1>2, <1>3 DEF Shape, Fields
  <1>5. /\ p.agents = o.agents /\ p.closeAcks = o.closeAcks /\ p.abortAcks = o.abortAcks
        /\ p.rollbackAcks = o.rollbackAcks /\ p.deferred = o.deferred
    BY <1>3 DEF Fields
  <1>6. Fit(p)
    BY <1>1, <1>4, <1>5 DEF Fit
  <1>7. h = Pending(req', ans', lost', pulls')
    BY DEF Awaited, Pending, Open, Versions, HasKind, HasVol
  <1> HIDE DEF h
  <1>8. ASSUME NEW s \in Svc
        PROVE  /\ \A k : HasKind(req[s], k) \/ HasKind(o.out[s], k) => HasKind(req'[s], k)
               /\ \A v : HasV(req[s], v) \/ HasV(o.out[s], v) => HasV(req'[s], v)
    <2>1. req[s] \in Seq(Msg) /\ o.out[s] \in Seq(Msg) /\ req'[s] = req[s] \o o.out[s]
      BY <1>1 DEF Types, Become, Shape
    <2>2. Joined(req[s], o.out[s], req'[s])
      BY <2>1, Concat
    <2>3. /\ \A i \in DOMAIN req[s] : i \in DOMAIN req'[s] /\ req'[s][i] = req[s][i]
          /\ \A i \in DOMAIN o.out[s] : \E j \in DOMAIN req'[s] : req'[s][j] = o.out[s][i]
      BY <2>2 DEF Joined
    <2> QED BY <2>3 DEF HasKind, HasV
  <1>9. ASSUME NEW s \in Svc
        PROVE  /\ s \in g["vol"] \/ HasKind(o.out[s], "vol") => s \in h["vol"]
               /\ s \in g["pull"] \/ HasKind(o.out[s], "pull") => s \in h["pull"]
               /\ \A k \in {"close", "abort"} : s \in g[k] \/ HasKind(o.out[s], k) => s \in h[k]
               /\ \A v : v \in g.dmt[s] \/ HasV(o.out[s], v) => v \in h.dmt[s]
    <2>1. /\ s \in g["vol"] <=>
                HasKind(req[s], "vol") \/ HasVol(ans'[s]) \/ \E m \in lost' : m.svc = s /\ m.kind = "vol"
          /\ s \in g["pull"] <=>
                \/ \E x \in pulls' : x.dm = s
                \/ HasKind(req[s], "pull") \/ HasKind(ans'[s], "pull") \/ \E m \in lost' : m.svc = s /\ m.kind = "pull"
          /\ \A k \in {"close", "abort"} : s \in g[k] <=>
                HasKind(req[s], k) \/ HasKind(ans'[s], k) \/ \E m \in lost' : m.svc = s /\ m.kind = k
          /\ \A v : v \in g.dmt[s] <=> HasV(req[s], v) \/ HasV(ans'[s], v) \/ LostV(lost', s, v)
      BY PendingMembers
    <2>2. /\ s \in h["vol"] <=>
                HasKind(req'[s], "vol") \/ HasVol(ans'[s]) \/ \E m \in lost' : m.svc = s /\ m.kind = "vol"
          /\ s \in h["pull"] <=>
                \/ \E x \in pulls' : x.dm = s
                \/ HasKind(req'[s], "pull") \/ HasKind(ans'[s], "pull") \/ \E m \in lost' : m.svc = s /\ m.kind = "pull"
          /\ \A k \in {"close", "abort"} : s \in h[k] <=>
                HasKind(req'[s], k) \/ HasKind(ans'[s], k) \/ \E m \in lost' : m.svc = s /\ m.kind = k
          /\ \A v : v \in h.dmt[s] <=> HasV(req'[s], v) \/ HasV(ans'[s], v) \/ LostV(lost', s, v)
      BY <1>7, PendingMembers
    <2> QED BY <1>8, <2>1, <2>2
  <1>10. Clients \subseteq Svc
    BY DEF Clients, Svc
  <1>11. Covers(o, g, p, h)
    <2>1. \A v : DueV(o, g, v) \subseteq DueV(p, h, v)
      BY <1>9 DEF DueV
    <2>2. DueAny(o, g) \subseteq DueAny(p, h)
      <3>1. ASSUME NEW s \in Clients, HasKind(o.out[s], "dmt") PROVE h.dmt[s] # {}
        <4>1. PICK i \in DOMAIN o.out[s] : o.out[s][i].kind = "dmt"
          BY <3>1 DEF HasKind
        <4>2. HasV(o.out[s], o.out[s][i].dmt.ver)
          BY <4>1 DEF HasV, IsV
        <4> QED BY <1>9, <1>10, <4>2
      <3>2. ASSUME NEW s \in Clients, g.dmt[s] # {} PROVE h.dmt[s] # {}
        BY <1>9, <1>10, <3>2
      <3> QED BY <3>1, <3>2 DEF DueAny
    <2>3. /\ Due(o, g, "vol") \subseteq Due(p, h, "vol") /\ Due(o, g, "pull") \subseteq Due(p, h, "pull")
          /\ Due(o, g, "close") \subseteq Due(p, h, "close") /\ Due(o, g, "abort") \subseteq Due(p, h, "abort")
      BY <1>9 DEF Due
    <2> QED BY <2>1, <2>2, <2>3 DEF Covers
  <1>12. Live(p, h)
    BY <1>3, <1>5, <1>6, <1>11, CoversLive
  <1> QED BY <1>1, <1>12 DEF h, Live, Fit, Forward, Recovers, Shape

-----------------------------------------------------------------------------
(* The handlers of the OM *)

(* An event that is no answer to a recovery, processed to its end. *)
LEMMA EventLive ==
    ASSUME NEW o, Fit(o), NEW e \in Event, e.k # "timeout", NEW g, NEW z \in BOOLEAN,
           NEW a \in {0, 1}, NEW b \in {0, 1}, Forward(o, g, e, z), Recovers(o, g, a, b)
    PROVE  /\ Lively(Process(o, e), g, z, a, b)
           /\ e.k = "volNone" => Lively(Process(o, e), g, FALSE, a, b)
  BY DispatchLive, ProcessLive

(* An event of which nobody's answer depends. *)
LEMMA PlainLive ==
    ASSUME NEW o, NEW g, Live(o, g), NEW s \in Svc \cup {0}, NEW k \in {"up", "deploy", "volNone"}
    PROVE  Live(Process(o, Evt(k, s)), g)
  <1> DEFINE e == Evt(k, s)
  <1>1. e \in Event /\ e.k # "timeout"
    BY EvtStale DEF Evt
  <1> HIDE DEF e
  <1>2. Forward(o, g, e, FALSE)
    BY CountedForward DEF Live
  <1>3. Lively(Process(o, e), g, FALSE, 0, 0)
    BY <1>1, <1>2, EventLive DEF Live
  <1> QED BY <1>3 DEF Lively, Live, e

(* om_dmt_update_cluster *)
LEMMA UpdateClusterLive ==
    ASSUME NEW o, NEW g, Live(o, g)
    PROVE  Live(UpdateCluster(o), g)
  <1> DEFINE p == Process(o, Evt("deploy", 0))
  <1>1. Live(p, g)
    BY PlainLive
  <1> HIDE DEF p
  <1>2. Live(Process(p, Evt("volNone", 0)), g)
    BY <1>1, PlainLive
  <1> QED BY <1>2 DEF UpdateCluster, p

(* All that was pending still is, but the request of kind k (for the table   *)
(* of version v) that service s has answered                                 *)
Consumed(G, g, s, k, v) ==
    /\ \A j \in {"vol", "pull", "close", "abort"} : \A x \in Svc : x \in G[j] => x \in g[j] \/ (j = k /\ x = s)
    /\ \A x \in Svc : \A w : w \in G.dmt[x] => w \in g.dmt[x] \/ (k = "dmt" /\ x = s /\ w = v)

(* e is the event that the answer of s raises when all went well *)
Announces(e, s, k, v) ==
    /\ k = "vol" => e.k = "volAck" /\ e.svc = s
    /\ k = "pull" => e.k = "pushMeta" /\ e.svc = s
    /\ k = "dmt" => e.k = "commitAck" /\ e.svc = s /\ e.ver = v
    /\ k = "close" => e.k = "closeOk"

(* The answer that is not pending any more is the one the event counts. *)
LEMMA ConsumedForward ==
    ASSUME NEW o, NEW G, Live(o, G), NEW g, NEW s \in Svc, NEW k, NEW v, Consumed(G, g, s, k, v),
           NEW e, Announces(e, s, k, v)
    PROVE  Forward(o, g, e, FALSE)
  <1> DEFINE c == o.committed.ver
             D == Cardinality(DueV(o, G, c) \cap DM)
             E == Cardinality(DueV(o, g, c) \cap DM)
             C == Cardinality(DueV(o, G, c) \cap Clients)
             B == Cardinality(DueV(o, g, c) \cap Clients)
             L == Cardinality(Due(o, G, "close"))
             M == Cardinality(Due(o, g, "close"))
  <1>1. /\ D \in Nat /\ E \in Nat /\ C \in Nat /\ B \in Nat /\ L \in Nat /\ M \in Nat
        /\ o.commitAcks \in Nat /\ o.closeAcks \in Nat
    BY DueTypes DEF Live, Fit, Shape
  <1>2. /\ AckV(None, DM, c) = 0 /\ AckV(None, Clients, c) = 0 /\ AckClose(None) = 0 /\ None.k = "none"
        /\ AckV(e, DM, c) \in {0, 1} /\ AckV(e, Clients, c) \in {0, 1} /\ AckClose(e) \in {0, 1}
    BY AckTypes
  <1>3. ASSUME NEW S, S \subseteq Svc
        PROVE  Cardinality(DueV(o, G, c) \cap S) <= Cardinality(DueV(o, g, c) \cap S) + AckV(e, S, c)
    <2> DEFINE T == DueV(o, G, c) \cap S
               R == DueV(o, g, c) \cap S
    <2>1. T \subseteq Svc /\ R \subseteq Svc
      BY DEF DueV
    <2>2. CASE k = "dmt" /\ s \in S /\ v = c
      <3>1. T \subseteq R \cup {s}
        BY DEF DueV, Consumed
      <3>2. AckV(e, S, c) = 1
        BY <2>2 DEF AckV, Announces
      <3> HIDE DEF T, R
      <3>3. Cardinality(T) <= Cardinality(R) + 1
        BY <2>1, <3>1, CountBut
      <3> QED BY <3>2, <3>3 DEF T, R
    <2>3. CASE ~(k = "dmt" /\ s \in S /\ v = c)
      <3>1. T \subseteq R
        BY <2>3 DEF DueV, Consumed
      <3>2. AckV(e, S, c) \in {0, 1}
        BY AckTypes
      <3> HIDE DEF T, R
      <3>3. Cardinality(T) \in Nat /\ Cardinality(R) \in Nat /\ Cardinality(T) <= Cardinality(R)
        BY <2>1, <3>1, CountSvc
      <3>4. Cardinality(T) <= Cardinality(R) + AckV(e, S, c)
        BY <3>2, <3>3
      <3> QED BY <3>4 DEF T, R
    <2> QED BY <2>2, <2>3
  <1>4. DM \subseteq Svc /\ Clients \subseteq Svc
    BY DEF Svc, Clients
  <1>5. D <= E + AckV(e, DM, c) /\ C <= B + AckV(e, Clients, c)
    BY <1>3, <1>4
  <1>6. L <= M + AckClose(e)
    <2> DEFINE T == Due(o, G, "close")
               R == Due(o, g, "close")
    <2>1. T \subseteq Svc /\ R \subseteq Svc
      BY DEF Due
    <2>2. CASE k = "close"
      <3>1. T \subseteq R \cup {s}
        BY DEF Due, Consumed
      <3>2. AckClose(e) = 1
        BY <2>2 DEF AckClose, Announces
      <3> HIDE DEF T, R
      <3>3. Cardinality(T) <= Cardinality(R) + 1
        BY <2>1, <3>1, CountBut
      <3> QED BY <3>2, <3>3 DEF T, R
    <2>3. CASE k # "close"
      <3>1. T \subseteq R
        BY <2>3 DEF Due, Consumed
      <3> HIDE DEF T, R
      <3>2. Cardinality(T) \in Nat /\ Cardinality(R) \in Nat /\ Cardinality(T) <= Cardinality(R)
        BY <2>1, <3>1, CountSvc
      <3>3. Cardinality(T) <= Cardinality(R) + AckClose(e)
        BY <1>2, <3>2
      <3> QED BY <3>3 DEF T, R
    <2> QED BY <2>2, <2>3
  <1>7. \A d \in Svc : d \in Due(o, G, "vol") => d \in Due(o, g, "vol") \/ (e.k = "volAck" /\ d = e.svc)
    BY DEF Due, Consumed, Announces
  <1>8. \A d \in Svc : d \in Due(o, G, "pull") => d \in Due(o, g, "pull") \/ (e.k = "pushMeta" /\ d = e.svc)
    BY DEF Due, Consumed, Announces
  <1>9. \A j : Due(o, G, j) \subseteq Svc
    BY DEF Due
  <1> HIDE DEF D, E, C, B, L, M, c
  <1>10. /\ o.commitAcks <= D + 0 => o.commitAcks <= E + AckV(e, DM, c)
         /\ o.commitAcks <= C + 0 => o.commitAcks <= B + AckV(e, Clients, c)
         /\ o.closeAcks <= L + 0 => o.closeAcks <= M + AckClose(e)
    BY <1>1, <1>2, <1>5, <1>6
  <1> SUFFICES ASSUME o.err = "AllOk"
               PROVE  /\ o.rollbackAcks = 0
                      /\ o.st = "Waiting" => o.wait = TRUE
                      /\ o.st = "Rebalance" =>
                           /\ FALSE \/ o.volAcks # {}
                           /\ \A d \in o.volAcks : d \in o.agents /\ (d \in Due(o, g, "vol") \/ (e.k = "volAck" /\ d = e.svc))
                      /\ o.st = "Commit" =>
                           /\ o.pullAcks # {}
                           /\ \A d \in o.pullAcks : d \in Due(o, g, "pull") \/ (e.k = "pushMeta" /\ d = e.svc)
                      /\ o.st = "BcastAM" => 0 < o.commitAcks /\ o.commitAcks <= E + AckV(e, DM, c)
                      /\ o.st = "Close" => 0 < o.commitAcks /\ o.commitAcks <= B + AckV(e, Clients, c)
                      /\ o.st = "Done" => 0 < o.closeAcks /\ o.closeAcks <= M + AckClose(e)
    BY DEF Forward, E, B, M, c
  <1>11. /\ o.rollbackAcks = 0
         /\ o.st = "Waiting" => o.wait = TRUE
         /\ o.st = "Rebalance" =>
              /\ o.volAcks # {}
              /\ \A d \in o.volAcks : d \in o.agents /\ d \in Due(o, G, "vol")
         /\ o.st = "Commit" =>
              /\ o.pullAcks # {}
              /\ \A d \in o.pullAcks : d \in Due(o, G, "pull")
         /\ o.st = "BcastAM" => 0 < o.commitAcks /\ o.commitAcks <= D + 0
         /\ o.st = "Close" => 0 < o.commitAcks /\ o.commitAcks <= C + 0
         /\ o.st = "Done" => 0 < o.closeAcks /\ o.closeAcks <= L + 0
    BY <1>2 DEF Live, Forward, D, C, L, c
  <1> QED BY <1>7, <1>8, <1>9, <1>10, <1>11

(* The same for the answers that DST_Error counts. *)
LEMMA ConsumedRecovers ==
    ASSUME NEW o, NEW G, Live(o, G), NEW g, NEW s \in Svc, NEW k, NEW v, Consumed(G, g, s, k, v)
    PROVE  Recovers(o, g, IF k = "abort" THEN 1 ELSE 0, IF k = "dmt" THEN 1 ELSE 0)
  <1> DEFINE a == IF k = "abort" THEN 1 ELSE 0
             b == IF k = "dmt" THEN 1 ELSE 0
             A == Cardinality(Due(o, G, "abort"))
             X == Cardinality(Due(o, g, "abort"))
             B == Cardinality(DueAny(o, G))
             Y == Cardinality(DueAny(o, g))
  <1>1. /\ A \in Nat /\ B \in Nat /\ X \in Nat /\ Y \in Nat
        /\ o.abortAcks \in Nat /\ o.rollbackAcks \in Nat
    BY DueTypes DEF Live, Fit
  <1>2. A <= X + a
    <2> DEFINE T == Due(o, G, "abort")
               R == Due(o, g, "abort")
    <2>1. T \subseteq Svc /\ R \subseteq Svc
      BY DEF Due
    <2>2. CASE k = "abort"
      <3>1. T \subseteq R \cup {s}
        BY DEF Due, Consumed
      <3> HIDE DEF T, R
      <3>2. Cardinality(T) <= Cardinality(R) + 1
        BY <2>1, <3>1, CountBut
      <3> QED BY <2>2, <3>2 DEF T, R
    <2>3. CASE k # "abort"
      <3>1. T \subseteq R
        BY <2>3 DEF Due, Consumed
      <3> HIDE DEF T, R
      <3>2. Cardinality(T) \in Nat /\ Cardinality(R) \in Nat /\ Cardinality(T) <= Cardinality(R)
        BY <2>1, <3>1, CountSvc
      <3>3. Cardinality(T) <= Cardinality(R) + 0
        BY <3>2
      <3> QED BY <2>3, <3>3 DEF T, R
    <2> QED BY <2>2, <2>3
  <1>3. B <= Y + b
    <2> DEFINE T == DueAny(o, G)
               R == DueAny(o, g)
    <2>1. T \subseteq Svc /\ R \subseteq Svc /\ Clients \subseteq Svc
      BY DEF DueAny, Clients, Svc
    <2>2. CASE k = "dmt"
      <3>1. T \subseteq R \cup {s}
        BY <2>1 DEF DueAny, Consumed
      <3> HIDE DEF T, R
      <3>2. Cardinality(T) <= Cardinality(R) + 1
        BY <2>1, <3>1, CountBut
      <3> QED BY <2>2, <3>2 DEF T, R
    <2>3. CASE k # "dmt"
      <3>1. T \subseteq R
        BY <2>1, <2>3 DEF DueAny, Consumed
      <3> HIDE DEF T, R
      <3>2. Cardinality(T) \in Nat /\ Cardinality(R) \in Nat /\ Cardinality(T) <= Cardinality(R)
        BY <2>1, <3>1, CountSvc
      <3>3. Cardinality(T) <= Cardinality(R) + 0
        BY <3>2
      <3> QED BY <2>3, <3>3 DEF T, R
    <2> QED BY <2>2, <2>3
  <1>4. a \in {0, 1} /\ b \in {0, 1}
    OBVIOUS
  <1> HIDE DEF a, b, A, B, X, Y
  <1>5. o.err = "Error" => 0 < o.abortAcks + o.rollbackAcks /\ o.abortAcks <= A + 0 /\ o.rollbackAcks <= B + 0
    BY DEF Live, Recovers, A, B
  <1>6. o.err = "Error" => 0 < o.abortAcks + o.rollbackAcks /\ o.abortAcks <= X + a /\ o.rollbackAcks <= Y + b
    BY <1>1, <1>2, <1>3, <1>4, <1>5
  <1> QED BY <1>6 DEF Recovers, X, Y, a, b

(* A response is handled: whatever it says, what the OM waits for next will  *)
(* be answered.  A volume notification that was refused is not waited for.   *)
LEMMA HandledLive ==
    ASSUME NEW s \in Svc, NEW k \in Kinds, NEW v \in Nat, NEW r \in {"ok", "err", "timeout"},
           NEW G, NEW g, Live(om, G), Consumed(G, g, s, IF k = "vol" /\ r = "err" THEN "none" ELSE k, v)
    PROVE  Live(Handled(s, k, v, r), g)
  <1> DEFINE j == IF k = "vol" /\ r = "err" THEN "none" ELSE k
             a == IF j = "abort" THEN 1 ELSE 0
             b == IF j = "dmt" THEN 1 ELSE 0
             ack == [k |-> "commitAck", svc |-> s, ver |-> v]
             cok == [k |-> "closeOk", svc |-> s, ver |-> v]
             va == Evt("volAck", s)
             pm == Evt("pushMeta", s)
             ef == Evt("errorFound", s)
             ra == Recover(TRUE, s, r)
             rc == Recover(FALSE, s, r)
  <1>1. Consumed(G, g, s, j, v)
    OBVIOUS
  <1>2. Fit(om) /\ (om.err = "AllOk" => om.rollbackAcks = 0)
    BY DEF Live, Forward
  <1>3. Recovers(om, g, a, b) /\ a \in {0, 1} /\ b \in {0, 1}
    BY <1>1, ConsumedRecovers
  <1>4. ack \in Event /\ cok \in Event /\ va \in Event /\ pm \in Event
    BY DEF Event, Evt
  <1>5. ack.k # "timeout" /\ cok.k # "timeout" /\ va.k # "timeout" /\ pm.k # "timeout"
    BY DEF Evt
  <1>6. ra \in Recovery /\ rc \in Recovery /\ ra.abort = TRUE /\ rc.abort = FALSE
    BY DEF Recovery, Recover
  <1>7. Announces(ack, s, "dmt", v) /\ Announces(cok, s, "close", v)
        /\ Announces(va, s, "vol", v) /\ Announces(pm, s, "pull", v)
    BY DEF Announces, Evt
  <1>8. Lively(Process(om, ef), g, FALSE, a, b)
    <2>1. Lively(Dispatch(om, ef), g, FALSE, a, b)
      BY <1>2, <1>3, DispatchError
    <2> HIDE DEF a, b, ef
    <2> QED BY <1>3, <2>1, ProcessLive
  <1> HIDE DEF ra, rc, ack, cok, va, pm, ef
  <1>9. CASE k = "vol" /\ r # "err"
    <2>1. Forward(om, g, va, FALSE)
      BY <1>1, <1>7, <1>9, ConsumedForward
    <2>2. Lively(Process(om, va), g, FALSE, 0, 0)
      BY <1>2, <1>3, <1>4, <1>5, <1>9, <2>1, EventLive
    <2> QED BY <1>9, <2>2 DEF Handled, VolCmdResp, va, Lively, Live
  <1>10. CASE k = "vol" /\ r = "err"
    <2>1. Announces(None, s, "none", v)
      BY DEF Announces
    <2>2. Forward(om, g, None, FALSE)
      BY <1>1, <1>10, <2>1, ConsumedForward
    <2>3. Recovers(om, g, 0, 0)
      BY <1>3, <1>10
    <2> QED BY <1>2, <1>10, <2>2, <2>3 DEF Handled, VolCmdResp, Live
  <1>11. CASE k = "pull"
    <2>1. Forward(om, g, pm, FALSE)
      BY <1>1, <1>7, <1>11, ConsumedForward
    <2>2. Lively(Process(om, pm), g, FALSE, 0, 0)
      BY <1>2, <1>3, <1>4, <1>5, <1>11, <2>1, EventLive
    <2>3. Lively(Process(om, ef), g, FALSE, 0, 0)
      BY <1>8, <1>11
    <2>4. Handled(s, k, v, r) = IF r = "ok" THEN Process(om, pm) ELSE Process(om, ef)
      BY <1>11 DEF Handled, pm, ef
    <2> QED BY <2>2, <2>3, <2>4 DEF Lively, Live
  <1>12. CASE k = "dmt"
    <2> DEFINE x == IF r = "ok" \/ (r = "timeout" /\ s \notin DM) THEN ack ELSE ef
               p == Process(om, x)
    <2>1. Forward(om, g, ack, FALSE)
      BY <1>1, <1>7, <1>12, ConsumedForward
    <2>2. Lively(Process(om, ack), g, FALSE, 0, 1)
      BY <1>2, <1>3, <1>4, <1>5, <1>12, <2>1, EventLive
    <2>3. Lively(Process(om, ef), g, FALSE, 0, 1)
      BY <1>8, <1>12
    <2>4. Lively(p, g, FALSE, 0, 1)
      BY <2>2, <2>3
    <2> HIDE DEF p
    <2>5. Lively(Dispatch(p, rc), g, FALSE, 0, 0)
      BY <1>6, <2>4, DispatchRecovery
    <2>6. Lively(Process(p, rc), g, FALSE, 0, 0)
      BY <2>5, ProcessLive
    <2>7. Handled(s, k, v, r) = Process(p, rc)
      BY <1>12 DEF Handled, p, ack, ef, rc
    <2> QED BY <2>6, <2>7 DEF Lively, Live
  <1>13. CASE k = "close"
    <2>1. Forward(om, g, cok, FALSE)
      BY <1>1, <1>7, <1>13, ConsumedForward
    <2>2. Lively(Process(om, cok), g, FALSE, 0, 0)
      BY <1>2, <1>3, <1>4, <1>5, <1>13, <2>1, EventLive
    <2>3. Lively(Process(om, ef), g, FALSE, 0, 0)
      BY <1>8, <1>13
    <2>4. Handled(s, k, v, r) = IF r = "ok" THEN Process(om, cok) ELSE Process(om, ef)
      BY <1>13 DEF Handled, cok, ef
    <2> QED BY <2>2, <2>3, <2>4 DEF Lively, Live
  <1>14. CASE k = "abort"
    <2>1. Announces(None, s, "abort", v)
      BY DEF Announces
    <2>2. Forward(om, g, None, FALSE)
      BY <1>1, <1>14, <2>1, ConsumedForward
    <2>3. Lively(om, g, FALSE, 1, 0)
      BY <1>2, <1>3, <1>14, <2>2 DEF Lively
    <2>4. Lively(Dispatch(om, ra), g, FALSE, 0, 0)
      BY <1>6, <2>3, DispatchRecovery
    <2>5. Lively(Process(om, ra), g, FALSE, 0, 0)
      BY <2>4, ProcessLive
    <2> QED BY <1>14, <2>5 DEF Handled, ra, Lively, Live
  <1> QED BY <1>9, <1>10, <1>11, <1>12, <1>13, <1>14 DEF Kinds

(* The answer at the head of a queue is consumed. *)
LEMMA HandleAnswerLive ==
    ASSUME Types, Live(om, Awaited), NEW s \in Svc, HandleAnswer(s)
    PROVE  Live(om, Awaited)'
  <1> DEFINE m == Head(ans[s])
             q == Tail(ans[s])
             G == Awaited
             g == Pending(req, ans', lost', pulls')
             z == Handled(s, m.kind, m.dmt.ver, m.res)
             j == IF m.kind = "vol" /\ m.res = "err" THEN "none" ELSE m.kind
  <1>1. ans[s] \in Seq(Ack) /\ ans \in [Svc -> Seq(Ack)]
    BY DEF Types
  <1>2. /\ ans[s] # <<>> /\ ans' = [ans EXCEPT ![s] = q] /\ Become(z)
        /\ UNCHANGED <<reg, pulls, lost>>
    BY DEF HandleAnswer
  <1>3. /\ m \in Ack
        /\ \A i \in DOMAIN ans[s] : ans[s][i] = m \/ \E l \in DOMAIN q : q[l] = ans[s][i]
    <2> DEFINE n == Len(ans[s])
    <2>1. n \in Nat /\ n # 0 /\ DOMAIN ans[s] = 1 .. n /\ m = ans[s][1] /\ \A i \in 1 .. n : ans[s][i] \in Ack
      BY <1>1, <1>2
    <2>2. DOMAIN q = 1 .. (n - 1) /\ \A i \in 1 .. (n - 1) : q[i] = ans[s][i + 1]
      BY <1>1, <1>2
    <2> HIDE DEF n, q, m
    <2>3. \A i \in 1 .. n : i = 1 \/ (i - 1 \in 1 .. (n - 1) /\ (i - 1) + 1 = i)
      BY <2>1
    <2>4. 1 \in 1 .. n
      BY <2>1
    <2>5. m \in Ack
      BY <2>1, <2>4
    <2>6. ASSUME NEW i \in 1 .. n, i # 1 PROVE i - 1 \in DOMAIN q /\ q[i - 1] = ans[s][i]
      BY <2>2, <2>3, <2>6
    <2> QED BY <2>1, <2>5, <2>6
  <1>4. \A x \in Svc : ans'[x] = IF x = s THEN q ELSE ans[x]
    BY <1>1, <1>2
  <1>5. m.kind \in Kinds /\ m.dmt.ver \in Nat /\ m.res \in {"ok", "err", "timeout"}
    BY <1>3 DEF Ack, Dmt
  <1> HIDE DEF m, q, z
  <1>6. ASSUME NEW x \in Svc, NEW i \in DOMAIN ans[x]
        PROVE  (x = s /\ ans[x][i] = m) \/ \E l \in DOMAIN ans'[x] : ans'[x][l] = ans[x][i]
    BY <1>3, <1>4
  <1>7. Consumed(G, g, s, j, m.dmt.ver)
    <2>1. ASSUME NEW x \in Svc
          PROVE  /\ x \in G["vol"] => x \in g["vol"] \/ (j = "vol" /\ x = s)
                 /\ x \in G["pull"] => x \in g["pull"] \/ (j = "pull" /\ x = s)
                 /\ \A k \in {"close", "abort"} : x \in G[k] => x \in g[k] \/ (j = k /\ x = s)
                 /\ \A w : w \in G.dmt[x] => w \in g.dmt[x] \/ (j = "dmt" /\ x = s /\ w = m.dmt.ver)
      <3>1. /\ x \in G["vol"] <=>
                  HasKind(req[x], "vol") \/ HasVol(ans[x]) \/ \E y \in lost : y.svc = x /\ y.kind = "vol"
            /\ x \in G["pull"] <=>
                  \/ \E p \in pulls : p.dm = x
                  \/ HasKind(req[x], "pull") \/ HasKind(ans[x], "pull") \/ \E y \in lost : y.svc = x /\ y.kind = "pull"
            /\ \A k \in {"close", "abort"} : x \in G[k] <=>
                  HasKind(req[x], k) \/ HasKind(ans[x], k) \/ \E y \in lost : y.svc = x /\ y.kind = k
            /\ \A v : v \in G.dmt[x] <=> HasV(req[x], v) \/ HasV(ans[x], v) \/ LostV(lost, x, v)
        BY PendingMembers DEF Awaited
      <3>2. /\ x \in g["vol"] <=>
                  HasKind(req[x], "vol") \/ HasVol(ans'[x]) \/ \E y \in lost' : y.svc = x /\ y.kind = "vol"
            /\ x \in g["pull"] <=>
                  \/ \E p \in pulls' : p.dm = x
                  \/ HasKind(req[x], "pull") \/ HasKind(ans'[x], "pull") \/ \E y \in lost' : y.svc = x /\ y.kind = "pull"
            /\ \A k \in {"close", "abort"} : x \in g[k] <=>
                  HasKind(req[x], k) \/ HasKind(ans'[x], k) \/ \E y \in lost' : y.svc = x /\ y.kind = k
            /\ \A v : v \in g.dmt[x] <=> HasV(req[x], v) \/ HasV(ans'[x], v) \/ LostV(lost', x, v)
        BY PendingMembers
      <3> HIDE DEF G, g
      <3>3. /\ \A k : HasKind(ans[x], k) => HasKind(ans'[x], k) \/ (m.kind = k /\ x = s)
            /\ \A v : HasV(ans[x], v) => HasV(ans'[x], v) \/ (m.kind = "dmt" /\ x = s /\ v = m.dmt.ver)
            /\ HasVol(ans[x]) => HasVol(ans'[x]) \/ (m.kind = "vol" /\ m.res # "err" /\ x = s)
        BY <1>6 DEF HasKind, HasVol, HasV, IsV
      <3> QED BY <1>2, <3>1, <3>2, <3>3
    <2> HIDE DEF G, g, j
    <2> QED BY <2>1 DEF Consumed
  <1>8. Live(z, g)
    BY <1>5, <1>7, HandledLive DEF z
  <1> QED BY <1>2, <1>8, BecomeLive

(* A request is timed out. *)
LEMMA RequestTimeoutLive ==
    ASSUME Types, Live(om, Awaited), NEW m \in lost, RequestTimeout(m)
    PROVE  Live(om, Awaited)'
  <1> DEFINE s == m.svc
             G == Awaited
             g == Pending(req, ans', lost', pulls')
             z == Handled(s, m.kind, m.dmt.ver, "timeout")
             j == IF m.kind = "vol" /\ "timeout" = "err" THEN "none" ELSE m.kind
  <1>1. s \in Svc /\ m.kind \in Kinds /\ m.dmt.ver \in Nat
    BY DEF Types, Dmt
  <1>2. lost' = lost \ {m} /\ Become(z) /\ UNCHANGED <<reg, ans, pulls>>
    BY DEF RequestTimeout
  <1> HIDE DEF z
  <1>3. Consumed(G, g, s, j, m.dmt.ver)
    <2>1. ASSUME NEW x \in Svc
          PROVE  /\ x \in G["vol"] => x \in g["vol"] \/ (j = "vol" /\ x = s)
                 /\ x \in G["pull"] => x \in g["pull"] \/ (j = "pull" /\ x = s)
                 /\ \A k \in {"close", "abort"} : x \in G[k] => x \in g[k] \/ (j = k /\ x = s)
                 /\ \A w : w \in G.dmt[x] => w \in g.dmt[x] \/ (j = "dmt" /\ x = s /\ w = m.dmt.ver)
      <3>1. /\ x \in G["vol"] <=>
                  HasKind(req[x], "vol") \/ HasVol(ans[x]) \/ \E y \in lost : y.svc = x /\ y.kind = "vol"
            /\ x \in G["pull"] <=>
                  \/ \E p \in pulls : p.dm = x
                  \/ HasKind(req[x], "pull") \/ HasKind(ans[x], "pull") \/ \E y \in lost : y.svc = x /\ y.kind = "pull"
            /\ \A k \in {"close", "abort"} : x \in G[k] <=>
                  HasKind(req[x], k) \/ HasKind(ans[x], k) \/ \E y \in lost : y.svc = x /\ y.kind = k
            /\ \A v : v \in G.dmt[x] <=> HasV(req[x], v) \/ HasV(ans[x], v) \/ LostV(lost, x, v)
        BY PendingMembers DEF Awaited
      <3>2. /\ x \in g["vol"] <=>
                  HasKind(req[x], "vol") \/ HasVol(ans'[x]) \/ \E y \in lost' : y.svc = x /\ y.kind = "vol"
            /\ x \in g["pull"] <=>
                  \/ \E p \in pulls' : p.dm = x
                  \/ HasKind(req[x], "pull") \/ HasKind(ans'[x], "pull") \/ \E y \in lost' : y.svc = x /\ y.kind = "pull"
            /\ \A k \in {"close", "abort"} : x \in g[k] <=>
                  HasKind(req[x], k) \/ HasKind(ans'[x], k) \/ \E y \in lost' : y.svc = x /\ y.kind = k
            /\ \A v : v \in g.dmt[x] <=> HasV(req[x], v) \/ HasV(ans'[x], v) \/ LostV(lost', x, v)
        BY PendingMembers
      <3> HIDE DEF G, g
      <3>3. /\ \A k : (\E y \in lost : y.svc = x /\ y.kind = k)
                        => (\E y \in lost' : y.svc = x /\ y.kind = k) \/ (m.kind = k /\ x = s)
            /\ \A v : LostV(lost, x, v) => LostV(lost', x, v) \/ (m.kind = "dmt" /\ x = s /\ v = m.dmt.ver)
        BY <1>2 DEF LostV, IsV
      <3> QED BY <1>2, <3>1, <3>2, <3>3
    <2> HIDE DEF G, g, j
    <2> QED BY <2>1 DEF Consumed
  <1>4. Live(z, g)
    BY <1>1, <1>3, HandledLive DEF z
  <1> QED BY <1>2, <1>4, BecomeLive

(* Fields that nobody waits for may change. *)
LEMMA TouchLive ==
    ASSUME NEW o, NEW g, Live(o, g), NEW p, Shape(p), o.agents \subseteq p.agents,
           \A f \in Fields \ {"agents", "pendUp", "pendResync", "retry"} : p[f] = o[f]
    PROVE  Live(p, g)
  <1>1. /\ p.closeAcks = o.closeAcks /\ p.abortAcks = o.abortAcks
        /\ p.rollbackAcks = o.rollbackAcks /\ p.deferred = o.deferred /\ p.out = o.out
    BY DEF Fields
  <1>2. Fit(p)
    BY <1>1 DEF Live, Fit
  <1>3. Covers(o, g, p, g)
    BY <1>1, SameDue DEF Covers
  <1> QED BY <1>2, <1>3, CoversLive

(* RetryTimerTask *)
LEMMA RetryTimerLive ==
    ASSUME Types, Live(om, Awaited), RetryTimer
    PROVE  Live(om, Awaited)'
  <1> DEFINE g == Pending(req, ans', lost', pulls')
             o == [om EXCEPT !.retry = FALSE]
             z == UpdateCluster(o)
  <1>1. Become(z) /\ UNCHANGED <<reg, ans, pulls, lost>>
    BY DEF RetryTimer
  <1>2. g = Awaited
    BY <1>1 DEF Awaited
  <1>3. Shape(om)
    BY DEF Types
  <1>4. Shape(o) /\ o.agents = om.agents /\ \A f \in Fields \ {"retry"} : o[f] = om[f]
    BY <1>3 DEF Shape, Fields
  <1> HIDE DEF o, g
  <1>5. Live(o, g)
    BY <1>2, <1>4, TouchLive
  <1>6. Live(z, g)
    BY <1>5, UpdateClusterLive
  <1> HIDE DEF z
  <1> QED BY <1>1, <1>6, BecomeLive DEF g

(* WaitingTimerTask: the volume ack of nobody follows, so the rebalancing    *)
(* that waits for nobody goes on.                                            *)
LEMMA WaitingTimerLive ==
    ASSUME Types, Live(om, Awaited), WaitingTimer
    PROVE  Live(om, Awaited)'
  <1> DEFINE g == Pending(req, ans', lost', pulls')
             o == [om EXCEPT !.wait = FALSE]
             p == Process(o, Evt("timeout", 0))
             e == Evt("volNone", 0)
             z == Process(p, e)
  <1>1. Become(z) /\ UNCHANGED <<reg, ans, pulls, lost>>
    BY DEF WaitingTimer
  <1>2. g = Awaited
    BY <1>1 DEF Awaited
  <1>3. Shape(om)
    BY DEF Types
  <1>4. Shape(o)
    BY <1>3 DEF Shape, Fields
  <1>5. /\ o.st = om.st /\ o.err = om.err /\ o.agents = om.agents /\ o.closeAcks = om.closeAcks
        /\ o.abortAcks = om.abortAcks /\ o.rollbackAcks = om.rollbackAcks /\ o.out = om.out
        /\ o.volAcks = om.volAcks /\ o.pullAcks = om.pullAcks /\ o.commitAcks = om.commitAcks
        /\ o.committed = om.committed /\ o.deferred = om.deferred
    BY <1>3 DEF Shape, Fields
  <1> HIDE DEF o, g
  <1>6. Fit(o)
    BY <1>4, <1>5 DEF Fit, Live
  <1>7. o.out = om.out
    BY <1>5
  <1>8. /\ \A k : Due(o, g, k) = Due(om, g, k)
        /\ \A v : DueV(o, g, v) = DueV(om, g, v)
    BY <1>7 DEF Due, DueV
  <1>9. DueAny(o, g) = DueAny(om, g)
    BY <1>7 DEF DueAny
  <1>10. Recovers(o, g, 0, 0) /\ (o.err = "AllOk" => o.rollbackAcks = 0)
    BY <1>2, <1>5, <1>8, <1>9 DEF Live, Recovers, Forward
  <1>11. ~(o.st = "Waiting" /\ o.err = "AllOk") => Forward(o, g, None, FALSE)
    BY <1>2, <1>5, <1>8 DEF Live, Forward
  <1>12. Lively(Dispatch(o, Evt("timeout", 0)), g, TRUE, 0, 0)
    BY <1>6, <1>10, <1>11, DispatchTimeout
  <1>13. Lively(p, g, TRUE, 0, 0)
    BY <1>12, ProcessLive
  <1>14. e \in Event /\ e.k = "volNone"
    BY EvtStale DEF Evt
  <1> HIDE DEF p, e
  <1>15. Forward(p, g, e, TRUE) /\ Fit(p) /\ Recovers(p, g, 0, 0)
    BY <1>13, CountedForward DEF Lively
  <1>16. Lively(z, g, FALSE, 0, 0)
    BY <1>14, <1>15, EventLive
  <1>17. Live(z, g)
    BY <1>16 DEF Lively, Live
  <1> HIDE DEF z
  <1> QED BY <1>1, <1>17, BecomeLive DEF g

(* setupNewNode: the volumes sent to a DM that registers again are one more  *)
(* notification to be answered, and nothing pending is forgotten.            *)
LEMMA RegisterLive ==
    ASSUME Types, Live(om, Awaited), NEW d \in DM, Register(d)
    PROVE  Live(om, Awaited)'
  <1> DEFINE g == Pending(req, ans', lost', pulls')
             a == [om EXCEPT !.pendResync = @ \cup {d}]
             b == [om EXCEPT !.pendUp = @ \cup {d}, !.agents = @ \cup {d}]
  <1>1. Shape(om) /\ d \in Svc /\ d \in Svc \cup {0}
    BY DEF Types, Svc
  <1>2. UNCHANGED <<ans, pulls, lost>>
    BY DEF Register
  <1>3. g = Awaited
    BY <1>2 DEF Awaited
  <1>5. CASE d \in om.agents
    <2> DEFINE p == Process(a, Evt("up", d))
               u == UpdateCluster(p)
               w == Send(u, {d}, "vol", u.committed)
    <2>1. Shape(a) /\ a.agents = om.agents /\ \A f \in Fields \ {"pendResync"} : a[f] = om[f]
      BY <1>1, <1>5 DEF Shape, Fields
    <2>2. Become(w)
      BY <1>5 DEF Register
    <2> HIDE DEF a, g
    <2>3. Live(a, g)
      BY <1>3, <2>1, TouchLive
    <2>4. Live(p, g)
      BY <1>1, <2>3, PlainLive
    <2> HIDE DEF p
    <2>5. Live(u, g)
      BY <2>4, UpdateClusterLive
    <2> HIDE DEF u
    <2>6. Fit(u) /\ Shape(u) /\ u.committed \in Dmt /\ "vol" \in Kinds /\ {d} \subseteq Svc
      BY <1>1, <2>5 DEF Live, Fit, Shape, Kinds
    <2>7. Fit(w) /\ \A f \in Fields \ {"out"} : w[f] = u[f]
      BY <2>6, SendFit
    <2>8. More(u, w, g)
      BY <2>6, SendDue DEF Asks
    <2>9. w.agents = u.agents
      BY <2>7 DEF Fields
    <2> HIDE DEF w
    <2>10. Covers(u, g, w, g)
      BY <2>8 DEF Covers, More, Kinds
    <2>11. Live(w, g)
      BY <2>5, <2>7, <2>9, <2>10, CoversLive
    <2> QED BY <2>2, <2>11, BecomeLive DEF g
  <1>6. CASE d \notin om.agents
    <2> DEFINE p == Process(b, Evt("up", d))
               u == UpdateCluster(p)
    <2>1. Shape(b) /\ om.agents \subseteq b.agents /\ \A f \in Fields \ {"agents", "pendUp"} : b[f] = om[f]
      BY <1>1 DEF Shape, Fields
    <2>2. Become(u)
      BY <1>6 DEF Register
    <2> HIDE DEF b, g
    <2>3. Live(b, g)
      BY <1>3, <2>1, TouchLive
    <2>4. Live(p, g)
      BY <1>1, <2>3, PlainLive
    <2> HIDE DEF p
    <2>5. Live(u, g)
      BY <2>4, UpdateClusterLive
    <2> HIDE DEF u
    <2> QED BY <2>2, <2>5, BecomeLive DEF g
  <1> QED BY <1>5, <1>6

-----------------------------------------------------------------------------
(* The services *)

(* Every request is where it was, but the one that the service took. *)
LEMMA TakenKeeps ==
    ASSUME IInv, NEW s \in Svc, req[s] # <<>>, Taken(s)
    PROVE  \A x \in Svc : \A i \in DOMAIN req[x] :
              (x = s /\ req[x][i] = Head(req[s])) \/ \E j \in DOMAIN req'[x] : req'[x][j] = req[x][i]
  <1>1. req \in [Svc -> Seq(Msg)]
    BY DEF IInv, Types
  <1>2. Popped(req[s], Tail(req[s])) /\ Head(req[s]) = req[s][1]
    BY HeadMsg
  <1>3. req'[s] = Tail(req[s]) /\ \A x \in Svc \ {s} : req'[x] = req[x]
    BY <1>1 DEF Taken
  <1>4. \A i \in DOMAIN req[s] : req[s][i] = Head(req[s]) \/ \E j \in DOMAIN req'[s] : req'[s][j] = req[s][i]
    <2> SUFFICES ASSUME NEW i \in DOMAIN req[s], i # 1
                 PROVE  \E j \in DOMAIN req'[s] : req'[s][j] = req[s][i]
      BY <1>2
    <2>1. i - 1 \in DOMAIN req'[s] /\ req'[s][i - 1] = req[s][i]
      BY <1>2, <1>3 DEF Popped
    <2> QED BY <2>1
  <1> QED BY <1>3, <1>4

(* Every answer is where it was, and the new one follows. *)
LEMMA AnswerKeeps ==
    ASSUME IInv, NEW s \in Svc, NEW m, m.kind \in Kinds, m.dmt \in Dmt, NEW r \in {"ok", "err"}, Answer(s, m, r)
    PROVE  /\ \A x \in Svc : \A i \in DOMAIN ans[x] : \E j \in DOMAIN ans'[x] : ans'[x][j] = ans[x][i]
           /\ \E j \in DOMAIN ans'[s] : ans'[s][j].kind = m.kind /\ ans'[s][j].dmt = m.dmt /\ ans'[s][j].res = r
  <1> DEFINE x == [kind |-> m.kind, dmt |-> m.dmt, res |-> r]
             n == Len(ans[s])
  <1>1. ans \in [Svc -> Seq(Ack)] /\ ans[s] \in Seq(Ack)
    BY DEF IInv, Types
  <1>2. x \in Ack /\ x.kind = m.kind /\ x.dmt = m.dmt /\ x.res = r
    BY DEF Ack
  <1>3. ans' = [ans EXCEPT ![s] = Append(ans[s], x)]
    BY DEF Answer
  <1> HIDE DEF x
  <1>4. ans'[s] = Append(ans[s], x) /\ \A y \in Svc \ {s} : ans'[y] = ans[y]
    BY <1>1, <1>3
  <1>5. /\ n \in Nat /\ DOMAIN ans[s] = 1 .. n /\ DOMAIN ans'[s] = 1 .. (n + 1)
        /\ ans'[s][n + 1] = x /\ \A i \in 1 .. n : ans'[s][i] = ans[s][i]
    BY <1>1, <1>2, <1>4
  <1> HIDE DEF n
  <1>6. n + 1 \in 1 .. (n + 1) /\ \A i \in 1 .. n : i \in 1 .. (n + 1)
    BY <1>5
  <1>7. \A i \in DOMAIN ans[s] : \E j \in DOMAIN ans'[s] : ans'[s][j] = ans[s][i]
    BY <1>5, <1>6
  <1>8. \E j \in DOMAIN ans'[s] : ans'[s][j] = x
    BY <1>5, <1>6
  <1> QED BY <1>2, <1>4, <1>7, <1>8

(* A request is answered. *)
LEMMA AnswerLive ==
    ASSUME IInv, Live(om, Awaited), NEW s \in Svc, req[s] # <<>>, NEW m, m = Head(req[s]),
           NEW r \in {"ok", "err"}, m.kind = "vol" => r # "err", Taken(s), Answer(s, m, r),
           UNCHANGED <<om, lost>>, \A p \in pulls : \E q \in pulls' : q.dm = p.dm
    PROVE  Live(om, Awaited)'
  <1>1. m.kind \in Kinds /\ m.dmt \in Dmt /\ Types
    BY HeadMsg DEF IInv
  <1>2. /\ \A x \in Svc : \A i \in DOMAIN ans[x] : \E j \in DOMAIN ans'[x] : ans'[x][j] = ans[x][i]
        /\ \E j \in DOMAIN ans'[s] : ans'[s][j].kind = m.kind /\ ans'[s][j].dmt = m.dmt /\ ans'[s][j].res = r
    BY <1>1, AnswerKeeps
  <1>3. ASSUME NEW x \in Svc, NEW i \in DOMAIN req[x] PROVE Passed(x, req[x][i])
    <2>1. (x = s /\ req[x][i] = m) \/ \E j \in DOMAIN req'[x] : req'[x][j] = req[x][i]
      BY TakenKeeps
    <2>2. Passed(s, m)
      BY <1>2 DEF Passed
    <2>3. (\E j \in DOMAIN req'[x] : req'[x][j] = req[x][i]) => Passed(x, req[x][i])
      BY DEF Passed
    <2> QED BY <2>1, <2>2, <2>3
  <1> QED BY <1>1, <1>2, <1>3, ServiceLive

(* DMTManager::add *)
LEMMA UpdateDmtLive ==
    ASSUME IInv, Live(om, Awaited), NEW s \in Svc, UpdateDmt(s)
    PROVE  Live(om, Awaited)'
  <1> DEFINE m == Head(req[s])
  <1>1. /\ req[s] # <<>> /\ m.kind = "dmt" /\ Taken(s) /\ UNCHANGED <<om, reg, pulls, lost>>
    BY DEF UpdateDmt, Arrived
  <1>2. Answer(s, m, "ok")
    BY DEF UpdateDmt
  <1> HIDE DEF m
  <1>3. m = Head(req[s]) /\ \A p \in pulls : \E q \in pulls' : q.dm = p.dm
    BY <1>1 DEF m
  <1> QED BY <1>1, <1>2, <1>3, AnswerLive

(* The volume notification and the close *)
LEMMA AcknowledgeLive ==
    ASSUME IInv, Live(om, Awaited), "add" \notin FaultKinds, NEW d \in DM, Acknowledge(d)
    PROVE  Live(om, Awaited)'
  <1> DEFINE m == Head(req[d])
  <1>1. /\ req[d] # <<>> /\ Taken(d) /\ Answer(d, m, "ok") /\ d \in Svc
        /\ UNCHANGED <<om, reg, pulls, lost>>
    BY DEF Acknowledge, Arrived, Svc
  <1> HIDE DEF m
  <1>2. m = Head(req[d]) /\ \A p \in pulls : \E q \in pulls' : q.dm = p.dm
    BY <1>1 DEF m
  <1> QED BY <1>1, <1>2, AnswerLive

(* A request is lost, or answered with an error by an AM. *)
LEMMA FailLive ==
    ASSUME IInv, Live(om, Awaited), NEW s \in Svc, Fail(s)
    PROVE  Live(om, Awaited)'
  <1> DEFINE m == Head(req[s])
             l == [kind |-> m.kind, dmt |-> m.dmt, svc |-> s, ep |-> m.ep]
  <1>1. /\ req[s] # <<>> /\ Taken(s) /\ UNCHANGED <<om, reg, pulls>> /\ m = Head(req[s])
    BY DEF Fail
  <1>2. \A p \in pulls : \E q \in pulls' : q.dm = p.dm
    BY <1>1
  <1>3. CASE s \in AM /\ m.kind = "dmt" /\ Answer(s, m, "err") /\ UNCHANGED lost
    <2> HIDE DEF m
    <2> QED BY <1>1, <1>2, <1>3, AnswerLive
  <1>4. CASE lost' = lost \cup {l} /\ UNCHANGED ans
    <2>1. l.svc = s /\ l.kind = m.kind /\ l.dmt = m.dmt
      OBVIOUS
    <2> HIDE DEF l, m
    <2>2. l \in lost' /\ lost \subseteq lost' /\ Types
      BY <1>1, <1>4 DEF IInv
    <2>3. ASSUME NEW x \in Svc, NEW i \in DOMAIN req[x] PROVE Passed(x, req[x][i])
      <3>1. (x = s /\ req[x][i] = m) \/ \E j \in DOMAIN req'[x] : req'[x][j] = req[x][i]
        BY <1>1, TakenKeeps
      <3>2. Passed(s, m)
        BY <1>1, <2>1, <2>2 DEF Passed
      <3>3. (\E j \in DOMAIN req'[x] : req'[x][j] = req[x][i]) => Passed(x, req[x][i])
        BY DEF Passed
      <3> QED BY <3>1, <3>2, <3>3
    <2>4. \A x \in Svc : \A i \in DOMAIN ans[x] : \E j \in DOMAIN ans'[x] : ans'[x][j] = ans[x][i]
      BY <1>4
    <2> QED BY <1>1, <1>2, <2>2, <2>3, <2>4, ServiceLive
  <1> QED BY <1>3, <1>4 DEF Fail

(* A pull starts. *)
LEMMA StartPullLive ==
    ASSUME IInv, Live(om, Awaited), NEW d \in DM, StartPull(d)
    PROVE  Live(om, Awaited)'
  <1> DEFINE m == Head(req[d])
             n == [dm |-> d, ep |-> m.ep, aborted |-> FALSE]
  <1>1. /\ req[d] # <<>> /\ m.kind = "pull" /\ Taken(d) /\ UNCHANGED <<om, reg, ans, lost>>
        /\ pulls' = pulls \cup {n} /\ n.dm = d /\ d \in Svc /\ m = Head(req[d])
    BY DEF StartPull, Arrived, Svc
  <1> HIDE DEF m, n
  <1>2. Types /\ lost \subseteq lost'
    BY <1>1 DEF IInv
  <1>3. ASSUME NEW x \in Svc, NEW i \in DOMAIN req[x] PROVE Passed(x, req[x][i])
    <2>1. (x = d /\ req[x][i] = m) \/ \E j \in DOMAIN req'[x] : req'[x][j] = req[x][i]
      BY <1>1, TakenKeeps
    <2>2. Passed(d, m)
      BY <1>1 DEF Passed
    <2>3. (\E j \in DOMAIN req'[x] : req'[x][j] = req[x][i]) => Passed(x, req[x][i])
      BY DEF Passed
    <2> QED BY <2>1, <2>2, <2>3
  <1>4. \A x \in Svc : \A i \in DOMAIN ans[x] : \E j \in DOMAIN ans'[x] : ans'[x][j] = ans[x][i]
    BY <1>1
  <1>5. \A p \in pulls : \E q \in pulls' : q.dm = p.dm
    BY <1>1
  <1> QED BY <1>1, <1>2, <1>3, <1>4, <1>5, ServiceLive

(* A pull ends: it is answered, well or not. *)
LEMMA EndPullLive ==
    ASSUME IInv, Live(om, Awaited), NEW p \in pulls, EndPull(p)
    PROVE  Live(om, Awaited)'
  <1> DEFINE m == Request("pull", NoDmt, p.ep)
             d == p.dm
  <1>1. /\ UNCHANGED <<om, reg, req, lost>> /\ pulls' = pulls \ {p}
        /\ \E r \in {"ok", "err"} : Answer(d, m, r)
    BY DEF EndPull
  <1>2. d \in Svc /\ m.kind = "pull" /\ m.kind \in Kinds /\ m.dmt \in Dmt
    <2>1. d \in DM
      BY SvcTypes
    <2>2. NoDmt \in Dmt
      BY DEF NoDmt, Dmt
    <2> QED BY <2>1, <2>2 DEF Request, Kinds, Svc
  <1> HIDE DEF m, d
  <1>3. PICK r \in {"ok", "err"} : Answer(d, m, r)
    BY <1>1
  <1>4. /\ \A x \in Svc : \A i \in DOMAIN ans[x] : \E j \in DOMAIN ans'[x] : ans'[x][j] = ans[x][i]
        /\ \E j \in DOMAIN ans'[d] : ans'[d][j].kind = "pull"
    BY <1>2, <1>3, AnswerKeeps
  <1>5. \A q \in pulls : (\E y \in pulls' : y.dm = q.dm) \/ \E i \in DOMAIN ans'[q.dm] : ans'[q.dm][i].kind = "pull"
    BY <1>1, <1>4 DEF d
  <1>6. \A x \in Svc : \A i \in DOMAIN req[x] : Passed(x, req[x][i])
    BY <1>1 DEF Passed
  <1>7. Types /\ lost \subseteq lost'
    BY <1>1 DEF IInv
  <1> QED BY <1>1, <1>4, <1>5, <1>6, <1>7, ServiceLive

(* A DM process starts: what it was asked will time out. *)
LEMMA BootLive ==
    ASSUME IInv, Live(om, Awaited), NEW d \in DM, Boot(d, req[d]), UNCHANGED <<om, ans>>
    PROVE  Live(om, Awaited)'
  <1> DEFINE q == req[d]
             L(i) == [kind |-> q[i].kind, dmt |-> q[i].dmt, svc |-> d, ep |-> q[i].ep]
             P(p) == [kind |-> "pull", dmt |-> NoDmt, svc |-> d, ep |-> p.ep]
  <1>1. /\ req' = [req EXCEPT ![d] = <<>>]
        /\ lost' = lost \cup {L(i) : i \in DOMAIN q} \cup {P(p) : p \in {p \in pulls : p.dm = d}}
        /\ pulls' = {p \in pulls : p.dm # d}
    BY DEF Boot
  <1>2. req \in [Svc -> Seq(Msg)] /\ Types
    BY DEF IInv, Types
  <1>3. \A x \in Svc \ {d} : req'[x] = req[x]
    BY <1>1, <1>2
  <1>4. /\ \A i : L(i).svc = d /\ L(i).kind = q[i].kind /\ L(i).dmt = q[i].dmt
        /\ \A p : P(p).svc = d /\ P(p).kind = "pull"
    OBVIOUS
  <1> HIDE DEF q, L, P
  <1>5. /\ lost \subseteq lost' /\ \A i \in DOMAIN q : L(i) \in lost'
        /\ \A p \in pulls : p.dm = d => P(p) \in lost'
    BY <1>1
  <1>6. ASSUME NEW i \in DOMAIN q PROVE Passed(d, q[i])
    BY <1>4, <1>5 DEF Passed
  <1>7. ASSUME NEW x \in Svc, NEW i \in DOMAIN req[x] PROVE Passed(x, req[x][i])
    <2>1. CASE x = d
      BY <1>6, <2>1 DEF q
    <2>2. CASE x # d
      BY <1>3, <2>2 DEF Passed
    <2> QED BY <2>1, <2>2
  <1>8. \A p \in pulls : (\E y \in pulls' : y.dm = p.dm) \/ \E m \in lost' : m.svc = p.dm /\ m.kind = "pull"
    BY <1>1, <1>4, <1>5
  <1>9. \A x \in Svc : \A i \in DOMAIN ans[x] : \E j \in DOMAIN ans'[x] : ans'[x][j] = ans[x][i]
    OBVIOUS
  <1> QED BY <1>2, <1>5, <1>7, <1>8, <1>9, ServiceLive

(* NotifyDMAbortMigration *)
LEMMA AbortMigrationLive ==
    ASSUME IInv, Live(om, Awaited), NEW d \in DM, AbortMigration(d)
    PROVE  Live(om, Awaited)'
  <1> DEFINE m == Head(req[d])
  <1>1. req[d] # <<>> /\ m.kind = "abort" /\ om' = om /\ d \in Svc /\ m = Head(req[d])
    BY DEF AbortMigration, Arrived, Svc
  <1>2. CASE ~Knows(d, m.dmt.ver) /\ svc[d].known # {}
    BY <1>1, <1>2, BootLive DEF AbortMigration
  <1>3. CASE Knows(d, m.dmt.ver) \/ svc[d].known = {}
    <2>1. /\ pulls' = {IF p.dm = d THEN [p EXCEPT !.aborted = TRUE] ELSE p : p \in pulls}
          /\ Taken(d) /\ Answer(d, m, "ok") /\ UNCHANGED <<lost, reg>>
      BY <1>3 DEF AbortMigration
    <2> HIDE DEF m
    <2>2. \A p \in pulls : [p EXCEPT !.aborted = TRUE].dm = p.dm
      BY SvcTypes
    <2>3. ASSUME NEW p \in pulls PROVE \E q \in pulls' : q.dm = p.dm
      BY <2>1, <2>2
    <2> QED BY <1>1, <2>1, <2>3, AnswerLive
  <1> QED BY <1>2, <1>3

-----------------------------------------------------------------------------
(* The theorem *)

(* Nothing is awaited at the start. *)
LEMMA InitAlive == Init => Live(om, Awaited)
  <1> SUFFICES ASSUME Init PROVE Live(om, Awaited)
    OBVIOUS
  <1>1. Shape(om)
    BY InitIInv DEF IInv, Types
  <1>2. /\ om.err = "AllOk" /\ om.st = "Idle" /\ om.agents = InitDM /\ om.deferred = <<>>
        /\ om.closeAcks = 0 /\ om.abortAcks = 0 /\ om.rollbackAcks = 0
    BY DEF Init, InitOm
  <1>3. Fit(om)
    BY <1>1, <1>2 DEF Fit
  <1> QED BY <1>2, <1>3 DEF Live, Forward, Recovers

(* Every step leaves somebody to wait for. *)
LEMMA NextAlive ==
    ASSUME "add" \notin FaultKinds
    PROVE  IInv /\ Live(om, Awaited) /\ [Next]_vars => Live(om, Awaited)'
  <1> SUFFICES ASSUME IInv, Live(om, Awaited), [Next]_vars PROVE Live(om, Awaited)'
    OBVIOUS
  <1> DEFINE After == Live(om, Awaited)'
  <1>1. Types
    BY DEF IInv
  <1>2. ASSUME NEW s \in Svc, UpdateDmt(s) PROVE After
    BY <1>2, UpdateDmtLive
  <1>3. ASSUME NEW s \in Svc, Fail(s) PROVE After
    BY <1>3, FailLive
  <1>4. ASSUME NEW s \in Svc, HandleAnswer(s) PROVE After
    BY <1>1, <1>4, HandleAnswerLive
  <1>5. ASSUME NEW d \in DM, Acknowledge(d) PROVE After
    BY <1>5, AcknowledgeLive
  <1>6. ASSUME NEW d \in DM, StartPull(d) PROVE After
    BY <1>6, StartPullLive
  <1>7. ASSUME NEW d \in DM, AbortMigration(d) PROVE After
    BY <1>7, AbortMigrationLive
  <1>8. ASSUME NEW d \in DM, DmStarts(d) PROVE After
    <2>1. Boot(d, req[d]) /\ UNCHANGED <<om, ans>>
      BY <1>8 DEF DmStarts
    <2> QED BY <2>1, BootLive
  <1>9. ASSUME NEW d \in DM, Register(d) PROVE After
    BY <1>1, <1>9, RegisterLive
  <1>10. ASSUME NEW p \in pulls, EndPull(p) PROVE After
    BY <1>10, EndPullLive
  <1>11. ASSUME NEW m \in lost, RequestTimeout(m) PROVE After
    BY <1>1, <1>11, RequestTimeoutLive
  <1>12. ASSUME RetryTimer PROVE After
    BY <1>1, <1>12, RetryTimerLive
  <1>13. ASSUME WaitingTimer PROVE After
    BY <1>1, <1>13, WaitingTimerLive
  <1>14. ASSUME UNCHANGED vars PROVE After
    <2>1. om' = om /\ req' = req /\ ans' = ans /\ pulls' = pulls /\ lost' = lost
      BY <1>14 DEF vars
    <2>2. /\ lost \subseteq lost'
          /\ \A s \in Svc : \A i \in DOMAIN req[s] : Passed(s, req[s][i])
          /\ \A s \in Svc : \A i \in DOMAIN ans[s] : \E j \in DOMAIN ans'[s] : ans'[s][j] = ans[s][i]
          /\ \A p \in pulls : \E q \in pulls' : q.dm = p.dm
      BY <2>1 DEF Passed
    <2> QED BY <1>1, <2>1, <2>2, ServiceLive
  <1>15. Next \/ UNCHANGED vars
    OBVIOUS
  <1> HIDE DEF After
  <1>16. After
    BY <1>2, <1>3, <1>4, <1>5, <1>6, <1>7, <1>8, <1>9, <1>10, <1>11, <1>12, <1>13, <1>14, <1>15
       DEF Next
  <1> QED BY <1>16 DEF After

(* With nothing in flight nobody owes an answer, so only DST_Idle is left. *)
LEMMA AliveNeverStuck == IInv /\ Live(om, Awaited) => NeverStuck
  <1> SUFFICES ASSUME IInv, Live(om, Awaited), Quiet, ~om.wait
               PROVE  om.st = "Idle" /\ om.err = "AllOk"
    BY DEF NeverStuck
  <1> DEFINE g == Awaited
  <1>1. om.out = NoOut /\ om.st \in States /\ om.err \in {"AllOk", "Error"}
    BY DEF IInv, Types, Shape
  <1>2. /\ req = NoOut /\ ans = NoOut /\ lost = {} /\ pulls = {}
    BY DEF Quiet
  <1>3. \A s \in Svc : DOMAIN NoOut[s] = {}
    BY DEF NoOut
  <1>4. \A s \in Svc : /\ \A k : ~HasKind(om.out[s], k) /\ ~HasKind(req[s], k) /\ ~HasKind(ans[s], k)
                       /\ \A v : ~HasV(om.out[s], v) /\ ~HasV(req[s], v) /\ ~HasV(ans[s], v)
                       /\ DOMAIN ans[s] = {}
    BY <1>1, <1>2, <1>3 DEF HasKind, HasV
  <1>5. ASSUME NEW s \in Svc
        PROVE  /\ \A k \in {"vol", "pull", "close", "abort"} : s \notin g[k]
               /\ \A v : v \notin g.dmt[s]
    <2>1. /\ s \in g["vol"] <=>
                HasKind(req[s], "vol") \/ HasVol(ans[s]) \/ \E m \in lost : m.svc = s /\ m.kind = "vol"
          /\ s \in g["pull"] <=>
                \/ \E p \in pulls : p.dm = s
                \/ HasKind(req[s], "pull") \/ HasKind(ans[s], "pull") \/ \E m \in lost : m.svc = s /\ m.kind = "pull"
          /\ \A k \in {"close", "abort"} : s \in g[k] <=>
                HasKind(req[s], k) \/ HasKind(ans[s], k) \/ \E m \in lost : m.svc = s /\ m.kind = k
          /\ \A v : v \in g.dmt[s] <=> HasV(req[s], v) \/ HasV(ans[s], v) \/ LostV(lost, s, v)
      BY PendingMembers DEF Awaited
    <2> HIDE DEF g
    <2>2. s \notin g["vol"] /\ s \notin g["pull"]
      BY <1>2, <1>4, <2>1 DEF HasVol
    <2>3. \A k \in {"close", "abort"} : s \notin g[k]
      BY <1>2, <1>4, <2>1
    <2>4. \A v : v \notin g.dmt[s]
      BY <1>2, <1>4, <2>1 DEF LostV
    <2> QED BY <2>2, <2>3, <2>4
  <1>6. Fit(om) /\ Forward(om, g, None, FALSE) /\ Recovers(om, g, 0, 0)
    BY DEF Live
  <1> HIDE DEF g
  <1>7. /\ Due(om, g, "vol") = {} /\ Due(om, g, "pull") = {} /\ Due(om, g, "close") = {} /\ Due(om, g, "abort") = {}
        /\ \A v : DueV(om, g, v) = {}
    BY <1>4, <1>5 DEF Due, DueV
  <1>8. DueAny(om, g) = {}
    <2>1. Clients \subseteq Svc
      BY DEF Clients, Svc
    <2> QED BY <1>4, <1>5, <2>1 DEF DueAny
  <1>9. Cardinality({}) = 0
    BY FS_EmptySet
  <1>10. om.err # "Error"
    <2>1. om.err = "Error" => /\ 0 < om.abortAcks + om.rollbackAcks
                              /\ om.abortAcks <= 0 + 0 /\ om.rollbackAcks <= 0 + 0
      BY <1>6, <1>7, <1>8, <1>9 DEF Recovers
    <2>2. om.abortAcks \in Nat /\ om.rollbackAcks \in Nat
      BY <1>6 DEF Fit
    <2> QED BY <2>1, <2>2
  <1>11. /\ AckV(None, DM, om.committed.ver) = 0 /\ AckV(None, Clients, om.committed.ver) = 0
         /\ AckClose(None) = 0 /\ None.k = "none"
    BY AckTypes
  <1>12. om.st \notin {"Waiting", "Rebalance", "Commit"}
    BY <1>1, <1>6, <1>7, <1>10, <1>11 DEF Forward
  <1>13. om.st \notin {"BcastAM", "Close", "Done"}
    <2>1. DueV(om, g, om.committed.ver) \cap DM = {} /\ DueV(om, g, om.committed.ver) \cap Clients = {}
      BY <1>7
    <2>2. /\ om.st \in {"BcastAM", "Close"} => 0 < om.commitAcks /\ om.commitAcks <= 0 + 0
          /\ om.st = "Done" => 0 < om.closeAcks /\ om.closeAcks <= 0 + 0
      BY <1>1, <1>6, <1>7, <1>9, <1>10, <1>11, <2>1 DEF Forward
    <2>3. om.commitAcks \in Nat /\ om.closeAcks \in Nat
      BY <1>6 DEF Fit, Shape
    <2> QED BY <2>2, <2>3
  <1> QED BY <1>1, <1>10, <1>12, <1>13 DEF States

(* The machine is never stuck: when no request, answer, pull or waiting      *)
(* timer is left to act, it is back in DST_Idle and DST_AllOk, however many  *)
(* DMs restart and whatever requests are lost or answered with an error,     *)
(* volume notifications that time out included.  Only a DM's addVolume must  *)
(* not fail: om_vol_cmd_resp raises no event for that error, and             *)
(* DST_Rebalance waits for ever.                                             *)
THEOREM DeployNeverStuck ==
    ASSUME "add" \notin FaultKinds
    PROVE  Spec => []NeverStuck
  <1>1. IInv /\ Live(om, Awaited) /\ [Next]_vars => Live(om, Awaited)'
    BY NextAlive
  <1> QED BY <1>1, InitAlive, AliveNeverStuck, Invariance, PTL DEF Spec
=============================================================================
