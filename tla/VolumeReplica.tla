--------------------------- MODULE VolumeReplica ---------------------------
(***************************************************************************)
(* A volume replica on a data manager: VolumeMeta, the write path of the   *)
(* DM handlers, and ReplicaInitializer, the protocol by which a replica    *)
(* that fell behind rejoins the group (data-mgr/include/                   *)
(* VolumeInitializer.h).  Every write is a commit: of a blob, or of the    *)
(* volume's own metadata.  The catalogue has them all, each with the       *)
(* sequence id it carried; the replica's sequence id is another field,     *)
(* which only the commit of a blob raises.                                 *)
(*                                                                         *)
(* Static migration is one step: the catalogue becomes the peer's.  The    *)
(* buffer of writes is a queue here; module BufferReplay has its threads.  *)
(* Two local failures of the initializer are left out: transactions of the *)
(* peer that cannot be applied (VolumeInitializer.h:180, which completes   *)
(* with the error of the copy, ERR_OK) and a buffer file that cannot be    *)
(* opened (263, after which the initializer goes on).                      *)
(***************************************************************************)
EXTENDS VolumeGroupNet

VARIABLE dm  \* dm[r]: the volume on data manager r

(***************************************************************************)
(* state, version, opId, coordSet: fields of VolumeMeta and its            *)
(* descriptor; seq: sequence_id; data: the writes in the catalogue;        *)
(* init: where ReplicaInitializer is; peers, peer: its sync peers;         *)
(* buf: writes in its buffer file.  version, seq and data are persistent.  *)
(***************************************************************************)
DmInit ==
    dm = [r \in Replicas |->
            [state |-> "Offline", version |-> VERSION_START - 1, opId |-> 0,
             coordSet |-> FALSE, seq |-> 0, data |-> {},
             init |-> "none", peers |-> {}, peer |-> r, buf |-> <<>>]]

InitializerInProgress(r) == dm[r].init \notin {"none", "scheduled"}

Receive(r, type) ==
    /\ r \in up
    /\ toDm[r] # <<>> /\ Head(toDm[r]).type = type

Consumed(r) == [toDm EXCEPT ![r] = Tail(@)]

SendReply(r, m) == replies' = [replies EXCEPT ![r] = Append(@, m)]
AnswerWrite(r, m, ok) ==
    IF m.direct THEN UNCHANGED replies ELSE SendReply(r, WriteReply(m.w, ok))
SendAdds(r, ms) == adds' = [adds EXCEPT ![r] = @ \o ms]

(* VolumeMeta::setState(Offline) resets the opId. *)
Offline(d) == [d EXCEPT !.state = "Offline", !.opId = OPSTARTID,
                        !.init = "none", !.buf = <<>>]

(* complete_(error) tells the coordinator the replica is Offline. *)
InitializerFailed(r) ==
    /\ dm' = [dm EXCEPT ![r] = Offline(@)]
    /\ SendAdds(r, <<AddMsg("Offline", dm[r].version, OPSTARTID)>>)

---------------------------------------------------------------------------
(* VolumeOpenHandler::handleQueueItem for an open that can write. *)

OpenWhileSyncing(r) ==
    /\ Receive(r, "open")
    /\ InitializerInProgress(r)
    /\ SendReply(r, OpenRefused(Head(toDm[r]).id))
    /\ toDm' = Consumed(r)
    /\ UNCHANGED <<up, adds, faults, dm>>

(* Fault: the new version is told before it is kept. *)
HandleOpenUnsaved(r) ==
    /\ Receive(r, "open")
    /\ ~InitializerInProgress(r)
    /\ dm[r].version < MaxVersion
    /\ dm' = [dm EXCEPT ![r].coordSet = TRUE, ![r].state = "Loading"]
    /\ SendReply(r, OpenedMsg(Head(toDm[r]).id, dm[r].seq, dm[r].version + 1))
    /\ toDm' = Consumed(r)
    /\ UNCHANGED <<up, adds, faults>>

HandleOpen(r) ==
    /\ Receive(r, "open")
    /\ ~InitializerInProgress(r)
    /\ dm[r].version < MaxVersion
    /\ dm' = [dm EXCEPT ![r].coordSet = TRUE, ![r].state = "Loading",
                        ![r].version = @ + 1]
    /\ SendReply(r, OpenedMsg(Head(toDm[r]).id, dm[r].seq, dm[r].version + 1))
    /\ toDm' = Consumed(r)
    /\ UNCHANGED <<up, adds, faults>>

---------------------------------------------------------------------------
(* VolumeMeta::handleVolumegroupUpdate. *)

(* The replica matches the group that was opened: it becomes functional. *)
MatchesGroup(r, m) ==
    /\ dm[r].state = "Loading" /\ dm[r].coordSet
    /\ dm[r].seq = m.seq
    /\ r \in m.func

MustSync(r, m) == ~dm[r].coordSet \/ r \notin m.func

GroupUpdateActivates(r) ==
    /\ Receive(r, "group")
    /\ ~InitializerInProgress(r)
    /\ MatchesGroup(r, Head(toDm[r]))
    /\ dm' = [dm EXCEPT ![r].state = "Active", ![r].opId = Head(toDm[r]).op]
    /\ toDm' = Consumed(r)
    /\ UNCHANGED <<up, replies, adds, faults>>

(* The replica goes offline and scheduleInitializer(true) queues a task of *)
(* the volume; messages queued before the task are handled before it.      *)
GroupUpdateSyncs(r) ==
    /\ Receive(r, "group")
    /\ ~InitializerInProgress(r)
    /\ ~MatchesGroup(r, Head(toDm[r])) /\ MustSync(r, Head(toDm[r]))
    /\ dm' = [dm EXCEPT ![r] =
                [Offline(@) EXCEPT !.coordSet = TRUE, !.init = "scheduled"]]
    /\ toDm' = Consumed(r)
    /\ UNCHANGED <<up, replies, adds, faults>>

GroupUpdateIgnored(r) ==
    /\ Receive(r, "group")
    /\ \/ InitializerInProgress(r)
       \/ /\ ~MatchesGroup(r, Head(toDm[r]))
          /\ ~MustSync(r, Head(toDm[r]))
    /\ toDm' = Consumed(r)
    /\ UNCHANGED <<up, replies, adds, faults, dm>>

---------------------------------------------------------------------------
(* Writes: preEnqueueWriteOpHandling, ENSURE_IO_ORDER, commit. *)

Raised(seq, n) == IF n > seq THEN n ELSE seq

(* A commit of a blob raises the sequence id, SetVolumeMetadataHandler     *)
(* does not.                                                               *)
Applied(d, m) ==
    [d EXCEPT !.opId = m.op, !.data = @ \cup {<<m.w, m.seq>>},
              !.seq = IF m.w \in MetaWrites THEN @ ELSE Raised(@, m.seq)]

ApplyWrite(r) ==
    /\ Receive(r, "write")
    /\ dm[r].coordSet /\ dm[r].state = "Active"
    /\ Head(toDm[r]).op = dm[r].opId + 1
    /\ dm' = [dm EXCEPT ![r] = Applied(@, Head(toDm[r]))]
    /\ AnswerWrite(r, Head(toDm[r]), TRUE)
    /\ toDm' = Consumed(r)
    /\ UNCHANGED <<up, adds, faults>>

(* Fault: the write is acknowledged and forgotten, and the opId goes on. *)
BufferWriteLost(r) ==
    /\ Receive(r, "write")
    /\ dm[r].coordSet /\ dm[r].state = "Syncing"
    /\ dm' = [dm EXCEPT ![r].opId = Head(toDm[r]).op]
    /\ AnswerWrite(r, Head(toDm[r]), TRUE)
    /\ toDm' = Consumed(r)
    /\ UNCHANGED <<up, adds, faults>>

(* A syncing replica buffers the write and answers at once; the answer,    *)
(* ERR_WRITE_OP_BUFFERED, is not a volume group error.                     *)
BufferWrite(r) ==
    /\ Receive(r, "write")
    /\ dm[r].coordSet /\ dm[r].state = "Syncing"
    /\ dm' = [dm EXCEPT ![r].buf = Append(@, Head(toDm[r]))]
    /\ AnswerWrite(r, Head(toDm[r]), TRUE)
    /\ toDm' = Consumed(r)
    /\ UNCHANGED <<up, adds, faults>>

WriteOutOfOrder(r) ==
    /\ Receive(r, "write")
    /\ dm[r].coordSet /\ dm[r].state = "Active"
    /\ Head(toDm[r]).op # dm[r].opId + 1

(* No coordinator, not activated, or an opId out of order. *)
RejectWrite(r) ==
    /\ Receive(r, "write")
    /\ \/ ~dm[r].coordSet
       \/ dm[r].state \notin {"Active", "Syncing"}
       \/ WriteOutOfOrder(r) /\ ~Asserts
    /\ AnswerWrite(r, Head(toDm[r]), FALSE)
    /\ toDm' = Consumed(r)
    /\ UNCHANGED <<up, adds, faults, dm>>

---------------------------------------------------------------------------
(* ReplicaInitializer. *)

(* startInitializer and run: Loading under a new version, and the          *)
(* coordinator is contacted.                                               *)
StartInitializer(r) ==
    /\ r \in up /\ dm[r].init = "scheduled"
    /\ dm[r].state = "Offline"
    /\ dm[r].version < MaxVersion
    /\ dm' = [dm EXCEPT ![r].state = "Loading", ![r].version = @ + 1,
                        ![r].init = "contact"]
    /\ SendAdds(r, <<AddMsg("Loading", dm[r].version + 1, OPSTARTID)>>)
    /\ UNCHANGED <<up, toDm, replies, faults>>

(* An open came first: "Volume is not offline". *)
SkipInitializer(r) ==
    /\ r \in up /\ dm[r].init = "scheduled"
    /\ dm[r].state # "Offline"
    /\ dm' = [dm EXCEPT ![r].init = "none"]
    /\ UNCHANGED netVars

Contacting(r) == dm[r].init = "contact"

(* The answer is to this initializer, not to one that is gone. *)
Answered(r) == Contacting(r) /\ Head(toDm[r]).version = dm[r].version

(* syncPreemptionChecks: nothing was written since the open, and the       *)
(* sequence ids agree.                                                     *)
SyncPrevented(r) ==
    /\ Receive(r, "joined") /\ Answered(r)
    /\ Head(toDm[r]).seq = dm[r].seq /\ Head(toDm[r]).op = OPSTARTID
    /\ dm' = [dm EXCEPT ![r].state = "Active", ![r].init = "none"]
    /\ SendAdds(r, <<AddMsg("Syncing", dm[r].version, dm[r].opId),
                     AddMsg("Active", dm[r].version, dm[r].opId)>>)
    /\ toDm' = Consumed(r)
    /\ UNCHANGED <<up, replies, faults>>

NoSyncPeer(r) ==
    /\ Receive(r, "joined") /\ Answered(r)
    /\ ~(Head(toDm[r]).seq = dm[r].seq /\ Head(toDm[r]).op = OPSTARTID)
    /\ Head(toDm[r]).func = {}
    /\ InitializerFailed(r)
    /\ toDm' = Consumed(r)
    /\ UNCHANGED <<up, replies, faults>>

ChoosePeers(r) ==
    /\ Receive(r, "joined") /\ Answered(r)
    /\ ~(Head(toDm[r]).seq = dm[r].seq /\ Head(toDm[r]).op = OPSTARTID)
    /\ Head(toDm[r]).func # {}
    /\ dm' = [dm EXCEPT ![r].init = "copy", ![r].peers = Head(toDm[r]).func]
    /\ toDm' = Consumed(r)
    /\ UNCHANGED <<up, replies, adds, faults>>

CoordinatorRefused(r) ==
    /\ Receive(r, "refused") /\ Answered(r)
    /\ InitializerFailed(r)
    /\ toDm' = Consumed(r)
    /\ UNCHANGED <<up, replies, faults>>

StaleAnswer(r) ==
    /\ Receive(r, "joined") \/ Receive(r, "refused")
    /\ ~Answered(r)
    /\ toDm' = Consumed(r)
    /\ UNCHANGED <<up, replies, adds, faults, dm>>

(* The coordinator died before it answered: the request times out. *)
ContactTimeout(r) ==
    /\ r \in up /\ Contacting(r)
    /\ ~Holds(adds[r], LAMBDA m : m.target = "Loading" /\ m.version = dm[r].version)
    /\ ~Holds(toDm[r], LAMBDA m : m.type \in {"joined", "refused"}
                                  /\ m.version = dm[r].version)
    /\ InitializerFailed(r)
    /\ UNCHANGED <<up, toDm, replies, faults>>

(* copyActiveStateFromPeer_ from the first peer that answers, whatever its *)
(* state; then buffering is on and the coordinator may send writes.        *)
CopyActiveState(r) ==
    /\ r \in up /\ dm[r].init = "copy"
    /\ \E p \in dm[r].peers \cap up :
          /\ dm' = [dm EXCEPT ![r].state = "Syncing", ![r].init = "migrate",
                              ![r].opId = dm[p].opId, ![r].peer = p]
          /\ SendAdds(r, <<AddMsg("Syncing", dm[r].version, dm[p].opId)>>)
    /\ UNCHANGED <<up, toDm, replies, faults>>

CopyFailed(r) ==
    /\ r \in up /\ dm[r].init = "copy"
    /\ dm[r].peers \cap up = {}
    /\ InitializerFailed(r)
    /\ UNCHANGED <<up, toDm, replies, faults>>

PeerServes(r) == dm[r].peer \in up /\ dm[dm[r].peer].state = "Active"

(* The highest sequence id in a catalogue, and among its blobs only. *)
LatestSequenceId(data) ==
    CHOOSE n \in {0} \cup {x[2] : x \in data} : \A x \in data : x[2] <= n

Blobs(data) == {x \in data : x[1] \notin MetaWrites}

(* Fault: the sequence id stays that of the catalogue before. *)
StaticMigrationOldSeq(r) ==
    /\ r \in up /\ dm[r].init = "migrate"
    /\ PeerServes(r)
    /\ LET p == dm[dm[r].peer] IN
       dm' = [dm EXCEPT ![r].init = "replay", ![r].data = p.data, ![r].opId = p.opId]
    /\ UNCHANGED netVars

(* doStaticMigrationWithPeer_: the peer serves only while it is Active.    *)
(* Each blob descriptor that comes raises the sequence id, the volume's    *)
(* own descriptor does not.                                                *)
StaticMigration(r) ==
    /\ r \in up /\ dm[r].init = "migrate"
    /\ PeerServes(r)
    /\ LET p == dm[dm[r].peer] IN
       dm' = [dm EXCEPT ![r].init = "replay", ![r].data = p.data,
                        ![r].opId = p.opId,
                        ![r].seq = Raised(@, LatestSequenceId(Blobs(p.data)))]
    /\ UNCHANGED netVars

StaticMigrationFailed(r) ==
    /\ r \in up /\ dm[r].init = "migrate"
    /\ ~PeerServes(r)
    /\ InitializerFailed(r)
    /\ UNCHANGED <<up, toDm, replies, faults>>

(* One buffered write is replayed, or skipped if migration brought it. *)
ReplayOp(r) ==
    /\ r \in up /\ dm[r].init = "replay"
    /\ dm[r].buf # <<>>
    /\ Head(dm[r].buf).op <= dm[r].opId + 1
    /\ LET m == Head(dm[r].buf)
           d == IF m.op <= dm[r].opId THEN dm[r] ELSE Applied(dm[r], m)
       IN dm' = [dm EXCEPT ![r] = [d EXCEPT !.buf = Tail(@)]]
    /\ UNCHANGED netVars

ReplayOutOfOrder(r) ==
    /\ r \in up /\ dm[r].init = "replay"
    /\ dm[r].buf # <<>>
    /\ Head(dm[r].buf).op > dm[r].opId + 1

(* ERR_IO_OPID_MISMATCH aborts the replay and with it the initializer. *)
ReplayAborted(r) ==
    /\ ReplayOutOfOrder(r) /\ ~Asserts
    /\ InitializerFailed(r)
    /\ UNCHANGED <<up, toDm, replies, faults>>

ReplayComplete(r) ==
    /\ r \in up /\ dm[r].init = "replay"
    /\ dm[r].buf = <<>>
    /\ dm' = [dm EXCEPT ![r].state = "Active", ![r].init = "none"]
    /\ SendAdds(r, <<AddMsg("Active", dm[r].version, dm[r].opId)>>)
    /\ UNCHANGED <<up, toDm, replies, faults>>

---------------------------------------------------------------------------
(* The data manager dies: memory and unread messages are lost. *)
DmGone(r) ==
    /\ up' = up \ {r}
    /\ toDm' = [toDm EXCEPT ![r] = <<>>]
    /\ dm' = [dm EXCEPT ![r] = Offline(@)]
    /\ UNCHANGED <<replies, adds>>

DmCrash(r) ==
    /\ r \in up
    /\ Fault
    /\ DmGone(r)

(* fds_assert(!"opid mismatch") of ENSURE_IO_ORDER. *)
DmAsserts(r) ==
    /\ Asserts
    /\ WriteOutOfOrder(r) \/ ReplayOutOfOrder(r)
    /\ DmGone(r)
    /\ UNCHANGED faults

(* DataMgr::addVolume: Offline, "We wait until coordinator tries to do an  *)
(* open"; initState takes the sequence id from the catalogue.              *)
DmRestart(r) ==
    /\ r \notin up
    /\ up' = up \cup {r}
    /\ dm' = [dm EXCEPT ![r].coordSet = FALSE, ![r].seq = LatestSequenceId(dm[r].data)]
    /\ UNCHANGED <<toDm, replies, adds, faults>>

ReplicaStep(r) ==
    \/ OpenWhileSyncing(r) \/ HandleOpen(r)
    \/ GroupUpdateActivates(r) \/ GroupUpdateSyncs(r) \/ GroupUpdateIgnored(r)
    \/ ApplyWrite(r) \/ BufferWrite(r) \/ RejectWrite(r)
    \/ StartInitializer(r) \/ SkipInitializer(r)
    \/ SyncPrevented(r) \/ NoSyncPeer(r) \/ ChoosePeers(r)
    \/ CoordinatorRefused(r) \/ StaleAnswer(r) \/ ContactTimeout(r)
    \/ CopyActiveState(r) \/ CopyFailed(r)
    \/ StaticMigration(r) \/ StaticMigrationFailed(r)
    \/ ReplayOp(r) \/ ReplayAborted(r) \/ ReplayComplete(r)
    \/ DmCrash(r) \/ DmAsserts(r) \/ DmRestart(r)

=============================================================================
