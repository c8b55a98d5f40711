------------------------- MODULE VolumeGroupHandle -------------------------
(***************************************************************************)
(* The coordinator of a volume group: VolumeGroupHandle and                *)
(* VolumeGroupBroadcastRequest of an access manager.  Its tasks run one at *)
(* a time on the task executor of the volume, so every action is one task. *)
(* A failed fds_assert aborts the process of a debug build; the access     *)
(* manager then starts again and opens the volume through a new handle.    *)
(***************************************************************************)
EXTENDS VolumeGroupNet

VERSION_INVALID == 0

VARIABLES
    gstate,          \* state_
    opening,         \* where the open protocol is
    prepared,        \* prepared[r]: the answer of r to the open
    handle,          \* handle[r]: VolumeReplicaHandle of replica r
    opSeqNo,         \* opSeqNo_
    commitNo,        \* commitNo_
    buffering,       \* is there a writeOpsBuffer_?
    writeOpsBuffer,  \* and what it holds
    checkScheduled,  \* checkOnNonFunctionalScheduled_
    reqs,            \* reqs[w]: the request of write w
    acked,           \* writes the client was told are done
    opens,           \* opens so far; also the id of the last one
    fatal            \* failed checks so far: subset of {"verify", "assert"}

handleVars == <<gstate, opening, prepared, handle, opSeqNo, commitNo,
                buffering, writeOpsBuffer, checkScheduled, reqs, acked,
                opens, fatal>>

NewHandle == [state |-> "Offline", version |-> VERSION_INVALID, applied |-> OPSTARTID]

NoAnswer  == [type |-> "none"]
NoAnswers == [r \in Replicas |-> NoAnswer]

HandleInit ==
    /\ gstate = "Unknown" /\ opening = "none"
    /\ prepared = NoAnswers
    /\ handle = [r \in Replicas |-> NewHandle]
    /\ opSeqNo = OPSTARTID /\ commitNo = 0
    /\ buffering = FALSE /\ writeOpsBuffer = <<>>
    /\ checkScheduled = FALSE
    /\ reqs = <<>> /\ acked = {}
    /\ opens = 0
    /\ fatal = {}

InState(h, s) == {r \in Replicas : h[r].state = s}
FunctionalReplicas(h) == InState(h, "Active")
NonfunctionalReplicas(h) == InState(h, "Offline")

(* The process ends: of the handle nothing is left, what it sent last may  *)
(* be lost, and no answer reaches its requests.                            *)
ProcessGone ==
    /\ gstate' = "Unknown" /\ opening' = "none"
    /\ prepared' = NoAnswers
    /\ handle' = [r \in Replicas |-> NewHandle]
    /\ opSeqNo' = OPSTARTID /\ commitNo' = 0
    /\ buffering' = FALSE /\ writeOpsBuffer' = <<>>
    /\ checkScheduled' = FALSE
    /\ reqs' = [w \in DOMAIN reqs |-> [reqs[w] EXCEPT !.waiting = {}]]
    /\ replies' = [r \in Replicas |-> <<>>]
    /\ adds' = [r \in Replicas |-> <<>>]
    /\ \E kept \in [Replicas -> UNION {0..Len(toDm[r]) : r \in Replicas}] :
          /\ \A r \in Replicas : kept[r] <= Len(toDm[r])
          /\ toDm' = [r \in Replicas |-> SubSeq(toDm[r], 1, kept[r])]
    /\ UNCHANGED <<up, acked, opens>>

Fails(check) == ProcessGone /\ fatal' = fatal \cup {check} /\ UNCHANGED faults

CoordinatorCrash ==
    /\ gstate # "Unknown"
    /\ Fault
    /\ ProcessGone
    /\ UNCHANGED fatal

---------------------------------------------------------------------------
(* open, runOpenProtocol_. *)

OpenVolume ==
    /\ gstate = "Unknown" /\ opens < MaxOpens
    /\ gstate' = "Loading" /\ opening' = "prepare"
    /\ opens' = opens + 1
    /\ toDm' = SendTo(toDm, Replicas, OpenMsg(opens + 1))
    /\ UNCHANGED <<up, replies, adds, faults, prepared, handle, opSeqNo,
                   commitNo, buffering, writeOpsBuffer, checkScheduled, reqs,
                   acked, fatal>>

Answer(r, a) == prepared' = [prepared EXCEPT ![r] = a]

Preparing(r) == opening = "prepare" /\ prepared[r] = NoAnswer

IsOpenAnswer(m) == m.type \in {"opened", "openerr"}

(* An answer to an earlier open, or to one that timed out, is dropped. *)
HandleOpenAnswer(r) ==
    /\ replies[r] # <<>> /\ IsOpenAnswer(Head(replies[r]))
    /\ LET m == Head(replies[r]) IN
       IF Preparing(r) /\ m.id = opens
       THEN Answer(r, m)
       ELSE UNCHANGED prepared
    /\ replies' = [replies EXCEPT ![r] = Tail(@)]
    /\ UNCHANGED <<up, toDm, adds, faults, gstate, opening, handle, opSeqNo,
                   commitNo, buffering, writeOpsBuffer, checkScheduled, reqs,
                   acked, opens, fatal>>

(* The answer is lost with the data manager, or it is merely late. *)
OpenTimeout(r) ==
    /\ Preparing(r)
    /\ IF \/ Holds(toDm[r], LAMBDA m : m = OpenMsg(opens))
          \/ Holds(replies[r], LAMBDA m : IsOpenAnswer(m) /\ m.id = opens)
       THEN Fault ELSE UNCHANGED faults
    /\ Answer(r, OpenRefused(opens))
    /\ UNCHANGED <<up, toDm, replies, adds, gstate, opening, handle, opSeqNo,
                   commitNo, buffering, writeOpsBuffer, checkScheduled, reqs,
                   acked, opens, fatal>>

Opened == {r \in Replicas : prepared[r].type = "opened"}
SeqIds == {prepared[r].seq : r \in Opened}
WithSeq(s) == {r \in Opened : prepared[r].seq = s}

(* Fault: one replica fewer than the quorum is enough. *)
QuorumSeqIdsOffByOne ==
    IF Cardinality(Replicas) = 3 /\ Cardinality(SeqIds) = 3
    THEN {s \in SeqIds : \E a, b \in SeqIds : a < s /\ s < b}
    ELSE {s \in SeqIds : Cardinality(WithSeq(s)) >= QuorumCnt - 1}

(* determineFunctaionalReplicas_: the sequence id of a quorum, or of three *)
(* different ones the middle one.                                          *)
QuorumSeqIds ==
    IF Cardinality(Replicas) = 3 /\ Cardinality(SeqIds) = 3
    THEN {s \in SeqIds : \E a, b \in SeqIds : a < s /\ s < b}
    ELSE {s \in SeqIds : Cardinality(WithSeq(s)) >= QuorumCnt}

AllPrepared == opening = "prepare" /\ \A r \in Replicas : prepared[r] # NoAnswer

(* createBroadcastGroupInfoReq_ *)
Broadcast(op, seq, func) == toDm' = SendTo(toDm, Replicas, GroupMsg(op, seq, func))

OpenDecide ==
    /\ AllPrepared
    /\ \E s \in QuorumSeqIds :
          /\ handle' = [r \in Replicas |->
                          IF r \in WithSeq(s)
                          THEN [state |-> "Active", version |-> prepared[r].version,
                                applied |-> opSeqNo]
                          ELSE handle[r]]
          /\ commitNo' = s
          /\ Broadcast(opSeqNo, s, WithSeq(s))
    /\ opening' = "broadcast"
    /\ prepared' = NoAnswers
    /\ UNCHANGED <<up, replies, adds, faults, gstate, opSeqNo, buffering,
                   writeOpsBuffer, checkScheduled, reqs, acked, opens, fatal>>

(* "Not enough members with latest state": the access manager discards the *)
(* handle.                                                                 *)
OpenFails ==
    /\ AllPrepared /\ QuorumSeqIds = {}
    /\ gstate' = "Unknown" /\ opening' = "none"
    /\ prepared' = NoAnswers
    /\ UNCHANGED <<netVars, handle, opSeqNo, commitNo, buffering,
                   writeOpsBuffer, checkScheduled, reqs, acked, opens, fatal>>

(* The broadcast was answered, or timed out: "We don't care about the      *)
(* returned error".                                                        *)
OpenComplete ==
    /\ opening = "broadcast"
    /\ opening' = "none"
    /\ gstate' = IF Cardinality(FunctionalReplicas(handle)) >= QuorumCnt
                 THEN "Active" ELSE "Offline"
    /\ checkScheduled' = (NonfunctionalReplicas(handle) # {})
    /\ UNCHANGED <<netVars, prepared, handle, opSeqNo, commitNo, buffering,
                   writeOpsBuffer, reqs, acked, opens, fatal>>

---------------------------------------------------------------------------
(* sendCommitMsg, VolumeGroupBroadcastRequest::invokeWork_. *)

WriteOp ==
    /\ gstate = "Active"
    /\ Len(reqs) < MaxWrites
    /\ LET w == Len(reqs) + 1
           m == WriteMsg(w, opSeqNo + 1, commitNo + 1)
           rs == InState(handle, "Active") \cup InState(handle, "Syncing")
       IN /\ writeOpsBuffer' = IF buffering THEN Append(writeOpsBuffer, m) ELSE <<>>
          /\ reqs' = Append(reqs, [op |-> m.op, ok |-> {}, cb |-> TRUE,
                                   waiting |-> {<<r, handle[r].version>> : r \in rs}])
          /\ toDm' = SendTo(toDm, rs, m)
    /\ opSeqNo' = opSeqNo + 1 /\ commitNo' = commitNo + 1
    /\ UNCHANGED <<up, replies, adds, faults, gstate, opening, prepared,
                   handle, buffering, checkScheduled, acked, opens, fatal>>

(* The group's own state after a replica handle became nonfunctional. *)
GroupAdjust(h) ==
    /\ gstate' = IF gstate = "Active" /\ Cardinality(FunctionalReplicas(h)) < QuorumCnt
                 THEN "Offline" ELSE gstate
    /\ opSeqNo' = IF gstate' = "Offline" /\ FunctionalReplicas(h) = {}
                  THEN OPSTARTID ELSE opSeqNo

SetHandle(r, h) == handle' = [handle EXCEPT ![r] = h]

(* changeVolumeReplicaState_(Offline): the version is not looked at. *)
MakeOffline(r) ==
    /\ SetHandle(r, [handle[r] EXCEPT !.state = "Offline"])
    /\ GroupAdjust(handle')
    /\ checkScheduled' = TRUE

(* Fault: the first answer satisfies the client. *)
RecordFirst(w, ep, success) ==
    /\ acked' = IF success THEN acked \cup {w} ELSE acked
    /\ reqs' = [reqs EXCEPT ![w].waiting = @ \ {ep}]

(* VolumeGroupBroadcastRequest::handleResponse once the replica's answer,  *)
(* a success or not, is known.                                             *)
Record(w, ep, success) ==
    LET ok == reqs[w].ok \cup (IF success THEN {ep[1]} ELSE {})
        met == reqs[w].cb /\ Cardinality(ok) = QuorumCnt
        waiting == reqs[w].waiting \ {ep}
    IN /\ acked' = IF met THEN acked \cup {w} ELSE acked
       /\ reqs' = [reqs EXCEPT ![w].ok = ok, ![w].waiting = waiting,
                               ![w].cb = @ /\ ~met /\ waiting # {}]

(* handleVolumeResponse: current says the answer is of the handle's        *)
(* version and the handle is functional or syncing.  A failed fds_verify   *)
(* is noted; what would follow it is of no interest.                       *)
Process(w, ep, ok) ==
    LET r == ep[1]
        current == handle[r].version = ep[2] /\ handle[r].state # "Offline"
    IN \/ /\ ~current
          /\ Record(w, ep, FALSE)
          /\ UNCHANGED <<handle, gstate, opSeqNo, checkScheduled, fatal>>
       \/ /\ current /\ ok
          /\ fatal' = IF handle[r].applied + 1 = reqs[w].op
                      THEN fatal ELSE fatal \cup {"verify"}
          /\ SetHandle(r, [handle[r] EXCEPT !.applied = reqs[w].op])
          /\ Record(w, ep, handle[r].state = "Active")
          /\ UNCHANGED <<gstate, opSeqNo, checkScheduled>>
       \/ /\ current /\ ~ok
          /\ MakeOffline(r)
          /\ Record(w, ep, FALSE)
          /\ UNCHANGED fatal

HandleWriteReply(r) ==
    /\ replies[r] # <<>> /\ Head(replies[r]).type = "reply"
    /\ LET m == Head(replies[r]) IN
       \E ep \in reqs[m.w].waiting :
          /\ ep[1] = r
          /\ Process(m.w, ep, m.ok)
    /\ replies' = [replies EXCEPT ![r] = Tail(@)]
    /\ UNCHANGED <<up, toDm, adds, faults, opening, prepared, commitNo,
                   buffering, writeOpsBuffer, opens>>

(* The request, or the endpoint's part of it, is already complete. *)
DropWriteReply(r) ==
    /\ replies[r] # <<>> /\ Head(replies[r]).type = "reply"
    /\ \A ep \in reqs[Head(replies[r]).w].waiting : ep[1] # r
    /\ replies' = [replies EXCEPT ![r] = Tail(@)]
    /\ UNCHANGED <<up, toDm, adds, faults, handleVars>>

(* The answer to a write is lost with the data manager, or merely late. *)
IoTimeout(r) ==
    /\ \E w \in DOMAIN reqs : \E ep \in reqs[w].waiting :
          /\ ep[1] = r
          /\ IF \/ Holds(toDm[r], LAMBDA m : m.type = "write" /\ m.w = w /\ ~m.direct)
                \/ Holds(replies[r], LAMBDA m : m.type = "reply" /\ m.w = w)
             THEN Fault ELSE UNCHANGED faults
          /\ Process(w, ep, FALSE)
    /\ UNCHANGED <<up, toDm, replies, adds, opening, prepared, commitNo,
                   buffering, writeOpsBuffer, opens>>

---------------------------------------------------------------------------
(* handleAddToVolumeGroupMsg, changeVolumeReplicaState_. *)

ReceiveAdd(r, target) ==
    /\ adds[r] # <<>> /\ Head(adds[r]).target = target
    /\ adds' = [adds EXCEPT ![r] = Tail(@)]

Ready == gstate \in {"Active", "Offline"}

AnswerAdd(r, m) == toDm' = SendTo(toDm, {r}, m)

(* "Make sure we are not in the middle of open or prior open" *)
AddRejected(r) ==
    /\ ~Ready
    /\ \E target \in {"Loading", "Syncing", "Offline", "Active"} :
          /\ ReceiveAdd(r, target)
          /\ IF target = "Loading" THEN AnswerAdd(r, JoinRefused(Head(adds[r]).version)) ELSE UNCHANGED toDm
    /\ UNCHANGED <<up, replies, faults, handleVars>>

(* Fault: the handle takes over the state of the replica. *)
AddLoadingAsTold(r) ==
    /\ Ready
    /\ ReceiveAdd(r, "Loading")
    /\ SetHandle(r, [handle[r] EXCEPT !.state = "Loading"])
    /\ GroupAdjust(handle')
    /\ buffering' = TRUE /\ writeOpsBuffer' = <<>>
    /\ AnswerAdd(r, JoinedMsg(Head(adds[r]).version, opSeqNo', commitNo,
                              FunctionalReplicas(handle')))
    /\ UNCHANGED <<up, replies, faults, opening, prepared, commitNo,
                   checkScheduled, reqs, acked, opens, fatal>>

AddLoading(r) ==
    /\ Ready
    /\ ReceiveAdd(r, "Loading")
    /\ SetHandle(r, [handle[r] EXCEPT !.state = "Offline"])
    /\ GroupAdjust(handle')
    /\ buffering' = TRUE /\ writeOpsBuffer' = <<>>
    /\ AnswerAdd(r, JoinedMsg(Head(adds[r]).version, opSeqNo', commitNo,
                              FunctionalReplicas(handle')))
    /\ UNCHANGED <<up, replies, faults, opening, prepared, commitNo,
                   checkScheduled, reqs, acked, opens, fatal>>

(* replayFromWriteOpsBuffer_: the buffer holds the operations up to        *)
(* opSeqNo_; a start outside of it replays nothing.                        *)
Replay(from) ==
    LET first == opSeqNo + 1 - Len(writeOpsBuffer)
    IN IF buffering /\ first <= from
       THEN [i \in 1..(opSeqNo + 1 - from) |->
               Replayed(writeOpsBuffer[from - first + i])]
       ELSE <<>>

(* fds_asserts of the transition to Syncing. *)
SyncingExpected(r) ==
    LET m == Head(adds[r]) IN
    /\ m.version = VERSION_START \/ m.version > handle[r].version
    /\ buffering => opSeqNo >= Len(writeOpsBuffer) /\ m.op <= opSeqNo

(* Fault: the handle continues from the operation the replica named. *)
AddSyncingAtReplicaOp(r) ==
    /\ Ready
    /\ ReceiveAdd(r, "Syncing")
    /\ Asserts => SyncingExpected(r)
    /\ LET m == Head(adds[r]) IN
       IF m.version = VERSION_START \/ m.version > handle[r].version
       THEN /\ toDm' = IF r \in up
                       THEN [toDm EXCEPT ![r] = @ \o Replay(m.op + 1)] ELSE toDm
            /\ buffering' = FALSE /\ writeOpsBuffer' = <<>>
            /\ SetHandle(r, [state |-> "Syncing", version |-> m.version,
                             applied |-> m.op])
       ELSE UNCHANGED <<toDm, buffering, writeOpsBuffer, handle>>
    /\ UNCHANGED <<up, replies, faults, gstate, opening, prepared, opSeqNo,
                   commitNo, checkScheduled, reqs, acked, opens, fatal>>

AddSyncing(r) ==
    /\ Ready
    /\ ReceiveAdd(r, "Syncing")
    /\ Asserts => SyncingExpected(r)
    /\ LET m == Head(adds[r]) IN
       IF m.version = VERSION_START \/ m.version > handle[r].version
       THEN /\ toDm' = IF r \in up
                       THEN [toDm EXCEPT ![r] = @ \o Replay(m.op + 1)] ELSE toDm
            /\ buffering' = FALSE /\ writeOpsBuffer' = <<>>
            /\ SetHandle(r, [state |-> "Syncing", version |-> m.version,
                             applied |-> opSeqNo])
       ELSE UNCHANGED <<toDm, buffering, writeOpsBuffer, handle>>
    /\ UNCHANGED <<up, replies, faults, gstate, opening, prepared, opSeqNo,
                   commitNo, checkScheduled, reqs, acked, opens, fatal>>

AddOffline(r) ==
    /\ Ready
    /\ ReceiveAdd(r, "Offline")
    /\ MakeOffline(r)
    /\ UNCHANGED <<up, toDm, replies, faults, opening, prepared, commitNo,
                   buffering, writeOpsBuffer, reqs, acked, opens, fatal>>

(* Fault: the opids are not compared. *)
ActiveExpectedAnyOp(r) ==
    /\ handle[r].version = Head(adds[r]).version
    /\ handle[r].state = "Syncing"

(* "When transition to functional we must transition from sync state and   *)
(* latest opids must match."                                               *)
ActiveExpected(r) ==
    LET m == Head(adds[r]) IN
    /\ handle[r].version = m.version
    /\ handle[r].state = "Syncing" /\ handle[r].applied = m.op

AddActive(r) ==
    /\ Ready
    /\ ReceiveAdd(r, "Active")
    /\ Asserts => ActiveExpected(r)
    /\ IF handle[r].version = Head(adds[r]).version
       THEN /\ SetHandle(r, [handle[r] EXCEPT !.state = "Active"])
            /\ gstate' = IF Cardinality(FunctionalReplicas(handle')) = QuorumCnt
                         THEN "Active" ELSE gstate
       ELSE UNCHANGED <<handle, gstate>>
    /\ UNCHANGED <<up, toDm, replies, faults, opening, prepared, opSeqNo,
                   commitNo, buffering, writeOpsBuffer, checkScheduled, reqs,
                   acked, opens, fatal>>

AddAsserts(r) ==
    /\ Ready /\ Asserts
    /\ adds[r] # <<>>
    /\ \/ Head(adds[r]).target = "Syncing" /\ ~SyncingExpected(r)
       \/ Head(adds[r]).target = "Active" /\ ~ActiveExpected(r)
    /\ Fails("assert")

---------------------------------------------------------------------------
(* checkOnNonFunctaionalReplicas_; one round of updates is under way at a  *)
(* time.                                                                   *)
CheckNonFunctional ==
    /\ checkScheduled
    /\ NonfunctionalReplicas(handle) # {}
    /\ \A r \in Replicas : ~Holds(toDm[r], LAMBDA m : m.type = "group")
    /\ Broadcast(opSeqNo, commitNo, FunctionalReplicas(handle))
    /\ UNCHANGED <<up, replies, adds, faults, handleVars>>

CheckStops ==
    /\ checkScheduled
    /\ NonfunctionalReplicas(handle) = {}
    /\ checkScheduled' = FALSE
    /\ UNCHANGED <<netVars, gstate, opening, prepared, handle, opSeqNo,
                   commitNo, buffering, writeOpsBuffer, reqs, acked, opens, fatal>>

HandleStep ==
    \/ OpenVolume \/ OpenDecide \/ OpenFails \/ OpenComplete
    \/ WriteOp
    \/ CheckNonFunctional \/ CheckStops
    \/ CoordinatorCrash
    \/ \E r \in Replicas :
          \/ HandleOpenAnswer(r) \/ OpenTimeout(r)
          \/ HandleWriteReply(r) \/ DropWriteReply(r) \/ IoTimeout(r)
          \/ AddRejected(r) \/ AddLoading(r) \/ AddSyncing(r)
          \/ AddOffline(r) \/ AddActive(r) \/ AddAsserts(r)

=============================================================================
