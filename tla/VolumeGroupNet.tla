--------------------------- MODULE VolumeGroupNet ---------------------------
(***************************************************************************)
(* What the coordinator of a volume group (an access manager's             *)
(* VolumeGroupHandle) and the volume replicas (VolumeMeta on the data      *)
(* managers) share: the messages between them.                             *)
(*                                                                         *)
(* A pair of services talks over one connection, so requests and answers   *)
(* of one direction arrive in the order they were sent; the requests a     *)
(* replica makes are sent by a thread of its service layer and the replies *)
(* to writes by its QoS threads, so adds and replies may pass each other.  *)
(***************************************************************************)
EXTENDS Integers, Sequences, FiniteSets

CONSTANTS
    Replicas,    \* data managers that host the volume, from the DMT
    QuorumCnt,   \* quorumCnt_
    Asserts,     \* is fds_assert compiled in?
    MetaWrites,  \* which of the client's writes are SetVolumeMetadata
    MaxWrites,   \* bound: writes the client issues
    MaxOpens,    \* bound: times the volume is opened
    MaxVersion,  \* bound: incarnations of a replica
    MaxFaults    \* bound: crashes and slow answers

ASSUME GroupAssumption ==
    /\ IsFiniteSet(Replicas)
    /\ QuorumCnt \in 1..Cardinality(Replicas)
    /\ 2 * QuorumCnt > Cardinality(Replicas)
    /\ Asserts \in BOOLEAN
    /\ MetaWrites \subseteq Nat
    /\ {MaxWrites, MaxOpens, MaxVersion, MaxFaults} \subseteq Nat
    /\ MaxVersion # 0

OPSTARTID     == 0
VERSION_START == 2

VARIABLES
    up,       \* data managers that are running
    toDm,     \* coordinator to replica: requests, and answers to adds
    replies,  \* replica to coordinator: answers to opens and writes
    adds,     \* replica to coordinator: AddToVolumeGroupCtrlMsg
    faults    \* faults so far

netVars == <<up, toDm, replies, adds, faults>>

NetInit ==
    /\ up = Replicas
    /\ toDm = [r \in Replicas |-> <<>>]
    /\ replies = [r \in Replicas |-> <<>>]
    /\ adds = [r \in Replicas |-> <<>>]
    /\ faults = 0

OpenMsg(id)            == [type |-> "open", id |-> id]
WriteMsg(w, op, seq)   == [type |-> "write", w |-> w, op |-> op, seq |-> seq,
                           direct |-> FALSE]
Replayed(m)            == [m EXCEPT !.direct = TRUE]  \* fire and forget
GroupMsg(op, seq, f)   == [type |-> "group", op |-> op, seq |-> seq, func |-> f]
JoinedMsg(v, op, seq, f) == [type |-> "joined", version |-> v, op |-> op,
                             seq |-> seq, func |-> f]
JoinRefused(v)         == [type |-> "refused", version |-> v]

OpenedMsg(id, seq, v)  == [type |-> "opened", id |-> id, seq |-> seq, version |-> v]
OpenRefused(id)        == [type |-> "openerr", id |-> id]
WriteReply(w, ok)      == [type |-> "reply", w |-> w, ok |-> ok]

AddMsg(target, v, op)  == [target |-> target, version |-> v, op |-> op]

(* Sending to a data manager that is down fails at once. *)
SendTo(ch, rs, m) ==
    [r \in Replicas |-> IF r \in rs \cap up THEN Append(ch[r], m) ELSE ch[r]]

(* Is there a message of this kind in a channel? *)
Holds(ch, P(_)) == \E i \in 1..Len(ch) : P(ch[i])

(* A slow answer or a crash, as long as the bound on faults allows. *)
Fault == faults < MaxFaults /\ faults' = faults + 1

=============================================================================
