---------------------------- MODULE VolumeGroup ----------------------------
(***************************************************************************)
(* A volume group: one coordinator, its replicas and the messages between  *)
(* them.                                                                   *)
(***************************************************************************)
EXTENDS VolumeGroupHandle, VolumeReplica

vars == <<netVars, handleVars, dm>>

Init == NetInit /\ HandleInit /\ DmInit

Coordinator == HandleStep /\ UNCHANGED dm
Replica(r)  == ReplicaStep(r) /\ UNCHANGED handleVars

Next == Coordinator \/ \E r \in Replicas : Replica(r)

Spec == Init /\ [][Next]_vars

---------------------------------------------------------------------------
(* Types of what coordinator and replicas keep. *)
TypeOK ==
    /\ up \subseteq Replicas
    /\ gstate \in {"Unknown", "Loading", "Active", "Offline"}
    /\ opening \in {"none", "prepare", "broadcast"}
    /\ opSeqNo \in 0..MaxWrites /\ commitNo \in 0..MaxWrites
    /\ acked \subseteq DOMAIN reqs
    /\ \A r \in Replicas :
          /\ handle[r] \in [state : {"Offline", "Syncing", "Active"},
                            version : 0..MaxVersion, applied : 0..MaxWrites]
          /\ dm[r].state \in {"Offline", "Loading", "Syncing", "Active"}
          /\ dm[r].version \in 1..MaxVersion
          /\ dm[r].seq \in 0..MaxWrites /\ dm[r].opId \in 0..MaxWrites
          /\ dm[r].data \subseteq (DOMAIN reqs) \X (1..MaxWrites)

(* Writes on the way to a replica; what it has; and what it will have.     *)
PendingWrites(r) == {m \in {toDm[r][i] : i \in DOMAIN toDm[r]} : m.type = "write"}
Has(r)       == {x[1] : x \in dm[r].data}
HasOrGets(r) == Has(r) \cup {m.w : m \in PendingWrites(r)}

(* Coordinator and replica agree that this incarnation of r is functional. *)
InService(r) ==
    /\ dm[r].state = "Active"
    /\ handle[r].state = "Active"
    /\ handle[r].version = dm[r].version

(* A replica that may serve reads (it is functional for the coordinator    *)
(* and active) has every write the client was told is done, or the write   *)
(* is ahead of any read in its queue.                                      *)
FunctionalCurrent ==
    \A r \in Replicas : InService(r) => acked \subseteq HasOrGets(r)

(* Replicas in service have, or will have, the same writes: also the ones  *)
(* that failed, and whether they got them as requests, by migration or by  *)
(* replay from either buffer.                                              *)
Agreement ==
    \A r, s \in Replicas :
       InService(r) /\ InService(s) => HasOrGets(r) = HasOrGets(s)

(* A blob commit the client was told is done stays with a quorum of the    *)
(* replicas or on its way there, whichever replica fails, resyncs from     *)
(* another (and loses what that one has not got yet) or whether the        *)
(* coordinator fails.  Metadata writes are not kept so: see OpenKeepsAcked.*)
AckedHeld ==
    \A w \in acked \ MetaWrites : Cardinality({r \in Replicas : w \in HasOrGets(r)}) >= QuorumCnt

(* The replicas an open declares functional have every blob commit that an *)
(* earlier coordinator told the client is done.  A metadata write has no   *)
(* such promise: it does not raise the ids an open compares.               *)
OpenKeepsAcked ==
    opening = "broadcast" =>
       \A r \in FunctionalReplicas(handle) : acked \ MetaWrites \subseteq Has(r)

(* fds_verify(volumeHandle->appliedOpId+1 == hdr.opId) never fails: the    *)
(* answers of an incarnation of a replica come in the order of the writes. *)
VerifyHolds == "verify" \notin fatal

(* The incarnation of a replica that the coordinator has, or that a        *)
(* message of the replica names, is one the replica reached and keeps      *)
(* through crashes: an open and a sync begin under a version saved before  *)
(* it is told, so the next incarnation is never taken for an old one.      *)
VersionsReached ==
    \A r \in Replicas :
       /\ handle[r].version <= dm[r].version
       /\ \A i \in DOMAIN adds[r] : adds[r][i].version <= dm[r].version

(* The sequence id by which an open compares replicas covers every write   *)
(* in the replica's catalogue, whether it came as a request, from the      *)
(* buffer or by migration, and also after a crash: a replica never claims  *)
(* less than it has.                                                       *)
CatalogueCovered ==
    \A r \in Replicas : \A x \in Blobs(dm[r].data) : x[2] <= dm[r].seq

---------------------------------------------------------------------------
(* What a comment of the source says and the code does not keep. *)

(* VolumeGroupHandle: "Ensures IO is replicated in order to all the        *)
(* volumes in the group": when nothing is on its way, the replicas in      *)
(* service have the same catalogue.                                        *)
ReplicatedToAll ==
    (\A r \in Replicas : toDm[r] = <<>> /\ replies[r] = <<>> /\ adds[r] = <<>>)
       => \A r, s \in Replicas :
             InService(r) /\ InService(s) => dm[r].data = dm[s].data

=============================================================================
