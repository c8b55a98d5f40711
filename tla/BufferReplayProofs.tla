------------------------- MODULE BufferReplayProofs -------------------------
(***************************************************************************)
(* Proofs about BufferReplay, for every number of operations, batch size,  *)
(* migration snapshot and fault set.  UseAffinity is assumed where the     *)
(* result needs it: without it replayWork_ can be posted twice.            *)
(***************************************************************************)
EXTENDS BufferReplay, TLAPS

(* Nothing is being replayed and nothing is about to be. *)
Quiet ==
    /\ tasks = 0 /\ notifying = 0 /\ inflight = 0 /\ nOutstanding = 0
    /\ sent = nReplayOpsIssued

(* Every operation of the batch is still to be sent, in flight, or         *)
(* acknowledged.                                                           *)
Accounting == nOutstanding = (nReplayOpsIssued - sent) + inflight

(* There is one token: a queued task, an acknowledgement about to post, or *)
(* an outstanding batch.                                                   *)
OneToken ==
    /\ tasks \in {0, 1} /\ notifying \in {0, 1}
    /\ tasks = 1 => replayWorkPosted /\ notifying = 0 /\ nOutstanding = 0
    /\ notifying = 1 /\ replayWorkPosted => nOutstanding = 0
    /\ nOutstanding > 0 => ~replayWorkPosted
    /\ thr # "replay" => sent = nReplayOpsIssued
    /\ thr \in {"cbAborted", "cbComplete", "cbCaughtup"} => notifying = 0

(* What is known of the phases. *)
Phases ==
    /\ ~started => /\ Quiet /\ thr = "idle" /\ nReplayOpsIssued = 0
                   /\ progress \in {"IDLE", "BUFFERING", "ABORTED"}
    /\ progress \in {"IDLE", "BUFFERING"} => ~started /\ cbs = <<>>
    /\ progress = "IDLE" => nBufferedOps = 0 /\ arrived = 0
    /\ thr = "replay" => progress \in {"BUFFERING_REPLAYING", "ABORTED"}
    /\ progress \in {"REPLAY_CAUGHTUP", "COMPLETE"} =>
           nReplayOpsIssued = nBufferedOps
    /\ progress = "COMPLETE" => Quiet

(* Terminal callbacks, made or about to be made. *)
Callbacks ==
    /\ abortCb \in {0, 1}
    /\ abortCb = 1 => /\ progress = "ABORTED" /\ cbs = <<>>
                      /\ Quiet /\ thr = "idle"
    /\ thr \in {"cbAborted", "cbComplete"} => Quiet
    /\ thr = "cbAborted" => progress = "ABORTED"
    /\ thr = "cbComplete" => /\ progress \in Terminal
                             /\ nReplayOpsIssued = nBufferedOps
    /\ \A i \in 1..Len(cbs) : cbs[i] \in Terminal =>
           /\ i = Len(cbs)
           /\ Quiet /\ thr = "idle" /\ abortCb = 0
           /\ progress \in Terminal
           /\ cbs[i] = "COMPLETE" => nReplayOpsIssued = nBufferedOps

(* The last operation on the QoS queue, by phase. *)
LastOp ==
    /\ svc = "enqueue" => /\ sent = nBufferedOps /\ thr # "replay"
                          /\ progress \in {"REPLAY_CAUGHTUP"} \cup Terminal
    /\ progress \in {"IDLE", "BUFFERING", "BUFFERING_REPLAYING"} =>
           arrived = nBufferedOps
    /\ /\ \/ thr = "replay"
          \/ progress \in {"IDLE", "BUFFERING", "BUFFERING_REPLAYING"}
       /\ sent <= Snapshot
       => qos = <<>>
    /\ qos # <<>> =>
           /\ svc = "enqueue" => qos[Len(qos)] = arrived - 1
           /\ progress \in {"IDLE", "BUFFERING", "BUFFERING_REPLAYING"} =>
                  qos[Len(qos)] = sent
           /\ sent < nReplayOpsIssued => qos[Len(qos)] = sent
           /\ progress \in {"REPLAY_CAUGHTUP", "COMPLETE"} /\ svc = "recv" =>
                  qos[Len(qos)] = arrived

IInv == /\ TypeOK /\ Accounting /\ OneToken /\ Phases /\ Callbacks
        /\ LastOp /\ QosOrder

---------------------------------------------------------------------------
(* The initial state has the right types, the uninitialised flag included. *)
LEMMA TypeInit == Init => TypeOK
<1> SUFFICES ASSUME Init PROVE TypeOK
  OBVIOUS
<1>1. replayWorkPosted \in BOOLEAN /\ started \in BOOLEAN
  BY DEF Init
<1> QED
  BY <1>1, ConstantsAssumption DEF ConstantsAssumption, Init, TypeOK, Progress

(* Every step keeps the types: no more operations are issued than were      *)
(* buffered, nor sent than issued, whichever thread acknowledges.           *)
LEMMA TypeStep == TypeOK /\ [Next]_vars => TypeOK'
<1> SUFFICES ASSUME TypeOK, [Next]_vars PROVE TypeOK'
  OBVIOUS
<1> USE ConstantsAssumption DEF ConstantsAssumption
<1>1. CASE InitFiles
  BY <1>1 DEF TypeOK, Progress, InitFiles, bufferVars, threadVars,
     clientVars, inputVars
<1>2. CASE BufferRefused
  BY <1>2 DEF TypeOK, Progress, BufferRefused, Receive, bufferVars,
     threadVars, clientVars, inputVars
<1>3. CASE BufferUnavailable
  BY <1>3 DEF TypeOK, Progress, BufferUnavailable, Receive, bufferVars,
     threadVars, clientVars, inputVars
<1>4. CASE BufferWritten
  BY <1>4 DEF TypeOK, Progress, BufferWritten, Receive, bufferVars,
     threadVars, clientVars, inputVars
<1>5. CASE BufferWriteFailed
  BY <1>5 DEF TypeOK, Progress, BufferWriteFailed, Receive, bufferVars,
     threadVars, clientVars, inputVars
<1>6. CASE EnqueueDirect
  BY <1>6 DEF TypeOK, Progress, EnqueueDirect, bufferVars, threadVars,
     clientVars, inputVars
<1>7. CASE StartReplay
  <2>1. (replayWorkPosted \in BOOLEAN /\ started \in BOOLEAN)'
    BY <1>7 DEF TypeOK, StartReplay, clientVars
  <2> QED
    BY <1>7, <2>1 DEF TypeOK, Progress, StartReplay, bufferVars,
       threadVars, clientVars, inputVars
<1>8. CASE Abort
  BY <1>8 DEF TypeOK, Progress, Abort, AbortLocked, bufferVars, threadVars,
     clientVars, inputVars
<1>9. CASE AbortCallback
  BY <1>9 DEF TypeOK, Progress, AbortCallback, bufferVars, threadVars,
     clientVars, inputVars
<1>10. CASE ReplayWorkAborted
  <2>1. (replayWorkPosted \in BOOLEAN /\ started \in BOOLEAN)'
    BY <1>10 DEF TypeOK, ReplayWorkAborted, ReplayWorkBegin, NotInNotify,
       clientVars
  <2> QED
    BY <1>10, <2>1 DEF TypeOK, Progress, ReplayWorkAborted,
       ReplayWorkBegin, NotInNotify, bufferVars, threadVars, clientVars,
       inputVars
<1>11. CASE ReplayWorkComplete
  <2>1. (replayWorkPosted \in BOOLEAN /\ started \in BOOLEAN)'
    BY <1>11 DEF TypeOK, ReplayWorkComplete, ReplayWorkBegin, NotInNotify,
       clientVars
  <2> QED
    BY <1>11, <2>1 DEF TypeOK, Progress, ReplayWorkComplete,
       ReplayWorkBegin, NotInNotify, bufferVars, threadVars, clientVars,
       inputVars
<1>12. CASE ReplayWorkRead
  <2>1. (replayWorkPosted \in BOOLEAN /\ started \in BOOLEAN)'
    BY <1>12 DEF TypeOK, ReplayWorkRead, ReplayWorkBegin, NotInNotify,
       BatchSize, clientVars
  <2> QED
    BY <1>12, <2>1 DEF TypeOK, Progress, ReplayWorkRead, ReplayWorkBegin,
       NotInNotify, BatchSize, bufferVars, threadVars, clientVars,
       inputVars
<1>13. CASE ReplayWorkReadFailed
  <2>1. (replayWorkPosted \in BOOLEAN /\ started \in BOOLEAN)'
    BY <1>13 DEF TypeOK, ReplayWorkReadFailed, ReplayWorkBegin,
       NotInNotify, clientVars
  <2> QED
    BY <1>13, <2>1 DEF TypeOK, Progress, ReplayWorkReadFailed,
       ReplayWorkBegin, NotInNotify, bufferVars, threadVars, clientVars,
       inputVars
<1>14. CASE ReplaySkip
  <2>1. (replayWorkPosted \in BOOLEAN /\ started \in BOOLEAN)'
    BY <1>14 DEF TypeOK, ReplaySkip, NotInNotify, NotifyLocked, clientVars
  <2> QED
    BY <1>14, <2>1 DEF TypeOK, Progress, ReplaySkip, NotInNotify,
       NotifyLocked, bufferVars, threadVars, clientVars, inputVars
<1>15. CASE ReplaySend
  BY <1>15 DEF TypeOK, Progress, ReplaySend, NotInNotify, bufferVars,
     threadVars, clientVars, inputVars
<1>16. CASE CatchupCheck
  BY <1>16 DEF TypeOK, Progress, CatchupCheck, NotInNotify, bufferVars,
     threadVars, clientVars, inputVars
<1>17. CASE ProgressCallback
  BY <1>17 DEF TypeOK, Progress, ProgressCallback, CallbackOf, bufferVars,
     threadVars, clientVars, inputVars
<1>18. CASE NotifyPost
  BY <1>18 DEF TypeOK, Progress, NotifyPost, bufferVars, threadVars,
     clientVars, inputVars
<1>19. CASE ReplyOk
  <2>1. (replayWorkPosted \in BOOLEAN /\ started \in BOOLEAN)'
    BY <1>19 DEF TypeOK, ReplyOk, CanHandleReply, NotifyLocked, clientVars
  <2> QED
    BY <1>19, <2>1 DEF TypeOK, Progress, ReplyOk, CanHandleReply,
       NotifyLocked, bufferVars, threadVars, clientVars, inputVars
<1>20. CASE ReplyGroupError
  <2>1. (replayWorkPosted \in BOOLEAN /\ started \in BOOLEAN)'
    BY <1>20 DEF TypeOK, ReplyGroupError, CanHandleReply, NotifyLocked,
       AbortLocked, clientVars
  <2> QED
    BY <1>20, <2>1 DEF TypeOK, Progress, ReplyGroupError, CanHandleReply,
       NotifyLocked, AbortLocked, bufferVars, threadVars, clientVars,
       inputVars
<1>21. CASE UNCHANGED vars
  BY <1>21 DEF TypeOK, vars, bufferVars, threadVars, clientVars, inputVars
<1> QED
  BY <1>1, <1>2, <1>3, <1>4, <1>5, <1>6, <1>7, <1>8, <1>9, <1>10, <1>11,
     <1>12, <1>13, <1>14, <1>15, <1>16, <1>17, <1>18, <1>19, <1>20, <1>21
     DEF Next, ThreadStep, Reply

(* Every variable of BufferReplay keeps its type in every behaviour. *)
THEOREM TypeCorrect == Spec => []TypeOK
  BY TypeInit, TypeStep, PTL DEF Spec

(* An abort is final: buffer(), startReplay() and both locked sections of   *)
(* replayWork_ look for it before they move progress_.                      *)
THEOREM AbortStays == Spec => AbortIsFinal
<1>1. [Next]_vars => [progress = "ABORTED" => progress' = "ABORTED"]_vars
  <2> SUFFICES ASSUME Next, progress = "ABORTED" PROVE progress' = "ABORTED"
    BY DEF vars, bufferVars
  <2> QED
    BY DEF Next, ThreadStep, Reply, InitFiles, BufferRefused,
       BufferUnavailable, BufferWritten, BufferWriteFailed, EnqueueDirect,
       StartReplay, Abort, AbortLocked, AbortCallback, ReplayWorkAborted,
       ReplayWorkComplete, ReplayWorkRead, ReplayWorkReadFailed, ReplaySkip,
       ReplaySend, CatchupCheck, ProgressCallback, NotifyPost, ReplyOk,
       ReplyGroupError, bufferVars
<1> QED
  BY <1>1, PTL DEF Spec, AbortIsFinal

---------------------------------------------------------------------------
(* The inductive invariant holds initially. *)
LEMMA InvInit == Init => IInv
<1> SUFFICES ASSUME Init PROVE IInv
  OBVIOUS
<1>1. TypeOK
  BY TypeInit
<1>2. Accounting /\ OneToken /\ Phases
  BY DEF Init, Accounting, OneToken, Phases, Quiet
<1>3. Callbacks /\ LastOp /\ QosOrder
  BY DEF Init, Callbacks, LastOp, QosOrder, Terminal
<1> QED
  BY <1>1, <1>2, <1>3 DEF IInv

(* With acknowledgements on the affinity thread every step preserves it. *)
LEMMA InvStep ==
  ASSUME UseAffinity = TRUE, IInv, [Next]_vars
  PROVE  IInv'
<1> USE ConstantsAssumption DEF ConstantsAssumption
<1>0. TypeOK'
  BY TypeStep DEF IInv
<1>1. CASE InitFiles
  BY <1>0, <1>1 DEF IInv, TypeOK, Accounting, OneToken, Phases, Callbacks,
     LastOp, QosOrder, Quiet, Terminal, Progress, InitFiles, bufferVars,
     threadVars, clientVars, inputVars
<1>2. CASE BufferRefused
  BY <1>0, <1>2 DEF IInv, TypeOK, Accounting, OneToken, Phases, Callbacks,
     LastOp, QosOrder, Quiet, Terminal, Progress, BufferRefused, Receive,
     bufferVars, threadVars, clientVars, inputVars
<1>3. CASE BufferUnavailable
  BY <1>0, <1>3 DEF IInv, TypeOK, Accounting, OneToken, Phases, Callbacks,
     LastOp, QosOrder, Quiet, Terminal, Progress, BufferUnavailable,
     Receive, bufferVars, threadVars, clientVars, inputVars
<1>4. CASE BufferWritten
  BY <1>0, <1>4 DEF IInv, TypeOK, Accounting, OneToken, Phases, Callbacks,
     LastOp, QosOrder, Quiet, Terminal, Progress, BufferWritten, Receive,
     bufferVars, threadVars, clientVars, inputVars
<1>5. CASE BufferWriteFailed
  BY <1>0, <1>5 DEF IInv, TypeOK, Accounting, OneToken, Phases, Callbacks,
     LastOp, QosOrder, Quiet, Terminal, Progress, BufferWriteFailed,
     Receive, bufferVars, threadVars, clientVars, inputVars
<1>6. CASE EnqueueDirect
  BY <1>0, <1>6 DEF IInv, TypeOK, Accounting, OneToken, Phases, Callbacks,
     LastOp, QosOrder, Quiet, Terminal, Progress, EnqueueDirect, bufferVars,
     threadVars, clientVars, inputVars
<1>7. CASE StartReplay
  BY <1>0, <1>7 DEF IInv, TypeOK, Accounting, OneToken, Phases, Callbacks,
     LastOp, QosOrder, Quiet, Terminal, Progress, StartReplay, bufferVars,
     threadVars, clientVars, inputVars
<1>8. CASE Abort
  BY <1>0, <1>8 DEF IInv, TypeOK, Accounting, OneToken, Phases, Callbacks,
     LastOp, QosOrder, Quiet, Terminal, Progress, Abort, AbortLocked,
     bufferVars, threadVars, clientVars, inputVars
<1>9. CASE AbortCallback
  BY <1>0, <1>9 DEF IInv, TypeOK, Accounting, OneToken, Phases, Callbacks,
     LastOp, QosOrder, Quiet, Terminal, Progress, AbortCallback, bufferVars,
     threadVars, clientVars, inputVars
<1>10. CASE ReplayWorkAborted
  BY <1>0, <1>10 DEF IInv, TypeOK, Accounting, OneToken, Phases, Callbacks,
     LastOp, QosOrder, Quiet, Terminal, Progress, ReplayWorkAborted,
     ReplayWorkBegin, NotInNotify, bufferVars, threadVars, clientVars,
     inputVars
<1>11. CASE ReplayWorkComplete
  BY <1>0, <1>11 DEF IInv, TypeOK, Accounting, OneToken, Phases, Callbacks,
     LastOp, QosOrder, Quiet, Terminal, Progress, ReplayWorkComplete,
     ReplayWorkBegin, NotInNotify, bufferVars, threadVars, clientVars,
     inputVars
<1>12. CASE ReplayWorkRead
  BY <1>0, <1>12 DEF IInv, TypeOK, Accounting, OneToken, Phases, Callbacks,
     LastOp, QosOrder, Quiet, Terminal, Progress, ReplayWorkRead,
     ReplayWorkBegin, NotInNotify, BatchSize, bufferVars, threadVars,
     clientVars, inputVars
<1>13. CASE ReplayWorkReadFailed
  BY <1>0, <1>13 DEF IInv, TypeOK, Accounting, OneToken, Phases, Callbacks,
     LastOp, QosOrder, Quiet, Terminal, Progress, ReplayWorkReadFailed,
     ReplayWorkBegin, NotInNotify, bufferVars, threadVars, clientVars,
     inputVars
<1>14. CASE ReplaySkip
  BY <1>0, <1>14 DEF IInv, TypeOK, Accounting, OneToken, Phases, Callbacks,
     LastOp, QosOrder, Quiet, Terminal, Progress, ReplaySkip, NotInNotify,
     NotifyLocked, bufferVars, threadVars, clientVars, inputVars
<1>15. CASE ReplaySend
  BY <1>0, <1>15 DEF IInv, TypeOK, Accounting, OneToken, Phases, Callbacks,
     LastOp, QosOrder, Quiet, Terminal, Progress, ReplaySend, NotInNotify,
     bufferVars, threadVars, clientVars, inputVars
<1>16. CASE CatchupCheck
  BY <1>0, <1>16 DEF IInv, TypeOK, Accounting, OneToken, Phases, Callbacks,
     LastOp, QosOrder, Quiet, Terminal, Progress, CatchupCheck, NotInNotify,
     bufferVars, threadVars, clientVars, inputVars
<1>17. CASE ProgressCallback
  BY <1>0, <1>17 DEF IInv, TypeOK, Accounting, OneToken, Phases, Callbacks,
     LastOp, QosOrder, Quiet, Terminal, Progress, ProgressCallback,
     CallbackOf, bufferVars, threadVars, clientVars, inputVars
<1>18. CASE NotifyPost
  BY <1>0, <1>18 DEF IInv, TypeOK, Accounting, OneToken, Phases, Callbacks,
     LastOp, QosOrder, Quiet, Terminal, Progress, NotifyPost, bufferVars,
     threadVars, clientVars, inputVars
<1>19. CASE ReplyOk
  BY <1>0, <1>19 DEF IInv, TypeOK, Accounting, OneToken, Phases, Callbacks,
     LastOp, QosOrder, Quiet, Terminal, Progress, ReplyOk, CanHandleReply,
     NotifyLocked, bufferVars, threadVars, clientVars, inputVars
<1>20. CASE ReplyGroupError
  BY <1>0, <1>20 DEF IInv, TypeOK, Accounting, OneToken, Phases, Callbacks,
     LastOp, QosOrder, Quiet, Terminal, Progress, ReplyGroupError,
     CanHandleReply, NotifyLocked, AbortLocked, bufferVars, threadVars,
     clientVars, inputVars
<1>21. CASE UNCHANGED vars
  BY <1>21 DEF IInv, TypeOK, Accounting, OneToken, Phases, Callbacks,
     LastOp, QosOrder, Quiet, Terminal, Progress, vars, bufferVars,
     threadVars, clientVars, inputVars
<1> QED
  BY <1>1, <1>2, <1>3, <1>4, <1>5, <1>6, <1>7, <1>8, <1>9, <1>10, <1>11,
     <1>12, <1>13, <1>14, <1>15, <1>16, <1>17, <1>18, <1>19, <1>20, <1>21
     DEF Next, ThreadStep, Reply

(* IInv is an invariant of the specification under affinity. *)
THEOREM Invariance == UseAffinity = TRUE => (Spec => []IInv)
<1> SUFFICES ASSUME UseAffinity = TRUE PROVE Spec => []IInv
  OBVIOUS
<1>1. Init => IInv
  BY InvInit
<1>2. IInv /\ [Next]_vars => IInv'
  BY InvStep
<1> QED
  BY <1>1, <1>2, PTL DEF Spec

(* Replayed and direct operations reach the QoS queue in opId order, each   *)
(* once and without a gap (replayWork_'s catch-up check against buffer()).  *)
THEOREM OrderCorrect == UseAffinity = TRUE => (Spec => []QosOrder)
<1>1. IInv => QosOrder
  BY DEF IInv
<1> QED
  BY <1>1, Invariance, PTL

(* The assertions of replayWork_ and notifyOpsReplayed never fail.          *)
THEOREM MutualExclusion == UseAffinity = TRUE => (Spec => []SingleReplayWork)
<1>1. IInv => SingleReplayWork
  BY DEF IInv, TypeOK, Accounting, OneToken, SingleReplayWork
<1> QED
  BY <1>1, Invariance, PTL

(* When the client is told ABORTED or COMPLETE it may delete the object:    *)
(* it is told once, and nothing that uses the object is left.               *)
THEOREM DeleteIsSafe == UseAffinity = TRUE => (Spec => []SafeToDelete)
<1>1. IInv => SafeToDelete
  BY DEF IInv, TypeOK, Callbacks, Quiet, SafeToDelete
<1> QED
  BY <1>1, Invariance, PTL

(* COMPLETE is reported only after every buffered operation was replayed.   *)
THEOREM CompleteIsComplete ==
  UseAffinity = TRUE => (Spec => []CompleteMeansReplayed)
<1>1. IInv => CompleteMeansReplayed
  BY DEF IInv, TypeOK, Callbacks, Quiet, Terminal, CompleteMeansReplayed
<1> QED
  BY <1>1, Invariance, PTL
=============================================================================
