---------------------------- MODULE BufferReplay ----------------------------
(***************************************************************************)
(* The on-disk operation buffer a syncing DM replica uses while it catches *)
(* up (lib/misc/BufferReplay.cpp), together with the client code that      *)
(* drives it (ReplicaInitializer::startBuffering_) and the service thread  *)
(* that feeds it (Handler::preEnqueueWriteOpHandling).                     *)
(*                                                                         *)
(* Write operations 1, 2, 3 ... arrive from the coordinator in order.  Each*)
(* is either appended to the buffer file or, once replay has caught up,    *)
(* enqueued directly on the volume's QoS queue.  Buffered operations are   *)
(* read back in batches and enqueued by the replay callback.  The k-th     *)
(* buffered operation is operation k, so the file is its length,           *)
(* nBufferedOps.                                                           *)
(*                                                                         *)
(* Threads: one service thread (svc), the pool thread that owns the        *)
(* volume's affinity (thr), and the callers of startReplay and abort.      *)
(* lock_ makes each locked section one step.                               *)
(***************************************************************************)
EXTENDS Integers, Sequences

CONSTANTS
    MaxOps,        \* bound: operations the coordinator sends
    MaxReplayCnt,  \* maxReplayCnt_, the size of a replay batch
    Snapshot,      \* opId the replica holds after static migration
    UseAffinity,   \* do replies run on the thread that runs replayWork_ ?
    Faults         \* disk faults that may occur, a subset of {"write", "read"}

ASSUME ConstantsAssumption ==
    /\ MaxOps \in Nat
    /\ MaxReplayCnt \in Nat \ {0}
    /\ Snapshot \in Nat
    /\ UseAffinity \in BOOLEAN
    /\ Faults \subseteq {"write", "read"}

VARIABLES
    progress,         \* progress_
    nBufferedOps,     \* nBufferedOps_
    nReplayOpsIssued, \* nReplayOpsIssued_
    nOutstanding,     \* nOutstandingReplayOps_
    replayWorkPosted, \* replayWorkPosted_
    tasks,            \* replayWork_ calls queued on the affinity thread
    thr,              \* where the affinity thread is inside replayWork_
    sent,             \* operations the replay callback has gone through
    inflight,         \* replay requests sent to self and not yet answered
    notifying,        \* notifyOpsReplayed calls past the lock, before the read
    started,          \* startReplay has been called
    abortCb,          \* abort() calls about to invoke progressCb_(ABORTED)
    cbs,              \* progress callbacks made, in order
    arrived,          \* operations received from the coordinator
    svc,              \* the service thread: "recv" or "enqueue"
    qos               \* opIds handed to the volume's QoS queue, in order

bufferVars == <<progress, nBufferedOps, nReplayOpsIssued, nOutstanding,
                replayWorkPosted>>
threadVars == <<tasks, thr, sent, inflight, notifying>>
clientVars == <<started, abortCb, cbs>>
inputVars  == <<arrived, svc>>
vars == <<bufferVars, threadVars, clientVars, inputVars, qos>>

Progress == {"IDLE", "BUFFERING", "BUFFERING_REPLAYING", "REPLAY_CAUGHTUP",
             "ABORTED", "COMPLETE"}

Terminal == {"ABORTED", "COMPLETE"}

(***************************************************************************)
(* The constructor leaves replayWorkPosted_ uninitialised.                 *)
(***************************************************************************)
Init ==
    /\ progress = "IDLE"
    /\ nBufferedOps = 0 /\ nReplayOpsIssued = 0 /\ nOutstanding = 0
    /\ replayWorkPosted \in BOOLEAN
    /\ tasks = 0 /\ thr = "idle" /\ sent = 0 /\ inflight = 0 /\ notifying = 0
    /\ started = FALSE /\ abortCb = 0 /\ cbs = <<>>
    /\ arrived = 0 /\ svc = "recv" /\ qos = <<>>

(* init(): the files are open; a failed open leaves the object IDLE. *)
InitFiles ==
    /\ progress = "IDLE"
    /\ progress' = "BUFFERING"
    /\ UNCHANGED <<nBufferedOps, nReplayOpsIssued, nOutstanding,
                   replayWorkPosted, threadVars, clientVars, inputVars, qos>>

---------------------------------------------------------------------------
(* The service thread: preEnqueueWriteOpHandling and buffer(). *)

(* The next operation, while the replica is Syncing or later. *)
Receive ==
    /\ svc = "recv"
    /\ progress # "IDLE"
    /\ arrived < MaxOps
    /\ arrived' = arrived + 1

BufferRefused ==
    /\ Receive
    /\ progress = "ABORTED"
    /\ UNCHANGED <<bufferVars, threadVars, clientVars, svc, qos>>

(* Fault: the COMPLETE test of buffer() is missing. *)
BufferWrittenAfterComplete ==
    /\ Receive
    /\ progress \in {"BUFFERING", "BUFFERING_REPLAYING", "COMPLETE"}
    /\ nBufferedOps' = nBufferedOps + 1
    /\ UNCHANGED <<progress, nReplayOpsIssued, nOutstanding, replayWorkPosted,
                   threadVars, clientVars, svc, qos>>

(* ERR_UNAVAILABLE: the operation takes the normal path. *)
BufferUnavailable ==
    /\ Receive
    /\ progress \in {"REPLAY_CAUGHTUP", "COMPLETE"}
    /\ svc' = "enqueue"
    /\ UNCHANGED <<bufferVars, threadVars, clientVars, qos>>

BufferWritten ==
    /\ Receive
    /\ progress \in {"BUFFERING", "BUFFERING_REPLAYING"}
    /\ nBufferedOps' = nBufferedOps + 1
    /\ UNCHANGED <<progress, nReplayOpsIssued, nOutstanding, replayWorkPosted,
                   threadVars, clientVars, svc, qos>>

(* A short write aborts the buffer; no callback is made here. *)
BufferWriteFailed ==
    /\ "write" \in Faults
    /\ Receive
    /\ progress \in {"BUFFERING", "BUFFERING_REPLAYING"}
    /\ progress' = "ABORTED"
    /\ UNCHANGED <<nBufferedOps, nReplayOpsIssued, nOutstanding,
                   replayWorkPosted, threadVars, clientVars, svc, qos>>

EnqueueDirect ==
    /\ svc = "enqueue"
    /\ qos' = Append(qos, arrived)
    /\ svc' = "recv"
    /\ UNCHANGED <<bufferVars, threadVars, clientVars, arrived>>

---------------------------------------------------------------------------
(* The client: startReplay() once, abort() at any time. *)

StartReplay ==
    /\ ~started
    /\ progress # "IDLE"
    /\ started' = TRUE
    /\ IF progress = "ABORTED"
       THEN UNCHANGED <<progress, replayWorkPosted, tasks>>
       ELSE /\ progress' = "BUFFERING_REPLAYING"
            /\ replayWorkPosted' = TRUE
            /\ tasks' = tasks + 1
    /\ UNCHANGED <<nBufferedOps, nReplayOpsIssued, nOutstanding, thr, sent,
                   inflight, notifying, abortCb, cbs, inputVars, qos>>

(* Fault: abort() calls back whether or not replay has started. *)
AbortLockedAlwaysCb ==
    /\ progress' = "ABORTED"
    /\ abortCb' = abortCb + (IF progress # "ABORTED" THEN 1 ELSE 0)

(* The locked half of abort(). *)
AbortLocked ==
    /\ progress' = "ABORTED"
    /\ abortCb' = abortCb + (IF progress = "BUFFERING" THEN 1 ELSE 0)

Abort ==
    /\ progress \notin {"IDLE", "ABORTED"}
    /\ AbortLocked
    /\ UNCHANGED <<nBufferedOps, nReplayOpsIssued, nOutstanding,
                   replayWorkPosted, threadVars, started, cbs, inputVars, qos>>

(* The half of abort() after the unlock. *)
AbortCallback ==
    /\ abortCb > 0
    /\ abortCb' = abortCb - 1
    /\ cbs' = Append(cbs, "ABORTED")
    /\ UNCHANGED <<bufferVars, threadVars, started, inputVars, qos>>

---------------------------------------------------------------------------
(* The affinity thread. *)

(* Fault: the batch is not cut at the last buffered operation. *)
BatchSizeUncut == MaxReplayCnt

(* It takes new work when it is in neither replayWork_ nor, with affinity, *)
(* notifyOpsReplayed.                                                      *)
NotInNotify == UseAffinity => notifying = 0

BatchSize ==
    IF nBufferedOps - nReplayOpsIssued < MaxReplayCnt
    THEN nBufferedOps - nReplayOpsIssued
    ELSE MaxReplayCnt

(* replayWork_ is taken from the queue: its first locked section. *)
ReplayWorkBegin ==
    /\ thr = "idle" /\ NotInNotify /\ tasks > 0
    /\ tasks' = tasks - 1
    /\ replayWorkPosted' = FALSE

ReplayWorkAborted ==
    /\ ReplayWorkBegin
    /\ progress = "ABORTED"
    /\ thr' = "cbAborted"
    /\ UNCHANGED <<progress, nBufferedOps, nReplayOpsIssued, nOutstanding,
                   sent, inflight, notifying, clientVars, inputVars, qos>>

(* Fault: the catch-up check is made before the batch is sent. *)
ReplayWorkReadEarlyCatchup ==
    /\ ReplayWorkBegin
    /\ progress # "ABORTED"
    /\ nBufferedOps # nReplayOpsIssued
    /\ nOutstanding' = BatchSize
    /\ nReplayOpsIssued' = nReplayOpsIssued + BatchSize
    /\ progress' = IF nReplayOpsIssued' = nBufferedOps THEN "REPLAY_CAUGHTUP"
                                                       ELSE progress
    /\ thr' = "replay"
    /\ UNCHANGED <<nBufferedOps, sent, inflight, notifying,
                   clientVars, inputVars, qos>>

ReplayWorkComplete ==
    /\ ReplayWorkBegin
    /\ progress # "ABORTED"
    /\ nBufferedOps = nReplayOpsIssued
    /\ progress' = "COMPLETE"
    /\ thr' = "cbComplete"
    /\ UNCHANGED <<nBufferedOps, nReplayOpsIssued, nOutstanding,
                   sent, inflight, notifying, clientVars, inputVars, qos>>

ReplayWorkRead ==
    /\ ReplayWorkBegin
    /\ progress # "ABORTED"
    /\ nBufferedOps # nReplayOpsIssued
    /\ nOutstanding' = BatchSize
    /\ nReplayOpsIssued' = nReplayOpsIssued + BatchSize
    /\ thr' = "replay"
    /\ UNCHANGED <<progress, nBufferedOps, sent, inflight, notifying,
                   clientVars, inputVars, qos>>

(* A read fails: the batch is dropped and nothing counts as issued. *)
ReplayWorkReadFailed ==
    /\ "read" \in Faults
    /\ ReplayWorkBegin
    /\ progress # "ABORTED"
    /\ nBufferedOps # nReplayOpsIssued
    /\ progress' = "ABORTED"
    /\ nOutstanding' = 0
    /\ thr' = "cbAborted"
    /\ UNCHANGED <<nBufferedOps, nReplayOpsIssued, sent, inflight, notifying,
                   clientVars, inputVars, qos>>

(* Fault: the accounting stops once an abort was issued. *)
NotifyLockedNotAfterAbort ==
    /\ IF progress = "ABORTED"
       THEN UNCHANGED <<nOutstanding, replayWorkPosted>>
       ELSE /\ nOutstanding' = nOutstanding - 1
            /\ replayWorkPosted' = (replayWorkPosted \/ nOutstanding = 1)
    /\ notifying' = notifying + 1

(* Fault: the work is posted for every acknowledgement of the batch. *)
NotifyLockedEveryTime ==
    /\ nOutstanding' = nOutstanding - 1
    /\ replayWorkPosted' = TRUE
    /\ notifying' = notifying + 1

(* The locked section of notifyOpsReplayed(1); it runs after an abort too. *)
NotifyLocked ==
    /\ nOutstanding' = nOutstanding - 1
    /\ replayWorkPosted' = (replayWorkPosted \/ nOutstanding = 1)
    /\ notifying' = notifying + 1

(* One turn of the loop in replayOpsCb_ for an operation static migration   *)
(* already brought: it is acknowledged on the spot.                         *)
ReplaySkip ==
    /\ thr = "replay" /\ NotInNotify
    /\ sent < nReplayOpsIssued
    /\ sent + 1 <= Snapshot
    /\ sent' = sent + 1
    /\ NotifyLocked
    /\ UNCHANGED <<progress, nBufferedOps, nReplayOpsIssued, tasks, thr,
                   inflight, clientVars, inputVars, qos>>

(* One turn for any other operation: invokeDirect enqueues it on the QoS    *)
(* queue before it returns.                                                 *)
ReplaySend ==
    /\ thr = "replay" /\ NotInNotify
    /\ sent < nReplayOpsIssued
    /\ sent + 1 > Snapshot
    /\ sent' = sent + 1
    /\ qos' = Append(qos, sent + 1)
    /\ inflight' = inflight + 1
    /\ UNCHANGED <<bufferVars, tasks, thr, notifying, clientVars, inputVars>>

(* Fault: the second locked section does not look for an abort. *)
CatchupCheckIgnoresAbort ==
    /\ thr = "replay" /\ NotInNotify
    /\ sent = nReplayOpsIssued
    /\ IF nReplayOpsIssued = nBufferedOps
       THEN progress' = "REPLAY_CAUGHTUP" /\ thr' = "cbCaughtup"
       ELSE thr' = "idle" /\ UNCHANGED progress
    /\ UNCHANGED <<nBufferedOps, nReplayOpsIssued, nOutstanding,
                   replayWorkPosted, tasks, sent, inflight, notifying,
                   clientVars, inputVars, qos>>

(* The second locked section of replayWork_, once the callback returned. *)
CatchupCheck ==
    /\ thr = "replay" /\ NotInNotify
    /\ sent = nReplayOpsIssued
    /\ IF progress # "ABORTED" /\ nReplayOpsIssued = nBufferedOps
       THEN progress' = "REPLAY_CAUGHTUP" /\ thr' = "cbCaughtup"
       ELSE thr' = "idle" /\ UNCHANGED progress
    /\ UNCHANGED <<nBufferedOps, nReplayOpsIssued, nOutstanding,
                   replayWorkPosted, tasks, sent, inflight, notifying,
                   clientVars, inputVars, qos>>

CallbackOf(pc) ==
    CASE pc = "cbAborted"  -> "ABORTED"
      [] pc = "cbComplete" -> "COMPLETE"
      [] pc = "cbCaughtup" -> "REPLAY_CAUGHTUP"

(* replayWork_ calls progressCb_ outside the lock and returns. *)
ProgressCallback ==
    /\ thr \in {"cbAborted", "cbComplete", "cbCaughtup"}
    /\ cbs' = Append(cbs, CallbackOf(thr))
    /\ thr' = "idle"
    /\ UNCHANGED <<bufferVars, tasks, sent, inflight, notifying, started,
                   abortCb, inputVars, qos>>

(* With affinity a reply waits for the affinity thread. *)
CanHandleReply == UseAffinity => (thr = "idle" /\ notifying = 0)

(* A replayed operation is answered: OK, or an error that is not a volume   *)
(* group error and is ignored.                                              *)
ReplyOk ==
    /\ inflight > 0 /\ CanHandleReply
    /\ inflight' = inflight - 1
    /\ NotifyLocked
    /\ UNCHANGED <<progress, nBufferedOps, nReplayOpsIssued, tasks, thr, sent,
                   clientVars, inputVars, qos>>

(* A volume group error (a timeout included) aborts, then notifies. *)
ReplyGroupError ==
    /\ inflight > 0 /\ CanHandleReply
    /\ inflight' = inflight - 1
    /\ AbortLocked
    /\ NotifyLocked
    /\ UNCHANGED <<nBufferedOps, nReplayOpsIssued, tasks, thr, sent,
                   started, cbs, inputVars, qos>>

(* The unlocked tail of notifyOpsReplayed: read replayWorkPosted_, post. *)
NotifyPost ==
    /\ notifying > 0
    /\ notifying' = notifying - 1
    /\ tasks' = tasks + (IF replayWorkPosted THEN 1 ELSE 0)
    /\ UNCHANGED <<bufferVars, thr, sent, inflight, clientVars, inputVars, qos>>

---------------------------------------------------------------------------
ThreadStep ==
    \/ ReplayWorkAborted \/ ReplayWorkComplete
    \/ ReplayWorkRead    \/ ReplayWorkReadFailed
    \/ ReplaySkip \/ ReplaySend \/ CatchupCheck \/ ProgressCallback
    \/ NotifyPost

Reply == ReplyOk \/ ReplyGroupError

Next ==
    \/ InitFiles
    \/ BufferRefused \/ BufferUnavailable \/ BufferWritten \/ BufferWriteFailed
    \/ EnqueueDirect
    \/ StartReplay \/ Abort \/ AbortCallback
    \/ ThreadStep \/ Reply

(***************************************************************************)
(* The pool runs what is queued, a caller of abort() leaves it, and every  *)
(* replay request is answered because it carries a timeout                 *)
(* (bufferReplayIoTimeout_).  startReplay, abort and arrivals are not fair.*)
(***************************************************************************)
Spec == Init /\ [][Next]_vars

FairSpec == Spec /\ WF_vars(ThreadStep) /\ WF_vars(Reply)
                 /\ WF_vars(AbortCallback)

---------------------------------------------------------------------------
TypeOK ==
    /\ progress \in Progress
    /\ nBufferedOps \in 0..arrived
    /\ nReplayOpsIssued \in 0..nBufferedOps
    /\ nOutstanding \in Int
    /\ replayWorkPosted \in BOOLEAN
    /\ tasks \in Nat
    /\ thr \in {"idle", "replay", "cbAborted", "cbComplete", "cbCaughtup"}
    /\ sent \in 0..nReplayOpsIssued
    /\ inflight \in Nat /\ notifying \in Nat
    /\ started \in BOOLEAN /\ abortCb \in Nat
    /\ cbs \in Seq({"REPLAY_CAUGHTUP", "ABORTED", "COMPLETE"})
    /\ arrived \in 0..MaxOps
    /\ svc \in {"recv", "enqueue"}
    /\ qos \in Seq(Nat)

(***************************************************************************)
(* Replayed and direct operations share one QoS queue: they enter it in    *)
(* opId order, each once, with no gap, although two threads put them there.*)
(***************************************************************************)
QosOrder ==
    \A i \in 1..(Len(qos) - 1) : qos[i + 1] = qos[i] + 1

(***************************************************************************)
(* The assertions of replayWork_ and notifyOpsReplayed ("mutually          *)
(* exclusive"): a queued replayWork_ finds nothing outstanding and its     *)
(* post flag set, and there is never a second one behind it.               *)
(***************************************************************************)
SingleReplayWork ==
    /\ tasks <= 1
    /\ tasks = 1 => nOutstanding = 0 /\ replayWorkPosted
    /\ nOutstanding >= 0

(***************************************************************************)
(* A terminal callback tells the client it is safe to delete the object:   *)
(* it is made once, and by then nothing is outstanding and no call into    *)
(* the object is queued on the pool.                                       *)
(***************************************************************************)
SafeToDelete ==
    LET done == {i \in 1..Len(cbs) : cbs[i] \in Terminal} IN
    done # {} =>
        /\ done = {Len(cbs)}
        /\ abortCb = 0 /\ tasks = 0 /\ thr = "idle"
        /\ nOutstanding = 0 /\ inflight = 0 /\ notifying = 0

(***************************************************************************)
(* COMPLETE is only reported when every buffered operation has been        *)
(* replayed and acknowledged, and none is accepted after that.             *)
(***************************************************************************)
CompleteMeansReplayed ==
    (\E i \in 1..Len(cbs) : cbs[i] = "COMPLETE") =>
        sent = nBufferedOps /\ inflight = 0

(***************************************************************************)
(* An abort is never undone, whatever the replay thread was in the middle  *)
(* of when it came.                                                        *)
(***************************************************************************)
AbortIsFinal ==
    [][progress = "ABORTED" => progress' = "ABORTED"]_vars

(***************************************************************************)
(* A replay that startReplay() took up ends in a terminal callback: read   *)
(* faults, short writes, group errors and aborts, in every order, never    *)
(* leave it with nobody who would post the next batch or the callback.     *)
(***************************************************************************)
ReplayTakenConcludes ==
    (started /\ progress # "ABORTED")
        ~> (\E i \in 1..Len(cbs) : cbs[i] \in Terminal)

(***************************************************************************)
(* Once replay is started the client hears the outcome: "ABORTED -         *)
(* Completed due to an error / explicit abort" or COMPLETE.                *)
(***************************************************************************)
ReplayConcludes ==
    started ~> (\E i \in 1..Len(cbs) : cbs[i] \in Terminal)

=============================================================================
