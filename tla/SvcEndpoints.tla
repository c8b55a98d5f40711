---------------------------- MODULE SvcEndpoints ----------------------------
(***************************************************************************)
(* The endpoint requests (EPSvcRequest) a multi-endpoint service request   *)
(* is made of, with the transport under them: SvcMgr sends, the remote     *)
(* service, the request timers and the task executor on which answers are  *)
(* queued (svc_request/SvcRequest.cpp, SvcMgr.cpp, SvcPlatNetHandler.cpp). *)
(*                                                                         *)
(* One endpoint can produce several answers: the reply of the remote, an   *)
(* INVOCATION error from a failed send (the timer is armed all the same),  *)
(* a TIMEOUT, and for fire-and-forget a simulated empty reply.  They are   *)
(* queued on the executor under the key of the request, so invokeWork_ and *)
(* the handling of answers never overlap.                                  *)
(***************************************************************************)
EXTENDS Naturals, Sequences, FiniteSets

CONSTANTS
    NumEps,    \* epReqs_.size()
    AppCodes,  \* error codes a remote service may answer with
    Tolerated  \* error codes epAppStatusCb_ takes for a success

ASSUME EndpointsAssumption ==
    /\ NumEps \in Nat \ {0}
    /\ "OK" \notin AppCodes /\ "none" \notin AppCodes
    /\ Tolerated \subseteq AppCodes

(* The two errors of the sender itself: SvcMgr, SvcRequest and its timer    *)
(* make them up, no service answers with them.                             *)
ASSUME SenderErrorsAssumption ==
    "INVOCATION" \notin AppCodes /\ "TIMEOUT" \notin AppCodes

Eps     == 1..NumEps
Codes   == {"OK", "INVOCATION", "TIMEOUT"} \cup AppCodes
Success == {"OK"} \cup Tolerated

EpStates == {"PRIOR_INVOCATION", "INVOCATION_PROGRESS", "COMPLETE"}

VARIABLES
    epState,  \* state_ of each endpoint request
    epCode,   \* code it was completed with, "none" before
    timer,    \* endpoints whose SvcRequestTimer is armed
    remote,   \* endpoints whose service holds the request, unanswered
    answers   \* answers queued on the task executor

epVars == <<epState, epCode, timer, remote, answers>>

EpInit ==
    /\ epState = [e \in Eps |-> "PRIOR_INVOCATION"]
    /\ epCode = [e \in Eps |-> "none"]
    /\ timer = {} /\ remote = {} /\ answers = <<>>

Answer(e, c) == [from |-> e, code |-> c]

(* The two answers the sender may post to itself while it sends. *)
SendError(e, failed) ==
    IF failed THEN <<Answer(e, "INVOCATION")>> ELSE <<>>
EmptyResponse(e, fireAndForget) ==
    IF fireAndForget THEN <<Answer(e, "OK")>> ELSE <<>>

(* EPSvcRequest::invokeWork_ and sendPayload_. *)
Send(e, fireAndForget) ==
    /\ epState[e] = "PRIOR_INVOCATION"
    /\ epState' = [epState EXCEPT ![e] = "INVOCATION_PROGRESS"]
    /\ \E failed \in BOOLEAN :
          /\ answers' = answers \o SendError(e, failed)
                                \o EmptyResponse(e, fireAndForget)
          /\ remote' = IF failed THEN remote ELSE remote \cup {e}
    /\ timer' = IF fireAndForget THEN timer ELSE timer \cup {e}
    /\ UNCHANGED epCode

(* Fault: completing an endpoint request leaves its timer armed. *)
CompleteKeepsTimer(e, c) ==
    /\ epState' = [epState EXCEPT ![e] = "COMPLETE"]
    /\ epCode' = [epCode EXCEPT ![e] = c]
    /\ UNCHANGED timer

(* TrackableRequest::complete of an endpoint request. *)
Complete(e, c) ==
    /\ epState' = [epState EXCEPT ![e] = "COMPLETE"]
    /\ epCode' = [epCode EXCEPT ![e] = c]
    /\ timer' = timer \ {e}

(* The remote service answers; nothing obliges it to. *)
RemoteAnswers(e) ==
    /\ e \in remote
    /\ remote' = remote \ {e}
    /\ \E c \in {"OK"} \cup AppCodes : answers' = Append(answers, Answer(e, c))
    /\ UNCHANGED <<epState, epCode, timer>>

(* Fault: the timer goes off without posting the error. *)
TimerFiresSilently(e) ==
    /\ e \in timer
    /\ timer' = timer \ {e}
    /\ UNCHANGED <<epState, epCode, remote, answers>>

(* SvcRequestTimer::runTimerTask; a late cancel cannot recall its answer. *)
TimerFires(e) ==
    /\ e \in timer
    /\ timer' = timer \ {e}
    /\ answers' = Append(answers, Answer(e, "TIMEOUT"))
    /\ UNCHANGED <<epState, epCode, remote>>

EpTypeOK ==
    /\ epState \in [Eps -> EpStates]
    /\ epCode \in [Eps -> Codes \cup {"none"}]
    /\ timer \subseteq Eps
    /\ remote \subseteq Eps
    /\ answers \in Seq([from : Eps, code : Codes])

=============================================================================
