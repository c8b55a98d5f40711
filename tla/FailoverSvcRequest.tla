------------------------- MODULE FailoverSvcRequest -------------------------
(***************************************************************************)
(* FailoverSvcRequest: the endpoints are tried one after the other until   *)
(* one succeeds.  The health check of moveToNextHealthyEndpoint_ is        *)
(* compiled out, so every endpoint counts as healthy.                      *)
(***************************************************************************)
EXTENDS SvcEndpoints

VARIABLES
    state,     \* state_ of the request
    curEpIdx,  \* curEpIdx_, counted from 1
    calls      \* codes respCb_ was called with

vars == <<epVars, state, curEpIdx, calls>>

tracked == state # "COMPLETE"

Init ==
    /\ EpInit
    /\ state = "PRIOR_INVOCATION" /\ curEpIdx = 1 /\ calls = <<>>

(* invokeWork_: the first endpoint is always there. *)
InvokeWork ==
    /\ state = "PRIOR_INVOCATION"
    /\ state' = "INVOCATION_PROGRESS"
    /\ Send(1, FALSE)
    /\ UNCHANGED <<curEpIdx, calls>>

(* Fault: any answer is taken for one of the current endpoint. *)
RelevantFromAnyone(a) == tracked

(* The answers handleResponse acts on. *)
Relevant(a) ==
    /\ tracked
    /\ a.from = curEpIdx
    /\ epState[curEpIdx] # "COMPLETE"

DropAnswer ==
    /\ answers # <<>>
    /\ ~Relevant(Head(answers))
    /\ answers' = Tail(answers)
    /\ UNCHANGED <<epState, epCode, timer, remote, state, curEpIdx, calls>>

(* The current endpoint succeeded, or its error was accepted: respCb_ gets *)
(* the code of the endpoint.                                               *)
AnswerSuccess ==
    /\ answers # <<>>
    /\ LET a == Head(answers)
       IN /\ Relevant(a) /\ a.code \in Success
          /\ Complete(curEpIdx, a.code)
          /\ calls' = Append(calls, a.code)
    /\ answers' = Tail(answers)
    /\ state' = "COMPLETE"
    /\ UNCHANGED <<remote, curEpIdx>>

(* Fault: the endpoint given up is not completed, its timer stays. *)
AnswerFailoverKeepsTimer ==
    /\ answers # <<>>
    /\ LET a == Head(answers)
           e == curEpIdx + 1
       IN /\ Relevant(a) /\ a.code \notin Success
          /\ curEpIdx < NumEps
          /\ curEpIdx' = e
          /\ epState' = [epState EXCEPT ![curEpIdx] = "COMPLETE",
                                        ![e] = "INVOCATION_PROGRESS"]
          /\ epCode' = [epCode EXCEPT ![curEpIdx] = a.code]
          /\ timer' = timer \cup {e}
          /\ \E failed \in BOOLEAN :
                /\ answers' = Tail(answers) \o SendError(e, failed)
                /\ remote' = IF failed THEN remote ELSE remote \cup {e}
    /\ UNCHANGED <<state, calls>>

(* complete() and the next sendPayload_ in one step of the executor. *)
AnswerFailover ==
    /\ answers # <<>>
    /\ LET a == Head(answers)
           e == curEpIdx + 1
       IN /\ Relevant(a) /\ a.code \notin Success
          /\ curEpIdx < NumEps
          /\ curEpIdx' = e
          /\ epState' = [epState EXCEPT ![curEpIdx] = "COMPLETE",
                                        ![e] = "INVOCATION_PROGRESS"]
          /\ epCode' = [epCode EXCEPT ![curEpIdx] = a.code]
          /\ timer' = (timer \ {curEpIdx}) \cup {e}
          /\ \E failed \in BOOLEAN :
                /\ answers' = Tail(answers) \o SendError(e, failed)
                /\ remote' = IF failed THEN remote ELSE remote \cup {e}
    /\ UNCHANGED <<state, calls>>

(* Fault: curEpIdx_ is not decremented after the last endpoint. *)
AnswerExhaustedNoDecrement ==
    /\ answers # <<>>
    /\ LET a == Head(answers)
       IN /\ Relevant(a) /\ a.code \notin Success
          /\ curEpIdx = NumEps
          /\ Complete(curEpIdx, a.code)
          /\ calls' = Append(calls, a.code)
    /\ answers' = Tail(answers)
    /\ state' = "COMPLETE"
    /\ curEpIdx' = curEpIdx + 1
    /\ UNCHANGED remote

(* No endpoint is left: respCb_ gets the last failure code. *)
AnswerExhausted ==
    /\ answers # <<>>
    /\ LET a == Head(answers)
       IN /\ Relevant(a) /\ a.code \notin Success
          /\ curEpIdx = NumEps
          /\ Complete(curEpIdx, a.code)
          /\ calls' = Append(calls, a.code)
    /\ answers' = Tail(answers)
    /\ state' = "COMPLETE"
    /\ UNCHANGED <<remote, curEpIdx>>

EnvStep(e) ==
    /\ RemoteAnswers(e) \/ TimerFires(e)
    /\ UNCHANGED <<state, curEpIdx, calls>>

Executor ==
    InvokeWork \/ DropAnswer \/ AnswerSuccess \/ AnswerFailover \/ AnswerExhausted

Next == Executor \/ \E e \in Eps : EnvStep(e)

Spec == Init /\ [][Next]_vars

(* As for quorum requests: the executor runs and armed timers go off. *)
FairSpec ==
    /\ Spec
    /\ WF_vars(Executor)
    /\ \A e \in Eps : WF_vars(TimerFires(e) /\ EnvStep(e))

---------------------------------------------------------------------------
TypeOK ==
    /\ EpTypeOK
    /\ state \in EpStates
    /\ curEpIdx \in Eps
    /\ calls \in Seq(Codes)

(***************************************************************************)
(* Endpoints are tried in order and one at a time: all before the current  *)
(* one have failed, none after it was touched, and only the current one    *)
(* has a timer.  An answer an earlier endpoint gives after its timeout     *)
(* must not be taken for one of the current endpoint.                      *)
(***************************************************************************)
TriedInOrder ==
    /\ \A e \in Eps : e < curEpIdx => epCode[e] \notin Success \cup {"none"}
    /\ \A e \in Eps : e > curEpIdx => /\ epState[e] = "PRIOR_INVOCATION"
                                      /\ epCode[e] = "none"
                                      /\ e \notin remote
    /\ timer \subseteq {curEpIdx}

(***************************************************************************)
(* The client hears the code of the endpoint the request ended at, a       *)
(* success only if that service did answer, and an error only after every  *)
(* endpoint was tried and failed.                                          *)
(***************************************************************************)
VerdictSound ==
    \A i \in 1..Len(calls) :
        /\ calls[i] = epCode[curEpIdx]
        /\ calls[i] \in Success => curEpIdx \notin remote
        /\ calls[i] \notin Success =>
              \A e \in Eps : epCode[e] \notin Success \cup {"none"}

(***************************************************************************)
(* The contract of service requests: one callback, then retirement, even   *)
(* if no service ever answers.                                             *)
(***************************************************************************)
Contract == INSTANCE SvcRequestContract
                WITH Verdicts <- Codes
HonoursContract == Contract!Spec

=============================================================================
