-------------------------- MODULE QuorumSvcRequest --------------------------
(***************************************************************************)
(* QuorumSvcRequest: one message to every endpoint, the client called back *)
(* when quorumCnt_ of them succeeded, when that has become impossible, or, *)
(* with waitForAllResponses_, when all have answered.  VolumeGroupHandle   *)
(* uses it to prepare an open and to broadcast the group's state.          *)
(***************************************************************************)
EXTENDS SvcEndpoints

VARIABLES
    sendIdx,      \* endpoints invokeWork_ has gone through
    tracked,      \* not yet complete, in the request tracker
    quorumCnt,    \* quorumCnt_
    waitForAll,   \* waitForAllResponses_
    fireAndForget,\* fireAndForget_: the client set no respCb_
    respCb,       \* respCb_ is set
    successAckd, errorAckd, response,  \* the fields of these names
    calls         \* codes respCb_ was called with

config == <<quorumCnt, waitForAll, fireAndForget>>
acks   == <<successAckd, errorAckd, response>>
vars   == <<epVars, sendIdx, tracked, config, respCb, acks, calls>>

(* invoke() has scheduled invokeWork_ on the executor. *)
Init ==
    /\ EpInit
    /\ sendIdx = 0 /\ tracked = TRUE
    /\ quorumCnt \in Eps /\ waitForAll \in BOOLEAN
    /\ fireAndForget \in BOOLEAN /\ respCb = ~fireAndForget
    /\ successAckd = 0 /\ errorAckd = 0 /\ response = "OK"
    /\ calls = <<>>

(* One turn of the loop of invokeWork_. *)
InvokeWork ==
    /\ sendIdx < NumEps
    /\ sendIdx' = sendIdx + 1
    /\ Send(sendIdx + 1, fireAndForget)
    /\ UNCHANGED <<tracked, config, respCb, acks, calls>>

(* asyncRespHandler takes the next answer once invokeWork_ has returned. *)
Dequeue ==
    /\ sendIdx = NumEps
    /\ answers # <<>>
    /\ answers' = Tail(answers)

(* Answers to a retired request or a completed endpoint are drained. *)
DropAnswer ==
    /\ Dequeue
    /\ ~tracked \/ epState[Head(answers).from] = "COMPLETE"
    /\ UNCHANGED <<epState, epCode, timer, remote, sendIdx, tracked, config,
                   respCb, acks, calls>>

(* Fault: the error branch counts from the quorum, not from its complement. *)
VerdictOffByOne(s, e, r) ==
    CASE waitForAll  -> IF s + e # NumEps THEN "none"
                        ELSE IF s >= quorumCnt THEN "OK" ELSE r
      [] ~waitForAll -> IF s = quorumCnt THEN "OK"
                        ELSE IF e >= NumEps - quorumCnt THEN r ELSE "none"

(* The code respCb_ is due with, "none" as long as it is not due. *)
Verdict(s, e, r) ==
    CASE waitForAll  -> IF s + e # NumEps THEN "none"
                        ELSE IF s >= quorumCnt THEN "OK" ELSE r
      [] ~waitForAll -> IF s = quorumCnt THEN "OK"
                        ELSE IF e > NumEps - quorumCnt THEN r ELSE "none"

(* Fault: respCb_ is not cleared after it was called. *)
RespondKeepsCb(v) ==
    /\ calls' = IF respCb /\ v # "none" THEN Append(calls, v) ELSE calls
    /\ UNCHANGED respCb

(* Fault: respCb_ is called for every answer, due or not. *)
RespondUndue(v) ==
    IF respCb THEN calls' = Append(calls, v) /\ respCb' = FALSE
              ELSE UNCHANGED <<calls, respCb>>

Respond(v) ==
    IF respCb /\ v # "none"
    THEN calls' = Append(calls, v) /\ respCb' = FALSE
    ELSE UNCHANGED <<calls, respCb>>

(* Fault: an answer of an endpoint that has answered already is counted. *)
CountAnswerTwice ==
    /\ Dequeue
    /\ tracked
    /\ LET a == Head(answers)
           ok == a.code \in Success
       IN /\ Complete(a.from, a.code)
          /\ successAckd' = successAckd + (IF ok THEN 1 ELSE 0)
          /\ errorAckd' = errorAckd + (IF ok THEN 0 ELSE 1)
          /\ response' = IF ~ok /\ response = "OK" THEN a.code ELSE response
    /\ Respond(Verdict(successAckd', errorAckd', response'))
    /\ tracked' = (successAckd' + errorAckd' # NumEps)
    /\ UNCHANGED <<remote, sendIdx, config>>

(* handleResponse of an endpoint's first answer. *)
CountAnswer ==
    /\ Dequeue
    /\ tracked /\ epState[Head(answers).from] # "COMPLETE"
    /\ LET a == Head(answers)
           ok == a.code \in Success
       IN /\ Complete(a.from, a.code)
          /\ successAckd' = successAckd + (IF ok THEN 1 ELSE 0)
          /\ errorAckd' = errorAckd + (IF ok THEN 0 ELSE 1)
          /\ response' = IF ~ok /\ response = "OK" THEN a.code ELSE response
    /\ Respond(Verdict(successAckd', errorAckd', response'))
    /\ tracked' = (successAckd' + errorAckd' # NumEps)
    /\ UNCHANGED <<remote, sendIdx, config>>

EnvStep(e) ==
    /\ RemoteAnswers(e) \/ TimerFires(e)
    /\ UNCHANGED <<sendIdx, tracked, config, respCb, acks, calls>>

Next ==
    \/ InvokeWork \/ DropAnswer \/ CountAnswer
    \/ \E e \in Eps : EnvStep(e)

(***************************************************************************)
(* The executor runs what is queued and an armed timer goes off.  Nothing  *)
(* is assumed of the remote services.                                      *)
(***************************************************************************)
Spec == Init /\ [][Next]_vars

FairSpec ==
    /\ Spec
    /\ WF_vars(InvokeWork) /\ WF_vars(DropAnswer \/ CountAnswer)
    /\ \A e \in Eps : WF_vars(TimerFires(e) /\ EnvStep(e))

---------------------------------------------------------------------------
TypeOK ==
    /\ EpTypeOK
    /\ sendIdx \in 0..NumEps
    /\ tracked \in BOOLEAN
    /\ quorumCnt \in Eps /\ waitForAll \in BOOLEAN /\ fireAndForget \in BOOLEAN
    /\ respCb \in BOOLEAN
    /\ successAckd \in 0..NumEps /\ errorAckd \in 0..NumEps
    /\ response \in Codes
    /\ calls \in Seq(Codes)

Succeeded == {e \in Eps : epCode[e] \in Success}
Failed    == {e \in Eps : epCode[e] \notin Success \cup {"none"}}

(***************************************************************************)
(* The verdict agrees with the endpoints whatever the order, number and    *)
(* origin of the answers: OK means a quorum of different endpoints         *)
(* succeeded, an error that too many failed for a quorum ever to come, and *)
(* the code is one an endpoint failed with.                                *)
(***************************************************************************)
VerdictSound ==
    \A i \in 1..Len(calls) :
        IF calls[i] = "OK"
        THEN Cardinality(Succeeded) >= quorumCnt
        ELSE /\ Cardinality(Failed) > NumEps - quorumCnt
             /\ \E e \in Failed : calls[i] = epCode[e]

(***************************************************************************)
(* The client never waits for an endpoint it does not need: unless it      *)
(* asked for all responses, respCb_ was called as soon as the verdict is   *)
(* decided, and with all responses it waits for the last one.              *)
(***************************************************************************)
VerdictPrompt ==
    ~fireAndForget =>
        ((calls # <<>>) <=>
            IF waitForAll
            THEN \A e \in Eps : epState[e] = "COMPLETE"
            ELSE \/ Cardinality(Succeeded) >= quorumCnt
                 \/ Cardinality(Failed) > NumEps - quorumCnt)

(***************************************************************************)
(* A request leaves the tracker when its last endpoint has answered, and   *)
(* no timer that would fire into a retired request is left armed.          *)
(***************************************************************************)
RetiredIsQuiet ==
    ~tracked <=> (\A e \in Eps : epState[e] = "COMPLETE" /\ e \notin timer)

(* What the client is told; of a fire-and-forget request, its retirement. *)
Notified ==
    CASE ~fireAndForget           -> calls
      [] fireAndForget /\ tracked -> <<>>
      [] OTHER                    -> <<"OK">>

(***************************************************************************)
(* The request implements the contract of service requests: exactly one    *)
(* callback, then retirement, even if no service ever answers.             *)
(***************************************************************************)
Contract == INSTANCE SvcRequestContract
                WITH Verdicts <- Codes, calls <- Notified
HonoursContract == Contract!Spec

=============================================================================
