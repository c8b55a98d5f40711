----------------------- MODULE MultiPrimarySvcRequest -----------------------
(***************************************************************************)
(* MultiPrimarySvcRequest: the first primariesCnt_ endpoints are primaries,*)
(* the others optional.  respCb_ is called when the primaries have         *)
(* answered, allRespondedCb_ when everybody has.  The access manager       *)
(* sends its object puts and catalogue updates this way.                   *)
(***************************************************************************)
EXTENDS SvcEndpoints

CONSTANT PrimariesCnt  \* primariesCnt_

ASSUME PrimariesAssumption == PrimariesCnt \in 1..NumEps

VARIABLES
    sendIdx,                       \* endpoints invokeWork_ has gone through
    tracked,                       \* in the request tracker
    primaryAckdCnt, totalAckdCnt,  \* the fields of these names
    response,                      \* response_: first error of a primary
    failedPrimaries, failedOptionals,
    calls,                         \* codes respCb_ was called with
    allCalls                       \* codes allRespondedCb_ was called with

acks == <<primaryAckdCnt, totalAckdCnt, response, failedPrimaries,
          failedOptionals>>
vars == <<epVars, sendIdx, tracked, acks, calls, allCalls>>

Primaries == 1..PrimariesCnt

Init ==
    /\ EpInit
    /\ sendIdx = 0 /\ tracked = TRUE
    /\ primaryAckdCnt = 0 /\ totalAckdCnt = 0 /\ response = "OK"
    /\ failedPrimaries = {} /\ failedOptionals = {}
    /\ calls = <<>> /\ allCalls = <<>>

(* One turn of the loop of invokeWork_. *)
InvokeWork ==
    /\ sendIdx < NumEps
    /\ sendIdx' = sendIdx + 1
    /\ Send(sendIdx + 1, FALSE)
    /\ UNCHANGED <<tracked, acks, calls, allCalls>>

Dequeue ==
    /\ sendIdx = NumEps
    /\ answers # <<>>
    /\ answers' = Tail(answers)

DropAnswer ==
    /\ Dequeue
    /\ ~tracked \/ epState[Head(answers).from] = "COMPLETE"
    /\ UNCHANGED <<epState, epCode, timer, remote, sendIdx, tracked, acks,
                   calls, allCalls>>

(* Fault: an optional endpoint's error becomes the response. *)
CountAckAnyError(a) ==
    LET primary == a.from \in Primaries
        ok == a.code \in Success
    IN /\ primaryAckdCnt' = primaryAckdCnt + (IF primary THEN 1 ELSE 0)
       /\ totalAckdCnt' = totalAckdCnt + 1
       /\ failedPrimaries' = IF ~ok /\ primary THEN failedPrimaries \cup {a.from}
                                               ELSE failedPrimaries
       /\ failedOptionals' = IF ~ok /\ ~primary THEN failedOptionals \cup {a.from}
                                                ELSE failedOptionals
       /\ response' = IF ~ok /\ response = "OK" THEN a.code ELSE response

(* The counters, the failed endpoints and response_. *)
CountAck(a) ==
    LET primary == a.from \in Primaries
        ok == a.code \in Success
    IN /\ primaryAckdCnt' = primaryAckdCnt + (IF primary THEN 1 ELSE 0)
       /\ totalAckdCnt' = totalAckdCnt + 1
       /\ failedPrimaries' = IF ~ok /\ primary THEN failedPrimaries \cup {a.from}
                                               ELSE failedPrimaries
       /\ failedOptionals' = IF ~ok /\ ~primary THEN failedOptionals \cup {a.from}
                                                ELSE failedOptionals
       /\ response' = IF ~ok /\ primary /\ response = "OK" THEN a.code
                                                           ELSE response

(* Fault: respCb_ is called once as many answers as primaries are in. *)
RespondAnyCount ==
    calls' = IF totalAckdCnt' = PrimariesCnt /\ calls = <<>>
             THEN Append(calls, response') ELSE calls

(* respCb_ is cleared by its only call. *)
Respond ==
    calls' = IF primaryAckdCnt' = PrimariesCnt /\ calls = <<>>
             THEN Append(calls, response') ELSE calls

(* Fault: answers of endpoints that have answered are counted again. *)
CountAnswerTwice ==
    /\ Dequeue
    /\ tracked
    /\ Complete(Head(answers).from, Head(answers).code)
    /\ CountAck(Head(answers))
    /\ Respond
    /\ tracked' = (totalAckdCnt' # NumEps)
    /\ allCalls' = IF tracked' THEN allCalls ELSE Append(allCalls, response')
    /\ UNCHANGED <<remote, sendIdx>>

(* handleResponse of an endpoint's first answer. *)
CountAnswer ==
    /\ Dequeue
    /\ tracked /\ epState[Head(answers).from] # "COMPLETE"
    /\ Complete(Head(answers).from, Head(answers).code)
    /\ CountAck(Head(answers))
    /\ Respond
    /\ tracked' = (totalAckdCnt' # NumEps)
    /\ allCalls' = IF tracked' THEN allCalls ELSE Append(allCalls, response')
    /\ UNCHANGED <<remote, sendIdx>>

EnvStep(e) ==
    /\ RemoteAnswers(e) \/ TimerFires(e)
    /\ UNCHANGED <<sendIdx, tracked, acks, calls, allCalls>>

Next ==
    \/ InvokeWork \/ DropAnswer \/ CountAnswer
    \/ \E e \in Eps : EnvStep(e)

Spec == Init /\ [][Next]_vars

(* As for quorum requests: the executor runs and armed timers go off. *)
FairSpec ==
    /\ Spec
    /\ WF_vars(InvokeWork) /\ WF_vars(DropAnswer \/ CountAnswer)
    /\ \A e \in Eps : WF_vars(TimerFires(e) /\ EnvStep(e))

---------------------------------------------------------------------------
TypeOK ==
    /\ EpTypeOK
    /\ sendIdx \in 0..NumEps
    /\ tracked \in BOOLEAN
    /\ primaryAckdCnt \in 0..PrimariesCnt /\ totalAckdCnt \in 0..NumEps
    /\ response \in Codes
    /\ failedPrimaries \subseteq Primaries
    /\ failedOptionals \subseteq Eps \ Primaries
    /\ calls \in Seq(Codes) /\ allCalls \in Seq(Codes)

Failed == {e \in Eps : epCode[e] \notin Success \cup {"none"}}

(***************************************************************************)
(* respCb_ speaks for all primaries and only for them, in whatever order   *)
(* optional and duplicate answers arrive: when it has been called every    *)
(* primary has answered, and with OK exactly when none of them failed.     *)
(***************************************************************************)
PrimariesDecide ==
    /\ (calls # <<>>) <=> \A e \in Primaries : epState[e] = "COMPLETE"
    /\ \A i \in 1..Len(calls) :
          IF calls[i] = "OK" THEN Failed \cap Primaries = {}
          ELSE \E e \in Failed \cap Primaries : calls[i] = epCode[e]

(***************************************************************************)
(* allRespondedCb_ comes after respCb_, with the same code, and the two    *)
(* lists of failed endpoints it reads are then complete: callers (the      *)
(* consistency-group code) act on them.                                    *)
(***************************************************************************)
AllResponded ==
    /\ allCalls # <<>> => /\ allCalls = calls
                          /\ failedPrimaries \cup failedOptionals = Failed
                          /\ \A e \in Eps : epState[e] = "COMPLETE"
    /\ allCalls = <<>> => tracked

(* The contract of service requests: one callback, then retirement. *)
Contract == INSTANCE SvcRequestContract WITH Verdicts <- Codes
HonoursContract == Contract!Spec

=============================================================================
