---------------------- MODULE FailoverSvcRequestProofs ----------------------
(***************************************************************************)
(* Proofs about FailoverSvcRequest, for every number of endpoints, set of  *)
(* error codes and set of tolerated codes.                                 *)
(***************************************************************************)
EXTENDS FailoverSvcRequest, SequenceTheorems, TLAPS

(* What state_ says about the current endpoint and about the callback. *)
Phases ==
    /\ state = "PRIOR_INVOCATION" =>
          /\ curEpIdx = 1 /\ epCode[1] = "none"
          /\ answers = <<>> /\ timer = {} /\ remote = {} /\ calls = <<>>
    /\ state = "INVOCATION_PROGRESS" =>
          epCode[curEpIdx] = "none" /\ calls = <<>>
    /\ state = "COMPLETE" =>
          /\ epState[curEpIdx] = "COMPLETE"
          /\ calls = <<epCode[curEpIdx]>>

(* A queued success was posted by a service that was tried and has         *)
(* answered: it can post no other and nothing is sent to it again.         *)
SuccessAnswered ==
    \A i \in 1..Len(answers) :
        answers[i].code \in Success =>
            answers[i].from <= curEpIdx /\ answers[i].from \notin remote

IInv ==
    /\ TypeOK
    /\ TriedInOrder
    /\ VerdictSound
    /\ Phases
    /\ SuccessAnswered

---------------------------------------------------------------------------
(* The codes an endpoint can end with, and those that mean a failure. *)
LEMMA CodeFacts ==
    /\ "none" \notin Codes /\ "none" \notin Success
    /\ Success \subseteq Codes
    /\ "INVOCATION" \notin Success /\ "TIMEOUT" \notin Success
BY EndpointsAssumption, SenderErrorsAssumption DEF Codes, Success

(* A request that has just been made satisfies the invariant. *)
LEMMA InitInv == Init => IInv
<1> SUFFICES ASSUME Init PROVE IInv
  OBVIOUS
<1>1. TypeOK
  BY EndpointsAssumption
  DEF Init, EpInit, TypeOK, EpTypeOK, EpStates, Eps, Codes
<1>2. TriedInOrder
  BY EndpointsAssumption DEF Init, EpInit, TriedInOrder, Eps
<1>3. VerdictSound /\ SuccessAnswered
  BY DEF Init, EpInit, VerdictSound, SuccessAnswered
<1>4. Phases
  BY EndpointsAssumption DEF Init, EpInit, Phases, Eps
<1> QED
  BY <1>1, <1>2, <1>3, <1>4 DEF IInv

(* What is queued behind a queue of answers stays an answer queue. *)
LEMMA QueueType ==
    ASSUME NEW q \in Seq([from : Eps, code : Codes]), NEW e \in Eps,
           NEW failed \in BOOLEAN
    PROVE  /\ q \o SendError(e, failed) \in Seq([from : Eps, code : Codes])
           /\ \A i \in 1..Len(q \o SendError(e, failed)) :
                 LET a == (q \o SendError(e, failed))[i]
                 IN (\E j \in 1..Len(q) : a = q[j]) \/ a = Answer(e, "INVOCATION")
<1>1. Answer(e, "INVOCATION") \in [from : Eps, code : Codes]
  BY DEF Answer, Codes
<1>2. CASE failed
  BY <1>1, <1>2 DEF SendError
<1>3. CASE ~failed
  BY <1>3 DEF SendError
<1> QED
  BY <1>2, <1>3

(* The head of the queue and what is left of it. *)
LEMMA HeadAndTail ==
    ASSUME IInv, answers # <<>>
    PROVE  /\ Head(answers).from \in Eps /\ Head(answers).code \in Codes
           /\ Head(answers).code \in Success =>
                 Head(answers).from \notin remote
           /\ Tail(answers) \in Seq([from : Eps, code : Codes])
           /\ \A i \in 1..Len(Tail(answers)) :
                 Tail(answers)[i].code \in Success =>
                    /\ Tail(answers)[i].from <= curEpIdx
                    /\ Tail(answers)[i].from \notin remote
<1>1. answers \in Seq([from : Eps, code : Codes])
  BY DEF IInv, TypeOK, EpTypeOK
<1>2. /\ Head(answers) \in [from : Eps, code : Codes]
      /\ Tail(answers) \in Seq([from : Eps, code : Codes])
      /\ Len(Tail(answers)) = Len(answers) - 1
      /\ \A i \in 1..Len(Tail(answers)) : Tail(answers)[i] = answers[i + 1]
  BY <1>1, HeadTailProperties
<1>3. Head(answers) = answers[1] /\ 1 \in 1..Len(answers)
  BY <1>1
<1>4. \A i \in 1..Len(Tail(answers)) : i + 1 \in 1..Len(answers)
  BY <1>1, <1>2
<1> QED
  BY <1>2, <1>3, <1>4 DEF IInv, SuccessAnswered

(* Sending to the first endpoint. *)
LEMMA InvokeWorkInv == ASSUME IInv, InvokeWork PROVE IInv'
<1> USE DEF IInv
<1>1. /\ 1 \in Eps /\ curEpIdx = 1 /\ curEpIdx' = 1 /\ answers = <<>>
      /\ epCode[1] = "none" /\ epCode' = epCode
      /\ timer' = {1} /\ calls = <<>> /\ calls' = <<>> /\ remote = {}
      /\ state' = "INVOCATION_PROGRESS"
      /\ epState' = [epState EXCEPT ![1] = "INVOCATION_PROGRESS"]
  BY EndpointsAssumption DEF InvokeWork, Send, Phases, Eps
<1>2. PICK failed \in BOOLEAN :
        /\ answers' = answers \o SendError(1, failed)
                              \o EmptyResponse(1, FALSE)
        /\ remote' = IF failed THEN remote ELSE remote \cup {1}
  BY DEF InvokeWork, Send
<1>3. remote' \subseteq {1}
  BY <1>1, <1>2
<1>4. /\ answers' \in Seq([from : Eps, code : Codes])
      /\ \A i \in 1..Len(answers') : answers'[i].code = "INVOCATION"
  <2>1. answers' = SendError(1, failed)
    BY <1>1, <1>2 DEF EmptyResponse, SendError
  <2>2. Answer(1, "INVOCATION") \in [from : Eps, code : Codes]
    BY <1>1 DEF Answer, Codes
  <2>3. CASE failed
    <3>1. answers' = <<Answer(1, "INVOCATION")>>
      BY <2>1, <2>3 DEF SendError
    <3> QED
      BY <2>2, <3>1 DEF Answer
  <2>4. CASE ~failed
    BY <2>1, <2>4 DEF SendError
  <2> QED
    BY <2>3, <2>4
<1>5. TypeOK'
  BY <1>1, <1>3, <1>4 DEF TypeOK, EpTypeOK, EpStates
<1>6. TriedInOrder'
  BY <1>1, <1>3 DEF TriedInOrder, TypeOK, EpTypeOK
<1>7. VerdictSound' /\ Phases'
  BY <1>1 DEF VerdictSound, Phases
<1>8. SuccessAnswered'
  BY <1>4, CodeFacts DEF SuccessAnswered
<1> QED
  BY <1>5, <1>6, <1>7, <1>8

(* Draining an answer nobody waits for any more. *)
LEMMA DropAnswerInv == ASSUME IInv, DropAnswer PROVE IInv'
<1> USE DEF IInv
<1>1. /\ answers # <<>> /\ answers' = Tail(answers)
      /\ UNCHANGED <<epState, epCode, timer, remote, state, curEpIdx, calls>>
  BY DEF DropAnswer
<1>2. TypeOK' /\ SuccessAnswered'
  BY <1>1, HeadAndTail DEF TypeOK, EpTypeOK, SuccessAnswered
<1>3. TriedInOrder' /\ VerdictSound' /\ Phases'
  BY <1>1 DEF TriedInOrder, VerdictSound, Phases
<1> QED
  BY <1>2, <1>3

(* The answer of the current endpoint ends the request, as a success or as *)
(* the failure of the last endpoint.                                       *)
LEMMA EndInv == ASSUME IInv, AnswerSuccess \/ AnswerExhausted PROVE IInv'
<1> USE DEF IInv
<1> DEFINE a == Head(answers)
<1>1. /\ answers # <<>> /\ answers' = Tail(answers)
      /\ state # "COMPLETE" /\ state' = "COMPLETE"
      /\ a.from = curEpIdx
      /\ a.code \in Success \/ (a.code \notin Success /\ curEpIdx = NumEps)
      /\ epState' = [epState EXCEPT ![curEpIdx] = "COMPLETE"]
      /\ epCode' = [epCode EXCEPT ![curEpIdx] = a.code]
      /\ timer' = timer \ {curEpIdx}
      /\ calls' = Append(calls, a.code)
      /\ UNCHANGED <<remote, curEpIdx>>
  BY DEF AnswerSuccess, AnswerExhausted, Relevant, tracked, Complete
<1>2. /\ a.code \in Codes
      /\ a.code \in Success => curEpIdx \notin remote
  BY <1>1, HeadAndTail
<1>3. curEpIdx \in Eps /\ calls' = <<a.code>>
  <2>1. calls = <<>> /\ curEpIdx \in Eps
    BY <1>1 DEF TypeOK, Phases, EpStates
  <2> HIDE DEF a
  <2> QED
    BY <1>1, <2>1
<1>4. \A e \in Eps : epCode'[e] = IF e = curEpIdx THEN a.code ELSE epCode[e]
  BY <1>1, <1>3 DEF TypeOK, EpTypeOK
<1>5. TypeOK' /\ SuccessAnswered'
  <2>1. answers' \in Seq([from : Eps, code : Codes]) /\ SuccessAnswered'
    BY <1>1, HeadAndTail DEF SuccessAnswered
  <2> HIDE DEF a
  <2> QED
    BY <1>1, <1>2, <1>3, <2>1 DEF TypeOK, EpTypeOK, EpStates
<1> HIDE DEF a
<1>6. TriedInOrder'
  BY <1>1, <1>3, <1>4 DEF TriedInOrder, TypeOK, EpTypeOK, Eps
<1>7. Phases'
  BY <1>1, <1>3, <1>4 DEF Phases, TypeOK, EpTypeOK
<1>8. VerdictSound'
  <2>1. a.code \notin Success =>
          \A e \in Eps : epCode'[e] \notin Success \cup {"none"}
    <3> SUFFICES ASSUME a.code \notin Success, NEW e \in Eps
                 PROVE  epCode'[e] \notin Success \cup {"none"}
      OBVIOUS
    <3>1. CASE e = curEpIdx
      BY <1>2, <1>4, <3>1, CodeFacts
    <3>2. CASE e # curEpIdx
      <4>1. e < curEpIdx
        BY <1>1, <3>2, EndpointsAssumption DEF Eps
      <4> QED
        BY <1>4, <3>2, <4>1 DEF TriedInOrder
    <3> QED
      BY <3>1, <3>2
  <2>2. epCode'[curEpIdx'] = a.code
    BY <1>1, <1>3, <1>4
  <2> QED
    BY <1>1, <1>2, <1>3, <2>1, <2>2 DEF VerdictSound
<1> QED
  BY <1>5, <1>6, <1>7, <1>8

(* The current endpoint failed and the request moves to the next one. *)
LEMMA AnswerFailoverInv == ASSUME IInv, AnswerFailover PROVE IInv'
<1> USE DEF IInv
<1> DEFINE a == Head(answers)
           n == curEpIdx + 1
<1>1. /\ answers # <<>> /\ state # "COMPLETE"
      /\ a.from = curEpIdx /\ a.code \notin Success
      /\ curEpIdx < NumEps /\ curEpIdx' = n
      /\ epState' = [epState EXCEPT ![curEpIdx] = "COMPLETE",
                                    ![n] = "INVOCATION_PROGRESS"]
      /\ epCode' = [epCode EXCEPT ![curEpIdx] = a.code]
      /\ timer' = (timer \ {curEpIdx}) \cup {n}
      /\ UNCHANGED <<state, calls>>
  BY DEF AnswerFailover, Relevant, tracked
<1>2. PICK failed \in BOOLEAN :
        /\ answers' = Tail(answers) \o SendError(n, failed)
        /\ remote' = IF failed THEN remote ELSE remote \cup {n}
  BY DEF AnswerFailover
<1>3. /\ curEpIdx \in Eps /\ n \in Eps /\ curEpIdx \in Nat
      /\ a.code \in Codes \ {"none"} /\ epCode[n] = "none"
  BY <1>1, HeadAndTail, CodeFacts, EndpointsAssumption
  DEF Eps, TypeOK, TriedInOrder
<1>4. /\ answers' \in Seq([from : Eps, code : Codes])
      /\ SuccessAnswered'
  <2> DEFINE q == Tail(answers)
  <2>1. q \in Seq([from : Eps, code : Codes])
    BY <1>1, HeadAndTail
  <2>2. \A i \in 1..Len(q) : q[i].code \in Success =>
           q[i].from <= curEpIdx /\ q[i].from \notin remote
    BY <1>1, HeadAndTail
  <2>3. \A i \in 1..Len(q) : q[i].from \in Nat
    <3>1. \A i \in 1..Len(q) : q[i] \in [from : Eps, code : Codes]
      BY <2>1, LenProperties
    <3> QED
      BY <3>1 DEF Eps
  <2>4. Answer(n, "INVOCATION").code \notin Success
    BY CodeFacts DEF Answer
  <2> HIDE DEF q, n
  <2>5. answers' = q \o SendError(n, failed)
    BY <1>2 DEF q
  <2>6. /\ answers' \in Seq([from : Eps, code : Codes])
        /\ \A i \in 1..Len(answers') :
              \/ \E j \in 1..Len(q) : answers'[i] = q[j]
              \/ answers'[i] = Answer(n, "INVOCATION")
    BY <1>3, <2>1, <2>5, QueueType
  <2>7. ASSUME NEW i \in 1..Len(answers'), answers'[i].code \in Success
        PROVE  answers'[i].from <= curEpIdx' /\ answers'[i].from \notin remote'
    <3>1. PICK j \in 1..Len(q) : answers'[i] = q[j]
      BY <2>4, <2>6, <2>7
    <3>2. q[j].from <= curEpIdx /\ q[j].from \notin remote
      BY <2>2, <2>7, <3>1
    <3> QED
      BY <1>1, <1>2, <1>3, <2>3, <3>1, <3>2 DEF n
  <2> QED
    BY <2>6, <2>7 DEF SuccessAnswered
<1> HIDE DEF a
<1>5. TypeOK'
  BY <1>1, <1>2, <1>3, <1>4 DEF TypeOK, EpTypeOK, EpStates
<1>6. \A e \in Eps :
        /\ epCode'[e] = IF e = curEpIdx THEN a.code ELSE epCode[e]
        /\ e > n => epState'[e] = epState[e]
  BY <1>1, <1>3 DEF TypeOK, EpTypeOK, Eps
<1>7. TriedInOrder'
  <2>1. ASSUME NEW e \in Eps, e < n
        PROVE  epCode'[e] \notin Success \cup {"none"}
    BY <1>1, <1>3, <1>6, <2>1 DEF TriedInOrder, Eps
  <2>2. ASSUME NEW e \in Eps, e > n
        PROVE  /\ epState'[e] = "PRIOR_INVOCATION" /\ epCode'[e] = "none"
               /\ e \notin remote'
    <3>1. e > curEpIdx /\ e # n
      BY <1>3, <2>2 DEF Eps
    <3>2. e # curEpIdx
      BY <1>3, <3>1
    <3> QED
      BY <1>2, <1>6, <2>2, <3>1, <3>2 DEF TriedInOrder
  <2>3. timer' \subseteq {n}
    BY <1>1 DEF TriedInOrder
  <2> QED
    BY <1>1, <2>1, <2>2, <2>3 DEF TriedInOrder
<1>8. calls = <<>> /\ state = "INVOCATION_PROGRESS"
  BY <1>1 DEF Phases, TypeOK, EpStates
<1>9. Phases' /\ VerdictSound'
  BY <1>1, <1>3, <1>6, <1>8 DEF Phases, VerdictSound
<1> QED
  BY <1>4, <1>5, <1>7, <1>9

(* An answer of a service, or a timer going off, only queues an answer. *)
LEMMA EnvStepInv == ASSUME IInv, NEW e \in Eps, EnvStep(e) PROVE IInv'
<1> USE DEF IInv
<1>1. /\ UNCHANGED <<epState, epCode, state, curEpIdx, calls>>
      /\ timer' \subseteq timer /\ remote' \subseteq remote
  BY DEF EnvStep, RemoteAnswers, TimerFires
<1>2. PICK c \in Codes : /\ answers' = Append(answers, Answer(e, c))
                         /\ c \in Success => e \in remote /\ e \notin remote'
  BY CodeFacts DEF EnvStep, RemoteAnswers, TimerFires, Codes
<1>3. state # "PRIOR_INVOCATION"
  BY DEF EnvStep, RemoteAnswers, TimerFires, Phases
<1>4. answers \in Seq([from : Eps, code : Codes]) /\ curEpIdx \in Eps
  BY DEF TypeOK, EpTypeOK
<1>5. Answer(e, c) \in [from : Eps, code : Codes]
  BY DEF Answer
<1>6. TypeOK'
  BY <1>1, <1>2, <1>4, <1>5 DEF TypeOK, EpTypeOK
<1>7. TriedInOrder' /\ VerdictSound' /\ Phases'
  BY <1>1, <1>3 DEF TriedInOrder, VerdictSound, Phases
<1>8. SuccessAnswered'
  <2> SUFFICES ASSUME NEW i \in 1..Len(answers'), answers'[i].code \in Success
               PROVE  /\ answers'[i].from <= curEpIdx
                      /\ answers'[i].from \notin remote'
    BY <1>1 DEF SuccessAnswered
  <2>1. CASE i \in 1..Len(answers)
    <3>1. answers'[i] = answers[i]
      BY <1>2, <1>4, <1>5, <2>1
    <3> QED
      BY <1>1, <2>1, <3>1 DEF SuccessAnswered
  <2>2. CASE i \notin 1..Len(answers)
    <3>1. answers'[i] = Answer(e, c)
      BY <1>2, <1>4, <1>5, <2>2
    <3>2. e \in remote /\ e \notin remote'
      BY <1>2, <3>1 DEF Answer
    <3>3. e <= curEpIdx
      BY <1>4, <3>2 DEF TriedInOrder, Eps
    <3> QED
      BY <3>1, <3>2, <3>3 DEF Answer
  <2> QED
    BY <2>1, <2>2
<1> QED
  BY <1>6, <1>7, <1>8

(* One step of the request or of its environment keeps the invariant. *)
LEMMA NextInv == IInv /\ [Next]_vars => IInv'
<1> SUFFICES ASSUME IInv, [Next]_vars PROVE IInv'
  OBVIOUS
<1>1. CASE InvokeWork
  BY <1>1, InvokeWorkInv
<1>2. CASE DropAnswer
  BY <1>2, DropAnswerInv
<1>3. CASE AnswerSuccess \/ AnswerExhausted
  BY <1>3, EndInv
<1>4. CASE AnswerFailover
  BY <1>4, AnswerFailoverInv
<1>5. CASE \E e \in Eps : EnvStep(e)
  BY <1>5, EnvStepInv
<1>6. CASE UNCHANGED vars
  BY <1>6 DEF IInv, TypeOK, EpTypeOK, TriedInOrder, VerdictSound, Phases,
              SuccessAnswered, vars, epVars
<1> QED
  BY <1>1, <1>2, <1>3, <1>4, <1>5, <1>6 DEF Next, Executor

---------------------------------------------------------------------------
(* The inductive invariant holds of every execution of a failover request. *)
LEMMA Invariance == Spec => []IInv
BY InitInv, NextInv, PTL DEF Spec

(***************************************************************************)
(* The fields of FailoverSvcRequest keep their types: curEpIdx_ never runs *)
(* past the last endpoint, which moveToNextHealthyEndpoint_ undoes.        *)
(***************************************************************************)
THEOREM TypeCorrect == Spec => []TypeOK
<1>1. IInv => TypeOK
  BY DEF IInv
<1> QED
  BY <1>1, Invariance, PTL

(***************************************************************************)
(* handleResponse tries the endpoints in order and one at a time, whatever *)
(* late answers and timeouts of earlier endpoints are queued.              *)
(***************************************************************************)
THEOREM OrderKept == Spec => []TriedInOrder
<1>1. IInv => TriedInOrder
  BY DEF IInv
<1> QED
  BY <1>1, Invariance, PTL

(***************************************************************************)
(* What respCb_ hears is true: a success only of a service that answered,  *)
(* an error only after every endpoint was tried and failed.                *)
(***************************************************************************)
THEOREM VerdictCorrect == Spec => []VerdictSound
<1>1. IInv => VerdictSound
  BY DEF IInv
<1> QED
  BY <1>1, Invariance, PTL

(***************************************************************************)
(* The safety part of HonoursContract: the client of a failover request is *)
(* called back at most once, in the step that retires the request.         *)
(***************************************************************************)
THEOREM ImplementsContract ==
    Spec => Contract!Init /\ [][Contract!Next]_(Contract!vars)
<1>1. Init => Contract!Init
  BY DEF Init, Contract!Init, tracked
<1>2. IInv /\ IInv' /\ [Next]_vars => [Contract!Next]_(Contract!vars)
  <2> SUFFICES ASSUME IInv, IInv', [Next]_vars
               PROVE  [Contract!Next]_(Contract!vars)
    OBVIOUS
  <2>1. CASE AnswerSuccess \/ AnswerExhausted
    <3>1. state # "COMPLETE" /\ state' = "COMPLETE"
      BY <2>1 DEF AnswerSuccess, AnswerExhausted, Relevant, tracked
    <3>2. calls = <<>> /\ state \in EpStates
      BY <3>1 DEF IInv, Phases, TypeOK, EpStates
    <3>3. calls' = <<epCode'[curEpIdx']>> /\ calls' \in Seq(Codes)
      BY <3>1 DEF IInv, Phases, TypeOK
    <3>4. PICK c \in Codes : calls' = <<c>>
      BY <3>3
    <3>5. tracked = TRUE /\ tracked' = FALSE
      BY <3>1 DEF tracked
    <3> QED
      BY <3>2, <3>4, <3>5 DEF Contract!Next, Contract!Respond
  <2>2. CASE UNCHANGED <<calls, tracked>>
    BY <2>2 DEF Contract!vars
  <2>3. CASE InvokeWork
    BY <2>3 DEF InvokeWork, tracked, Contract!vars
  <2> QED
    BY <2>1, <2>2, <2>3
    DEF Next, Executor, DropAnswer, AnswerFailover, EnvStep, vars, tracked
<1> QED
  BY <1>1, <1>2, Invariance, PTL DEF Spec

=============================================================================
