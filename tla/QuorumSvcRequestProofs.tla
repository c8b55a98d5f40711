----------------------- MODULE QuorumSvcRequestProofs -----------------------
(***************************************************************************)
(* Proofs about QuorumSvcRequest, for every number of endpoints, quorum,   *)
(* set of error codes and set of tolerated codes.                          *)
(***************************************************************************)
EXTENDS QuorumSvcRequest, FiniteSetTheorems, SequenceTheorems, TLAPS

(* The two counters count endpoints, not answers. *)
Counted ==
    /\ successAckd = Cardinality(Succeeded)
    /\ errorAckd = Cardinality(Failed)

(* An endpoint has a code once it is complete, and a timer only before. *)
EndpointStates ==
    \A e \in Eps : /\ epState[e] = "COMPLETE" <=> epCode[e] # "none"
                   /\ epState[e] = "COMPLETE" => e \notin timer

(* response_ is the code of a failed endpoint, once one has failed. *)
ResponseOfFailed ==
    IF Failed = {} THEN response = "OK"
                   ELSE \E e \in Failed : response = epCode[e]

(* respCb_ is there until it is called, and it is called when it is due. *)
CalledWhenDue ==
    /\ respCb <=> ~fireAndForget /\ calls = <<>>
    /\ Len(calls) <= 1
    /\ fireAndForget => calls = <<>>
    /\ ~fireAndForget =>
           (calls # <<>> <=> IF waitForAll
                             THEN successAckd + errorAckd = NumEps
                             ELSE \/ successAckd >= quorumCnt
                                  \/ errorAckd > NumEps - quorumCnt)

(* The request is retired with the last endpoint. *)
RetiredWithLast == tracked <=> successAckd + errorAckd # NumEps

IInv ==
    /\ TypeOK
    /\ Counted
    /\ EndpointStates
    /\ ResponseOfFailed
    /\ CalledWhenDue
    /\ RetiredWithLast
    /\ VerdictSound

---------------------------------------------------------------------------
(* Two disjoint sets of endpoints: finite, and together at most all. *)
LEMMA TwoParts ==
    ASSUME NEW A \in SUBSET Eps, NEW B \in SUBSET Eps, A \cap B = {}
    PROVE  /\ IsFiniteSet(A) /\ IsFiniteSet(B)
           /\ Cardinality(A) \in Nat /\ Cardinality(B) \in Nat
           /\ Cardinality(A) + Cardinality(B) <= NumEps
           /\ Cardinality(A) + Cardinality(B) = NumEps <=> A \cup B = Eps
<1>1. IsFiniteSet(Eps) /\ Cardinality(Eps) = NumEps
  BY FS_Interval, EndpointsAssumption DEF Eps
<1>2. IsFiniteSet(A) /\ IsFiniteSet(B)
  BY <1>1, FS_Subset
<1>3. Cardinality(A) \in Nat /\ Cardinality(B) \in Nat
  BY <1>2, FS_CardinalityType
<1>4. Cardinality(A \cup B) = Cardinality(A) + Cardinality(B)
  <2>1. Cardinality(A \cup B)
          = Cardinality(A) + Cardinality(B) - Cardinality(A \cap B)
    BY <1>2, FS_Union
  <2>2. Cardinality(A \cap B) = 0
    BY FS_EmptySet
  <2> QED
    BY <1>3, <2>1, <2>2
<1>5. /\ Cardinality(A \cup B) <= Cardinality(Eps)
      /\ Cardinality(Eps) = Cardinality(A \cup B) => Eps = A \cup B
  BY <1>1, FS_Subset
<1> QED
  BY <1>1, <1>2, <1>3, <1>4, <1>5

(* The endpoints that succeeded and those that failed are such sets. *)
LEMMA Parts ==
    ASSUME TypeOK, EndpointStates
    PROVE  /\ Succeeded \subseteq Eps /\ Failed \subseteq Eps
           /\ Succeeded \cap Failed = {}
           /\ IsFiniteSet(Succeeded) /\ IsFiniteSet(Failed)
           /\ Cardinality(Succeeded) \in Nat /\ Cardinality(Failed) \in Nat
           /\ Cardinality(Succeeded) + Cardinality(Failed) <= NumEps
           /\ Cardinality(Succeeded) + Cardinality(Failed) = NumEps
                  <=> \A e \in Eps : epState[e] = "COMPLETE"
<1>1. /\ Succeeded \subseteq Eps /\ Failed \subseteq Eps
      /\ Succeeded \cap Failed = {}
  BY DEF Succeeded, Failed
<1>2. Succeeded \cup Failed = Eps <=> \A e \in Eps : epState[e] = "COMPLETE"
  <2>1. "none" \notin Success
    BY EndpointsAssumption DEF Success
  <2> QED
    BY <2>1 DEF EndpointStates, Succeeded, Failed
<1> QED
  BY <1>1, <1>2, TwoParts

(* A request that has just been invoked satisfies the invariant. *)
LEMMA InitInv == Init => IInv
<1> SUFFICES ASSUME Init PROVE IInv
  OBVIOUS
<1>1. TypeOK
  BY EndpointsAssumption
  DEF Init, EpInit, TypeOK, EpTypeOK, EpStates, Eps, Codes
<1>2. Succeeded = {} /\ Failed = {}
  BY EndpointsAssumption
  DEF Init, EpInit, Succeeded, Failed, Success
<1>3. Counted
  BY <1>2, FS_EmptySet DEF Init, Counted
<1>4. EndpointStates
  BY DEF Init, EpInit, EndpointStates
<1>5. ResponseOfFailed /\ VerdictSound /\ RetiredWithLast
  BY <1>2, EndpointsAssumption
  DEF Init, ResponseOfFailed, VerdictSound, RetiredWithLast
<1>6. CalledWhenDue
  <2>1. respCb <=> ~fireAndForget /\ calls = <<>>
    BY Zenon DEF Init
  <2>2. ~ IF waitForAll THEN successAckd + errorAckd = NumEps
          ELSE \/ successAckd >= quorumCnt
               \/ errorAckd > NumEps - quorumCnt
    BY EndpointsAssumption DEF Init, Eps
  <2> QED
    BY <2>1, <2>2 DEF Init, CalledWhenDue
<1> QED
  BY <1>1, <1>3, <1>4, <1>5, <1>6 DEF IInv

(* A step that completes no endpoint can disturb only the endpoints. *)
LEMMA Frame ==
    ASSUME IInv, TypeOK', EndpointStates',
           UNCHANGED <<epCode, tracked, config, respCb, acks, calls>>
    PROVE  IInv'
<1>1. Succeeded' = Succeeded /\ Failed' = Failed
  BY DEF Succeeded, Failed
<1>2. Counted' /\ ResponseOfFailed' /\ RetiredWithLast'
  BY <1>1 DEF IInv, Counted, ResponseOfFailed, RetiredWithLast, acks
<1>3. CalledWhenDue'
  BY DEF IInv, CalledWhenDue, acks, config
<1>4. VerdictSound'
  BY <1>1 DEF IInv, VerdictSound, config
<1> QED
  BY <1>2, <1>3, <1>4 DEF IInv

(* An answer as asyncRespHandler finds it. *)
LEMMA AnswerType == \A e \in Eps, c \in Codes :
                        Answer(e, c) \in [from : Eps, code : Codes]
BY DEF Answer

(* A sequence of at most one element, as a send may post. *)
LEMMA AtMostOne ==
    ASSUME NEW S, NEW x \in S, NEW b
    PROVE  (IF b THEN <<x>> ELSE <<>>) \in Seq(S)
OBVIOUS

(* Sending to the next endpoint, the send failing or not. *)
LEMMA InvokeWorkInv == ASSUME IInv, InvokeWork PROVE IInv'
<1> DEFINE e == sendIdx + 1
           A == [from : Eps, code : Codes]
<1> USE DEF IInv
<1>1. e \in Eps /\ sendIdx' \in 0..NumEps
  BY EndpointsAssumption DEF InvokeWork, TypeOK, Eps
<1>2. PICK failed \in BOOLEAN :
        /\ answers' = answers \o SendError(e, failed)
                              \o EmptyResponse(e, fireAndForget)
        /\ remote' = IF failed THEN remote ELSE remote \cup {e}
  BY DEF InvokeWork, Send
<1>3. answers' \in Seq(A)
  <2>1. SendError(e, failed) \in Seq(A)
    <3>1. Answer(e, "INVOCATION") \in A
      BY <1>1, AnswerType DEF Codes
    <3> QED
      BY <3>1, AtMostOne DEF SendError
  <2>2. EmptyResponse(e, fireAndForget) \in Seq(A)
    <3>1. Answer(e, "OK") \in A
      BY <1>1, AnswerType DEF Codes
    <3> QED
      BY <3>1, AtMostOne DEF EmptyResponse
  <2>3. answers \in Seq(A)
    BY DEF TypeOK, EpTypeOK
  <2> HIDE DEF e, A
  <2> QED
    BY <1>2, <2>1, <2>2, <2>3
<1>4. EpTypeOK'
  BY <1>1, <1>2, <1>3
  DEF InvokeWork, Send, TypeOK, EpTypeOK, EpStates
<1>5. TypeOK'
  BY <1>1, <1>4 DEF InvokeWork, TypeOK, config, acks
<1>6. EndpointStates'
  BY <1>1 DEF InvokeWork, Send, EndpointStates, TypeOK, EpTypeOK
<1> QED
  BY <1>5, <1>6, Frame DEF InvokeWork, Send

(* Draining an answer that came too late to count. *)
LEMMA DropAnswerInv == ASSUME IInv, DropAnswer PROVE IInv'
<1> USE DEF IInv
<1>1. answers' \in Seq([from : Eps, code : Codes])
  BY DEF TypeOK, EpTypeOK, DropAnswer, Dequeue
<1>2. TypeOK'
  BY <1>1 DEF DropAnswer, TypeOK, EpTypeOK, config, acks
<1>3. EndpointStates'
  BY DEF DropAnswer, EndpointStates
<1> QED
  BY <1>2, <1>3, Frame DEF DropAnswer

(* An answer of a service, or a timer going off, only queues an answer. *)
LEMMA EnvStepInv == ASSUME IInv, NEW e \in Eps, EnvStep(e) PROVE IInv'
<1> USE DEF IInv
<1>1. UNCHANGED <<epState, epCode>> /\ timer' \subseteq timer
      /\ remote' \subseteq remote
  BY DEF EnvStep, RemoteAnswers, TimerFires
<1>2. PICK c \in Codes : answers' = Append(answers, Answer(e, c))
  BY DEF EnvStep, RemoteAnswers, TimerFires, Codes
<1>3. answers' \in Seq([from : Eps, code : Codes])
  BY <1>2, AnswerType DEF TypeOK, EpTypeOK
<1>4. EpTypeOK'
  BY <1>1, <1>3 DEF TypeOK, EpTypeOK
<1>5. TypeOK'
  BY <1>4 DEF EnvStep, TypeOK, config, acks
<1>6. EndpointStates'
  BY <1>1 DEF EndpointStates
<1> QED
  BY <1>1, <1>5, <1>6, Frame DEF EnvStep

---------------------------------------------------------------------------
(***************************************************************************)
(* One endpoint is completed.  The lemma says what that does to the sets   *)
(* the counters count and to the counters.                                 *)
(***************************************************************************)
LEMMA OneMore ==
    ASSUME IInv, CountAnswer
    PROVE  /\ TypeOK' /\ EndpointStates' /\ Counted'
           /\ tracked /\ UNCHANGED config
           /\ \/ /\ successAckd' = successAckd + 1 /\ errorAckd' = errorAckd
                 /\ Failed' = Failed /\ response' = response
              \/ /\ successAckd' = successAckd /\ errorAckd' = errorAckd + 1
                 /\ response' = IF response = "OK"
                                THEN epCode'[Head(answers).from]
                                ELSE response
                 /\ Failed' = Failed \cup {Head(answers).from}
           /\ \A e \in Failed : epCode'[e] = epCode[e]
           /\ Respond(Verdict(successAckd', errorAckd', response'))
           /\ tracked' = (successAckd' + errorAckd' # NumEps)
<1> DEFINE a == Head(answers)
           ok == a.code \in Success
<1> USE DEF IInv
<1>1. /\ a \in [from : Eps, code : Codes]
      /\ answers' \in Seq([from : Eps, code : Codes])
  <2>1. /\ answers \in Seq([from : Eps, code : Codes])
        /\ answers # <<>> /\ answers' = Tail(answers)
    BY DEF CountAnswer, Dequeue, TypeOK, EpTypeOK
  <2> QED
    BY <2>1, HeadTailProperties
<1>2. a.from \in Eps /\ a.code \in Codes /\ a.code # "none"
  BY <1>1, EndpointsAssumption DEF Codes
<1>3. /\ tracked /\ UNCHANGED <<remote, sendIdx, config>>
      /\ epState[a.from] # "COMPLETE"
      /\ Complete(a.from, a.code)
      /\ successAckd' = successAckd + (IF ok THEN 1 ELSE 0)
      /\ errorAckd' = errorAckd + (IF ok THEN 0 ELSE 1)
      /\ response' = IF ~ok /\ response = "OK" THEN a.code ELSE response
      /\ Respond(Verdict(successAckd', errorAckd', response'))
      /\ tracked' = (successAckd' + errorAckd' # NumEps)
  BY DEF CountAnswer
<1>4. epCode[a.from] = "none"
  BY <1>2, <1>3 DEF EndpointStates
<1>5. /\ epState' = [epState EXCEPT ![a.from] = "COMPLETE"]
      /\ epCode' = [epCode EXCEPT ![a.from] = a.code]
      /\ timer' = timer \ {a.from}
  BY <1>3 DEF Complete
<1> HIDE DEF a
<1>6. EpTypeOK'
  BY <1>1, <1>2, <1>3, <1>5 DEF TypeOK, EpTypeOK, EpStates
<1>7. EndpointStates'
  BY <1>2, <1>5 DEF EndpointStates, TypeOK, EpTypeOK
<1>8. "none" \notin Success
  BY EndpointsAssumption DEF Success
<1>9. a.from \notin Succeeded /\ a.from \notin Failed
  BY <1>4, <1>8 DEF Succeeded, Failed
<1>10. \A e \in Eps : epCode'[e] = IF e = a.from THEN a.code ELSE epCode[e]
  BY <1>2, <1>5 DEF TypeOK, EpTypeOK
<1>11. /\ Succeeded' = IF ok THEN Succeeded \cup {a.from} ELSE Succeeded
       /\ Failed' = IF ok THEN Failed ELSE Failed \cup {a.from}
  BY <1>2, <1>4, <1>8, <1>10 DEF Succeeded, Failed
<1>12. Counted'
  <2>1. /\ IsFiniteSet(Succeeded) /\ IsFiniteSet(Failed)
        /\ Cardinality(Succeeded) \in Nat /\ Cardinality(Failed) \in Nat
    BY Parts
  <2>2. /\ Cardinality(Succeeded \cup {a.from}) = Cardinality(Succeeded) + 1
        /\ Cardinality(Failed \cup {a.from}) = Cardinality(Failed) + 1
    BY <1>9, <2>1, FS_AddElement
  <2>3. CASE ok
    BY <1>3, <1>11, <2>1, <2>2, <2>3 DEF Counted
  <2>4. CASE ~ok
    BY <1>3, <1>11, <2>1, <2>2, <2>4 DEF Counted
  <2> QED
    BY <2>3, <2>4
<1>13. /\ successAckd' \in 0..NumEps /\ errorAckd' \in 0..NumEps
       /\ successAckd' + errorAckd' <= NumEps
  <2>1. /\ Succeeded' \in SUBSET Eps /\ Failed' \in SUBSET Eps
        /\ Succeeded' \cap Failed' = {}
    BY DEF Succeeded, Failed
  <2>2. /\ Cardinality(Succeeded') \in Nat /\ Cardinality(Failed') \in Nat
        /\ Cardinality(Succeeded') + Cardinality(Failed') <= NumEps
    BY <2>1, TwoParts
  <2> QED
    BY <1>12, <2>2, EndpointsAssumption DEF Counted
<1>14. response' \in Codes
  BY <1>2, <1>3 DEF TypeOK
<1>15. /\ respCb' \in BOOLEAN /\ calls' \in Seq(Codes)
  <2>1. Verdict(successAckd', errorAckd', response') \in Codes \cup {"none"}
    BY <1>14 DEF Verdict, Codes, TypeOK
  <2>2. PICK v \in Codes \cup {"none"} : Respond(v)
    BY <1>3, <2>1
  <2>3. calls \in Seq(Codes) /\ respCb \in BOOLEAN
    BY DEF TypeOK
  <2>4. CASE respCb /\ v # "none"
    <3>1. calls' = Append(calls, v) /\ respCb' = FALSE
      BY <2>2, <2>4, Zenon DEF Respond
    <3>2. calls' \in Seq(Codes)
      BY <2>3, <2>4, <3>1
    <3> QED
      BY <3>1, <3>2
  <2>5. CASE ~(respCb /\ v # "none")
    BY <2>2, <2>3, <2>5, Zenon DEF Respond
  <2> QED
    BY <2>4, <2>5
<1>16. TypeOK'
  BY <1>3, <1>6, <1>13, <1>14, <1>15 DEF TypeOK, config
<1>17. successAckd \in Nat /\ errorAckd \in Nat
  BY DEF TypeOK
<1>18. epCode'[a.from] = a.code
  BY <1>2, <1>10
<1>19. \A e \in Failed : epCode'[e] = epCode[e]
  BY <1>9, <1>10 DEF Failed
<1>20. CASE ok
  BY <1>3, <1>7, <1>11, <1>12, <1>16, <1>17, <1>19, <1>20
<1>21. CASE ~ok
  BY <1>3, <1>7, <1>11, <1>12, <1>16, <1>17, <1>18, <1>19, <1>21 DEF a
<1> QED
  BY <1>20, <1>21

(* A quorum of successes and more errors than the rest exclude each other. *)
LEMMA QuorumExcludesErrors ==
    ASSUME NEW n \in Nat, NEW q \in 1..n, NEW s \in Nat, NEW e \in Nat,
           s + e <= n, s >= q
    PROVE  ~(e > n - q)
OBVIOUS

(* When all have answered, one of the two is the case. *)
LEMMA QuorumOrErrors ==
    ASSUME NEW n \in Nat, NEW q \in Nat, NEW s \in Nat, NEW e \in Nat,
           s + e = n
    PROVE  s >= q \/ e > n - q
OBVIOUS

(* What the client is told when an endpoint completes. *)
LEMMA CountAnswerInv == ASSUME IInv, CountAnswer PROVE IInv'
<1> USE DEF IInv
<1> DEFINE s == successAckd'
           e == errorAckd'
           v == Verdict(s, e, response')
           Due == IF waitForAll THEN s + e = NumEps
                  ELSE s >= quorumCnt \/ e > NumEps - quorumCnt
<1>1. /\ TypeOK' /\ EndpointStates' /\ Counted' /\ RetiredWithLast'
      /\ UNCHANGED config
  BY OneMore DEF RetiredWithLast
<1>2. ResponseOfFailed'
  <2>1. \A x \in Failed : epCode[x] # "OK" /\ epCode'[x] = epCode[x]
    BY OneMore DEF Failed, Success
  <2>2. CASE Failed' = Failed /\ response' = response
    BY <2>1, <2>2 DEF ResponseOfFailed
  <2>3. CASE /\ Failed' = Failed \cup {Head(answers).from}
             /\ response' = IF response = "OK"
                            THEN epCode'[Head(answers).from] ELSE response
    BY <2>1, <2>3 DEF ResponseOfFailed
  <2> QED
    BY <2>2, <2>3, OneMore
<1>3. /\ successAckd \in Nat /\ errorAckd \in Nat /\ s \in Nat /\ e \in Nat
      /\ s + e <= NumEps /\ successAckd + errorAckd # NumEps
      /\ \/ s = successAckd + 1 /\ e = errorAckd
         \/ s = successAckd /\ e = errorAckd + 1
      /\ quorumCnt \in 1..NumEps /\ NumEps \in Nat
  <2>1. /\ Succeeded' \in SUBSET Eps /\ Failed' \in SUBSET Eps
        /\ Succeeded' \cap Failed' = {}
    BY DEF Succeeded, Failed
  <2>2. s + e <= NumEps
    BY <1>1, <2>1, TwoParts DEF Counted
  <2>3. successAckd + errorAckd # NumEps
    BY OneMore DEF RetiredWithLast
  <2>4. \/ s = successAckd + 1 /\ e = errorAckd
        \/ s = successAckd /\ e = errorAckd + 1
    BY OneMore
  <2>5. /\ successAckd \in Nat /\ errorAckd \in Nat
        /\ quorumCnt \in 1..NumEps /\ NumEps \in Nat
    BY EndpointsAssumption DEF TypeOK, Eps
  <2>6. s \in Nat /\ e \in Nat
    BY <2>4, <2>5
  <2> QED
    BY <2>2, <2>3, <2>4, <2>5, <2>6
<1>4. Respond(v) /\ waitForAll \in BOOLEAN /\ response' \in Codes
      /\ response' # "none"
  BY <1>1, OneMore, EndpointsAssumption DEF TypeOK, Codes
<1>5. ASSUME respCb PROVE v # "none" <=> Due
  <2>1. ~ IF waitForAll THEN successAckd + errorAckd = NumEps
          ELSE successAckd >= quorumCnt \/ errorAckd > NumEps - quorumCnt
    BY <1>5 DEF CalledWhenDue
  <2> QED
    BY <1>3, <1>4, <2>1 DEF Verdict
<1>6. CASE respCb /\ v # "none"
  <2>1. calls = <<>> /\ ~fireAndForget
    BY <1>6 DEF CalledWhenDue
  <2>2. calls' = <<v>> /\ respCb' = FALSE
    BY <1>4, <1>6, <2>1 DEF Respond
  <2>3. CalledWhenDue'
    BY <1>1, <1>5, <1>6, <2>1, <2>2 DEF CalledWhenDue, config
  <2>4. VerdictSound'
    <3>1. /\ s = Cardinality(Succeeded') /\ e = Cardinality(Failed')
          /\ Failed' = {} => e = 0
      BY <1>1, FS_EmptySet DEF Counted
    <3>2. CASE s >= quorumCnt
      <4>1. ~(e > NumEps - quorumCnt)
        BY <1>3, <3>2, QuorumExcludesErrors
      <4>2. v = "OK"
        BY <1>3, <1>4, <1>5, <1>6, <3>2, <4>1 DEF Verdict
      <4> QED
        BY <1>1, <2>2, <3>1, <3>2, <4>2 DEF VerdictSound, config
    <3>3. CASE ~(s >= quorumCnt)
      <4>1. e > NumEps - quorumCnt /\ v = response'
        BY <1>3, <1>4, <1>5, <1>6, <3>3 DEF Verdict
      <4>2. Failed' # {}
        BY <1>3, <3>1, <4>1
      <4>3. PICK x \in Failed' : response' = epCode'[x]
        BY <1>2, <4>2 DEF ResponseOfFailed
      <4>4. response' # "OK"
        BY <4>3 DEF Failed, Success
      <4> QED
        BY <1>1, <2>2, <3>1, <4>1, <4>3, <4>4 DEF VerdictSound, config
    <3> QED
      BY <3>2, <3>3
  <2> QED
    BY <1>1, <1>2, <2>3, <2>4
<1>7. CASE ~(respCb /\ v # "none")
  <2>1. UNCHANGED <<calls, respCb>>
    BY <1>4, <1>7, Zenon DEF Respond
  <2>2. CalledWhenDue'
    <3>1. CASE respCb
      BY <1>1, <1>5, <1>7, <2>1, <3>1 DEF CalledWhenDue, config
    <3>2. CASE ~respCb
      <4>1. calls # <<>> /\ ~fireAndForget =>
              /\ ~waitForAll
              /\ successAckd >= quorumCnt \/ errorAckd > NumEps - quorumCnt
        BY <1>3 DEF CalledWhenDue
      <4>2. /\ successAckd >= quorumCnt => s >= quorumCnt
            /\ errorAckd > NumEps - quorumCnt => e > NumEps - quorumCnt
        BY <1>3
      <4>3. calls # <<>> /\ ~fireAndForget => Due
        BY <4>1, <4>2
      <4> QED
        BY <1>1, <2>1, <3>2, <4>3 DEF CalledWhenDue, config
    <3> QED
      BY <3>1, <3>2
  <2>3. VerdictSound'
    <3>1. /\ Cardinality(Succeeded) = successAckd
          /\ Cardinality(Failed) = errorAckd
          /\ Cardinality(Succeeded') = s /\ Cardinality(Failed') = e
      BY <1>1 DEF Counted
    <3>2. \A x \in Failed : x \in Failed' /\ epCode'[x] = epCode[x]
      BY OneMore
    <3> QED
      BY <1>1, <1>3, <2>1, <3>1, <3>2 DEF VerdictSound, config
  <2> QED
    BY <1>1, <1>2, <2>2, <2>3
<1> QED
  BY <1>6, <1>7

(* One step of the request or of its environment keeps the invariant. *)
LEMMA NextInv == IInv /\ [Next]_vars => IInv'
<1> SUFFICES ASSUME IInv, [Next]_vars PROVE IInv'
  OBVIOUS
<1>1. CASE InvokeWork
  BY <1>1, InvokeWorkInv
<1>2. CASE DropAnswer
  BY <1>2, DropAnswerInv
<1>3. CASE CountAnswer
  BY <1>3, CountAnswerInv
<1>4. CASE \E e \in Eps : EnvStep(e)
  BY <1>4, EnvStepInv
<1>5. CASE UNCHANGED vars
  <2>1. TypeOK' /\ EndpointStates'
    BY <1>5 DEF IInv, TypeOK, EpTypeOK, EndpointStates, vars, epVars, config,
                acks
  <2> QED
    BY <1>5, <2>1, Frame DEF vars, epVars, config, acks
<1> QED
  BY <1>1, <1>2, <1>3, <1>4, <1>5 DEF Next

---------------------------------------------------------------------------
(***************************************************************************)
(* The inductive invariant holds of every execution of a quorum request.   *)
(***************************************************************************)
THEOREM Invariance == Spec => []IInv
BY InitInv, NextInv, PTL DEF Spec

(***************************************************************************)
(* The fields of QuorumSvcRequest keep their types: no counter exceeds the *)
(* number of endpoints however many answers arrive.                        *)
(***************************************************************************)
THEOREM TypeCorrect == Spec => []TypeOK
<1>1. IInv => TypeOK
  BY DEF IInv
<1> QED
  BY <1>1, Invariance, PTL

(***************************************************************************)
(* What handleResponse tells the client is true of the endpoints: a        *)
(* success of a quorum, a failure of too many for one.                     *)
(***************************************************************************)
THEOREM VerdictCorrect == Spec => []VerdictSound
<1>1. IInv => VerdictSound
  BY DEF IInv
<1> QED
  BY <1>1, Invariance, PTL

(***************************************************************************)
(* handleResponse tells the client at the answer that decides, or at the   *)
(* last one with waitForAllResponses_, and not before.                     *)
(***************************************************************************)
THEOREM PromptVerdict == Spec => []VerdictPrompt
<1>1. IInv => VerdictPrompt
  <2> SUFFICES ASSUME IInv PROVE VerdictPrompt
    OBVIOUS
  <2>1. successAckd + errorAckd = NumEps
          <=> \A e \in Eps : epState[e] = "COMPLETE"
    BY Parts DEF IInv, Counted
  <2> QED
    BY <2>1 DEF IInv, Counted, CalledWhenDue, VerdictPrompt
<1> QED
  BY <1>1, Invariance, PTL

(***************************************************************************)
(* The request leaves the tracker exactly when every endpoint request is   *)
(* complete, and then no timer of it is armed.                             *)
(***************************************************************************)
THEOREM QuietWhenRetired == Spec => []RetiredIsQuiet
<1>1. IInv => RetiredIsQuiet
  <2> SUFFICES ASSUME IInv PROVE RetiredIsQuiet
    OBVIOUS
  <2>1. successAckd + errorAckd = NumEps
          <=> \A e \in Eps : epState[e] = "COMPLETE"
    BY Parts DEF IInv, Counted
  <2> QED
    BY <2>1 DEF IInv, RetiredWithLast, EndpointStates, RetiredIsQuiet
<1> QED
  BY <1>1, Invariance, PTL

---------------------------------------------------------------------------
(* What a counted answer is to the client: nothing, the callback, or the   *)
(* retirement after it.                                                    *)
LEMMA CountAnswerContract ==
    ASSUME IInv, IInv', CountAnswer
    PROVE  [Contract!Next]_(Contract!vars)
<1> USE DEF IInv
<1>1. /\ tracked = TRUE /\ tracked' \in BOOLEAN
      /\ fireAndForget' = fireAndForget /\ waitForAll' = waitForAll
      /\ quorumCnt' = quorumCnt
      /\ fireAndForget \in BOOLEAN
  BY OneMore DEF config, TypeOK
<1>2. CASE fireAndForget
  <2>1. Notified = <<>>
    BY <1>1, <1>2 DEF Notified
  <2>2. CASE tracked'
    BY <1>1, <1>2, <2>1, <2>2 DEF Notified, Contract!vars
  <2>3. CASE ~tracked'
    <3>1. Notified' = <<"OK">>
      BY <1>1, <1>2, <2>3 DEF Notified
    <3> QED
      BY <1>1, <2>1, <3>1 DEF Contract!Next, Contract!Respond, Codes
  <2> QED
    BY <2>2, <2>3
<1>3. CASE ~fireAndForget
  <2>1. Notified = calls /\ Notified' = calls'
    BY <1>1, <1>3 DEF Notified
  <2>2. PICK v : Respond(v)
    BY OneMore
  <2>3. CASE respCb /\ v # "none"
    <3>1. calls = <<>> /\ calls' = <<v>>
      BY <2>2, <2>3 DEF CalledWhenDue, Respond
    <3>2. v \in Codes
      BY <3>1 DEF TypeOK
    <3> QED
      BY <1>1, <2>1, <3>1, <3>2 DEF Contract!Next, Contract!Respond
  <2>4. CASE ~(respCb /\ v # "none")
    <3>1. calls' = calls
      BY <2>2, <2>4, Zenon DEF Respond
    <3>2. CASE tracked'
      BY <1>1, <2>1, <3>1, <3>2 DEF Contract!vars
    <3>3. CASE ~tracked'
      <4>1. successAckd' + errorAckd' = NumEps
        BY <3>3 DEF RetiredWithLast
      <4>2. /\ successAckd' \in Nat /\ errorAckd' \in Nat
            /\ quorumCnt' \in Nat /\ NumEps \in Nat
        BY EndpointsAssumption DEF TypeOK, Eps
      <4>3. successAckd' >= quorumCnt' \/ errorAckd' > NumEps - quorumCnt'
        BY <4>1, <4>2, QuorumOrErrors
      <4>4. calls' # <<>>
        BY <1>1, <1>3, <4>1, <4>3 DEF CalledWhenDue
      <4> QED
        BY <1>1, <2>1, <3>1, <3>3, <4>4 DEF Contract!Next, Contract!Retire
    <3> QED
      BY <3>2, <3>3
  <2> QED
    BY <2>3, <2>4
<1> QED
  BY <1>1, <1>2, <1>3

(***************************************************************************)
(* The safety part of HonoursContract: whatever the transport does, the    *)
(* client of a quorum request is called back at most once, and the request *)
(* is not retired before the callback was made.                            *)
(***************************************************************************)
THEOREM ImplementsContract ==
    Spec => Contract!Init /\ [][Contract!Next]_(Contract!vars)
<1>1. Init => Contract!Init
  <2> SUFFICES ASSUME Init PROVE Contract!Init
    OBVIOUS
  <2>1. calls = <<>> /\ tracked = TRUE /\ fireAndForget \in BOOLEAN
    BY DEF Init
  <2> QED
    BY <2>1 DEF Contract!Init, Notified
<1>2. IInv /\ IInv' /\ [Next]_vars => [Contract!Next]_(Contract!vars)
  <2> SUFFICES ASSUME IInv, IInv', [Next]_vars
               PROVE  [Contract!Next]_(Contract!vars)
    OBVIOUS
  <2>1. CASE CountAnswer
    BY <2>1, CountAnswerContract
  <2>2. CASE UNCHANGED <<calls, tracked, fireAndForget>>
    BY <2>2 DEF Notified, Contract!vars
  <2> QED
    BY <2>1, <2>2
    DEF Next, InvokeWork, DropAnswer, EnvStep, vars, config
<1> QED
  BY <1>1, <1>2, Invariance, PTL DEF Spec

=============================================================================
