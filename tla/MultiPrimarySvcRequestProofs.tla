-------------------- MODULE MultiPrimarySvcRequestProofs --------------------
(***************************************************************************)
(* Proofs about MultiPrimarySvcRequest, for every number of endpoints and  *)
(* of primaries, set of error codes and set of tolerated codes.            *)
(***************************************************************************)
EXTENDS MultiPrimarySvcRequest, FiniteSetTheorems, SequenceTheorems, TLAPS

Done == {e \in Eps : epState[e] = "COMPLETE"}

(* The two counters count endpoints, not answers. *)
Counted ==
    /\ primaryAckdCnt = Cardinality(Done \cap Primaries)
    /\ totalAckdCnt = Cardinality(Done)

(* An endpoint has a code once it is complete. *)
CodeOfDone == \A e \in Eps : epState[e] = "COMPLETE" <=> epCode[e] # "none"

(* The lists of failed endpoints, and response_ a code of the first list. *)
FailuresListed ==
    /\ failedPrimaries = Failed \cap Primaries
    /\ failedOptionals = Failed \ Primaries
    /\ IF failedPrimaries = {} THEN response = "OK"
       ELSE \E e \in failedPrimaries : response = epCode[e]

(* Both callbacks, and the retirement, come with the answer they wait for. *)
CalledWhenDue ==
    /\ calls = IF primaryAckdCnt = PrimariesCnt THEN <<response>> ELSE <<>>
    /\ allCalls = IF totalAckdCnt = NumEps THEN <<response>> ELSE <<>>
    /\ tracked <=> totalAckdCnt # NumEps

IInv ==
    /\ TypeOK
    /\ Counted
    /\ CodeOfDone
    /\ FailuresListed
    /\ CalledWhenDue

---------------------------------------------------------------------------
(* A set of endpoints that fills an interval is the interval. *)
LEMMA Fills ==
    ASSUME NEW n \in Nat, NEW A \in SUBSET (1..n)
    PROVE  /\ IsFiniteSet(A) /\ Cardinality(A) \in 0..n
           /\ Cardinality(A) = n <=> A = 1..n
<1>1. IsFiniteSet(1..n) /\ Cardinality(1..n) = n
  BY FS_Interval
<1>2. /\ IsFiniteSet(A) /\ Cardinality(A) <= Cardinality(1..n)
      /\ Cardinality(1..n) = Cardinality(A) => 1..n = A
  BY <1>1, FS_Subset
<1>3. Cardinality(A) \in Nat
  BY <1>2, FS_CardinalityType
<1> QED
  BY <1>1, <1>2, <1>3

(* The primaries are endpoints; the codes tell failure from success. *)
LEMMA Basics ==
    /\ NumEps \in Nat /\ PrimariesCnt \in Nat /\ PrimariesCnt # 0
    /\ Primaries \subseteq Eps
    /\ "none" \notin Codes /\ "none" \notin Success
    /\ "OK" \in Success /\ "OK" \in Codes
BY EndpointsAssumption, PrimariesAssumption
DEF Eps, Primaries, Codes, Success

(* What the two counters say about the endpoints. *)
LEMMA WhatCountsMean ==
    ASSUME Counted
    PROVE  /\ primaryAckdCnt \in 0..PrimariesCnt /\ totalAckdCnt \in 0..NumEps
           /\ primaryAckdCnt = PrimariesCnt
                 <=> \A e \in Primaries : epState[e] = "COMPLETE"
           /\ totalAckdCnt = NumEps
                 <=> \A e \in Eps : epState[e] = "COMPLETE"
           /\ totalAckdCnt = NumEps => primaryAckdCnt = PrimariesCnt
<1>1. /\ Done \in SUBSET Eps /\ Done \cap Primaries \in SUBSET Primaries
      /\ Done = Eps <=> \A e \in Eps : epState[e] = "COMPLETE"
      /\ Done \cap Primaries = Primaries
            <=> \A e \in Primaries : epState[e] = "COMPLETE"
  BY Basics DEF Done
<1>2. /\ Cardinality(Done) \in 0..NumEps
      /\ Cardinality(Done) = NumEps <=> Done = Eps
  BY <1>1, Basics, Fills DEF Eps
<1>3. /\ Cardinality(Done \cap Primaries) \in 0..PrimariesCnt
      /\ Cardinality(Done \cap Primaries) = PrimariesCnt
            <=> Done \cap Primaries = Primaries
  BY <1>1, Basics, Fills DEF Primaries
<1> QED
  BY <1>1, <1>2, <1>3, Basics DEF Counted

(* A request that has just been invoked satisfies the invariant. *)
LEMMA InitInv == Init => IInv
<1> SUFFICES ASSUME Init PROVE IInv
  OBVIOUS
<1>1. TypeOK
  BY Basics DEF Init, EpInit, TypeOK, EpTypeOK, EpStates
<1>2. Done = {} /\ Failed = {}
  BY DEF Init, EpInit, Done, Failed
<1>3. Counted
  <2>1. Done \cap Primaries = {}
    BY <1>2
  <2> QED
    BY <1>2, <2>1, FS_EmptySet DEF Init, Counted
<1>4. CodeOfDone
  BY DEF Init, EpInit, CodeOfDone
<1>5. FailuresListed
  BY <1>2 DEF Init, FailuresListed
<1>6. CalledWhenDue
  BY Basics, EndpointsAssumption DEF Init, CalledWhenDue
<1> QED
  BY <1>1, <1>3, <1>4, <1>5, <1>6 DEF IInv

(* A step that completes no endpoint can disturb only the endpoints. *)
LEMMA Frame ==
    ASSUME IInv, TypeOK', Done' = Done, CodeOfDone',
           UNCHANGED <<epCode, tracked, acks, calls, allCalls>>
    PROVE  IInv'
<1>1. Failed' = Failed
  BY DEF Failed
<1>2. Counted' /\ FailuresListed' /\ CalledWhenDue'
  BY <1>1 DEF IInv, Counted, FailuresListed, CalledWhenDue, acks
<1> QED
  BY <1>2 DEF IInv

(* Sending to the next endpoint, the send failing or not. *)
LEMMA InvokeWorkInv == ASSUME IInv, InvokeWork PROVE IInv'
<1> DEFINE e == sendIdx + 1
           A == [from : Eps, code : Codes]
<1> USE DEF IInv
<1>1. /\ e \in Eps /\ sendIdx' \in 0..NumEps
      /\ epState[e] = "PRIOR_INVOCATION"
      /\ epState' = [epState EXCEPT ![e] = "INVOCATION_PROGRESS"]
      /\ timer' = timer \cup {e}
      /\ UNCHANGED <<epCode, tracked, acks, calls, allCalls>>
  BY EndpointsAssumption DEF InvokeWork, Send, TypeOK, Eps
<1>2. PICK failed \in BOOLEAN :
        /\ answers' = answers \o SendError(e, failed)
                              \o EmptyResponse(e, FALSE)
        /\ remote' = IF failed THEN remote ELSE remote \cup {e}
  BY DEF InvokeWork, Send
<1> HIDE DEF e
<1>3. answers' \in Seq(A)
  <2>1. Answer(e, "INVOCATION") \in A /\ answers \in Seq(A)
    BY <1>1 DEF Answer, Codes, TypeOK, EpTypeOK
  <2> HIDE DEF A
  <2>2. SendError(e, failed) \in Seq(A) /\ EmptyResponse(e, FALSE) \in Seq(A)
    <3>1. <<Answer(e, "INVOCATION")>> \in Seq(A) /\ <<>> \in Seq(A)
      BY <2>1
    <3> QED
      BY <3>1, Zenon DEF SendError, EmptyResponse
  <2>3. answers' = answers \o SendError(e, failed) \o EmptyResponse(e, FALSE)
    BY <1>2, Zenon
  <2> DEFINE q1 == SendError(e, failed)
             q2 == EmptyResponse(e, FALSE)
  <2>4. answers' = answers \o q1 \o q2 /\ q1 \in Seq(A) /\ q2 \in Seq(A)
    BY <2>2, <2>3
  <2> HIDE DEF q1, q2
  <2> QED
    BY <2>1, <2>4
<1>4. TypeOK'
  BY <1>1, <1>2, <1>3 DEF TypeOK, EpTypeOK, EpStates, acks
<1>5. /\ \A x \in Eps : epState'[x] = "COMPLETE" <=> epState[x] = "COMPLETE"
      /\ Done' = Done
  BY <1>1 DEF Done, TypeOK, EpTypeOK
<1>6. CodeOfDone'
  BY <1>1, <1>5 DEF CodeOfDone
<1> QED
  BY <1>1, <1>4, <1>5, <1>6, Frame

(* Draining an answer that came too late to count. *)
LEMMA DropAnswerInv == ASSUME IInv, DropAnswer PROVE IInv'
<1> USE DEF IInv
<1>1. answers' \in Seq([from : Eps, code : Codes])
  BY DEF TypeOK, EpTypeOK, DropAnswer, Dequeue
<1>2. TypeOK' /\ Done' = Done /\ CodeOfDone'
  BY <1>1 DEF DropAnswer, TypeOK, EpTypeOK, acks, Done, CodeOfDone
<1> QED
  BY <1>2, Frame DEF DropAnswer

(* An answer of a service, or a timer going off, only queues an answer. *)
LEMMA EnvStepInv == ASSUME IInv, NEW e \in Eps, EnvStep(e) PROVE IInv'
<1> USE DEF IInv
<1>1. /\ UNCHANGED <<epState, epCode, sendIdx, tracked, acks, calls, allCalls>>
      /\ timer' \subseteq timer /\ remote' \subseteq remote
  BY DEF EnvStep, RemoteAnswers, TimerFires
<1>2. PICK c \in Codes : answers' = Append(answers, Answer(e, c))
  BY DEF EnvStep, RemoteAnswers, TimerFires, Codes
<1>3. answers' \in Seq([from : Eps, code : Codes])
  <2>1. Answer(e, c) \in [from : Eps, code : Codes]
    BY DEF Answer
  <2> QED
    BY <1>2, <2>1 DEF TypeOK, EpTypeOK
<1>4. TypeOK' /\ Done' = Done /\ CodeOfDone'
  BY <1>1, <1>3 DEF TypeOK, EpTypeOK, acks, Done, CodeOfDone
<1> QED
  BY <1>1, <1>4, Frame

---------------------------------------------------------------------------
(***************************************************************************)
(* handleResponse completes one endpoint: the counters, the lists and      *)
(* response_ move with it.                                                 *)
(***************************************************************************)
LEMMA OneMore ==
    ASSUME IInv, CountAnswer
    PROVE  /\ EpTypeOK' /\ Counted' /\ CodeOfDone' /\ FailuresListed'
           /\ response' \in Codes
           /\ primaryAckdCnt = PrimariesCnt =>
                 primaryAckdCnt' = PrimariesCnt /\ response' = response
           /\ totalAckdCnt # NumEps
<1> DEFINE a == Head(answers)
           x == a.from
           ok == a.code \in Success
           primary == x \in Primaries
<1> USE DEF IInv
<1>1. /\ a \in [from : Eps, code : Codes]
      /\ answers' \in Seq([from : Eps, code : Codes])
  <2>1. /\ answers \in Seq([from : Eps, code : Codes])
        /\ answers # <<>> /\ answers' = Tail(answers)
    BY DEF CountAnswer, Dequeue, TypeOK, EpTypeOK
  <2> QED
    BY <2>1, HeadTailProperties
<1>2. x \in Eps /\ a.code \in Codes /\ a.code # "none"
  BY <1>1, Basics
<1>3. /\ tracked /\ epState[x] # "COMPLETE" /\ UNCHANGED remote
      /\ Complete(x, a.code) /\ CountAck(a)
  BY DEF CountAnswer
<1>4. /\ epState' = [epState EXCEPT ![x] = "COMPLETE"]
      /\ epCode' = [epCode EXCEPT ![x] = a.code]
      /\ timer' = timer \ {x}
  BY <1>3 DEF Complete
<1>5. /\ primaryAckdCnt' = primaryAckdCnt + (IF primary THEN 1 ELSE 0)
      /\ totalAckdCnt' = totalAckdCnt + 1
      /\ failedPrimaries' = IF ~ok /\ primary THEN failedPrimaries \cup {x}
                                              ELSE failedPrimaries
      /\ failedOptionals' = IF ~ok /\ ~primary THEN failedOptionals \cup {x}
                                               ELSE failedOptionals
      /\ response' = IF ~ok /\ primary /\ response = "OK" THEN a.code
                                                          ELSE response
  BY <1>3 DEF CountAck
<1>6. totalAckdCnt # NumEps
  BY <1>3 DEF CalledWhenDue
<1>7. epCode[x] = "none"
  BY <1>2, <1>3 DEF CodeOfDone
<1> HIDE DEF a, x
<1>8. EpTypeOK'
  BY <1>1, <1>2, <1>3, <1>4 DEF TypeOK, EpTypeOK, EpStates
<1>9. /\ \A e \in Eps : epCode'[e] = IF e = x THEN a.code ELSE epCode[e]
      /\ \A e \in Eps : epState'[e] = IF e = x THEN "COMPLETE" ELSE epState[e]
  BY <1>2, <1>4 DEF TypeOK, EpTypeOK
<1>10. CodeOfDone'
  BY <1>2, <1>9 DEF CodeOfDone
<1>11. /\ x \notin Done /\ Done' = Done \cup {x}
       /\ x \notin Failed /\ Failed' = IF ok THEN Failed ELSE Failed \cup {x}
  BY <1>2, <1>3, <1>7, <1>9, Basics DEF Done, Failed
<1>12. Counted'
  <2>1. IsFiniteSet(Eps) /\ Done \subseteq Eps /\ Done \cap Primaries \subseteq Eps
    BY FS_Interval, Basics DEF Done, Eps
  <2>2. IsFiniteSet(Done) /\ IsFiniteSet(Done \cap Primaries)
    BY <2>1, FS_Subset
  <2>3. /\ Cardinality(Done) \in Nat
        /\ Cardinality(Done \cap Primaries) \in Nat
    BY <2>2, FS_CardinalityType
  <2>4. Cardinality(Done') = Cardinality(Done) + 1
    BY <1>11, <2>2, FS_AddElement
  <2>5. Cardinality(Done' \cap Primaries)
          = Cardinality(Done \cap Primaries) + (IF primary THEN 1 ELSE 0)
    <3>1. CASE primary
      <4>1. /\ Done' \cap Primaries = (Done \cap Primaries) \cup {x}
            /\ x \notin Done \cap Primaries
        BY <1>11, <3>1
      <4> QED
        BY <2>2, <3>1, <4>1, FS_AddElement
    <3>2. CASE ~primary
      <4>1. Done' \cap Primaries = Done \cap Primaries
        BY <1>11, <3>2, Zenon
      <4> QED
        BY <2>3, <3>2, <4>1
    <3> QED
      BY <3>1, <3>2
  <2>6. Primaries' = Primaries
    BY DEF Primaries
  <2> QED
    BY <1>5, <2>4, <2>5, <2>6 DEF Counted
<1>13. FailuresListed'
  <2>1. /\ failedPrimaries' = Failed' \cap Primaries
        /\ failedOptionals' = Failed' \ Primaries
    BY <1>5, <1>11 DEF FailuresListed
  <2>2. \A e \in failedPrimaries : e # x /\ e \in Eps /\ epCode[e] # "OK"
    BY <1>11, Basics DEF FailuresListed, Failed
  <2>3. IF failedPrimaries' = {} THEN response' = "OK"
        ELSE \E e \in failedPrimaries' : response' = epCode'[e]
    <3>1. CASE ~ok /\ primary /\ failedPrimaries = {}
      <4>1. x \in failedPrimaries' /\ response' = a.code /\ epCode'[x] = a.code
        BY <1>2, <1>5, <1>9, <3>1 DEF FailuresListed
      <4> QED
        BY <4>1
    <3>2. CASE failedPrimaries # {}
      <4>1. PICK e \in failedPrimaries : response = epCode[e]
        BY <3>2 DEF FailuresListed
      <4>2. /\ e \in failedPrimaries' /\ response' = response
            /\ epCode'[e] = epCode[e]
        BY <1>5, <1>9, <2>2, <4>1
      <4> QED
        BY <4>1, <4>2
    <3>3. CASE ~(~ok /\ primary) /\ failedPrimaries = {}
      BY <1>5, <3>3 DEF FailuresListed
    <3> QED
      BY <3>1, <3>2, <3>3
  <2>4. Primaries' = Primaries
    BY DEF Primaries
  <2> QED
    BY <2>1, <2>3, <2>4 DEF FailuresListed
<1>14. response' \in Codes
  BY <1>2, <1>5 DEF TypeOK
<1>15. primaryAckdCnt = PrimariesCnt =>
          primaryAckdCnt' = PrimariesCnt /\ response' = response
  <2> SUFFICES ASSUME primaryAckdCnt = PrimariesCnt PROVE ~primary
    BY <1>5, Basics
  <2>1. \A e \in Primaries : epState[e] = "COMPLETE"
    BY WhatCountsMean
  <2> QED
    BY <1>3, <2>1
<1> QED
  BY <1>6, <1>8, <1>10, <1>12, <1>13, <1>14, <1>15

(* What the client is told when an endpoint completes. *)
LEMMA CountAnswerInv == ASSUME IInv, CountAnswer PROVE IInv'
<1> USE DEF IInv
<1>1. /\ EpTypeOK' /\ Counted' /\ CodeOfDone' /\ FailuresListed'
      /\ response' \in Codes
      /\ primaryAckdCnt = PrimariesCnt =>
            primaryAckdCnt' = PrimariesCnt /\ response' = response
      /\ totalAckdCnt # NumEps
  BY OneMore
<1>2. /\ primaryAckdCnt' \in 0..PrimariesCnt /\ totalAckdCnt' \in 0..NumEps
  <2>1. /\ Done' \in SUBSET Eps /\ Done' \cap Primaries \in SUBSET Primaries
        /\ Primaries' = Primaries
    BY DEF Done, Primaries
  <2>2. Cardinality(Done') \in 0..NumEps
    BY <2>1, Basics, Fills DEF Eps
  <2>3. Cardinality(Done' \cap Primaries) \in 0..PrimariesCnt
    BY <2>1, Basics, Fills DEF Primaries
  <2> QED
    BY <1>1, <2>1, <2>2, <2>3 DEF Counted
<1>3. /\ calls' = IF primaryAckdCnt' = PrimariesCnt /\ calls = <<>>
                  THEN Append(calls, response') ELSE calls
      /\ tracked' = (totalAckdCnt' # NumEps)
      /\ allCalls' = IF tracked' THEN allCalls ELSE Append(allCalls, response')
      /\ sendIdx' = sendIdx
  BY DEF CountAnswer, Respond
<1>4. calls' = IF primaryAckdCnt' = PrimariesCnt THEN <<response'>> ELSE <<>>
  <2>1. CASE primaryAckdCnt = PrimariesCnt
    BY <1>1, <1>3, <2>1 DEF CalledWhenDue
  <2>2. CASE primaryAckdCnt # PrimariesCnt
    BY <1>1, <1>3, <2>2 DEF CalledWhenDue
  <2> QED
    BY <2>1, <2>2
<1>5. allCalls = <<>>
  BY <1>1 DEF CalledWhenDue
<1>6. allCalls' = IF totalAckdCnt' = NumEps THEN <<response'>> ELSE <<>>
  <2>1. CASE totalAckdCnt' # NumEps
    BY <1>3, <1>5, <2>1, Zenon
  <2>2. CASE totalAckdCnt' = NumEps
    <3>1. allCalls' = Append(allCalls, response')
      BY <1>3, <2>2, Zenon
    <3> QED
      BY <1>5, <2>2, <3>1
  <2> QED
    BY <2>1, <2>2
<1>7. calls' \in Seq(Codes) /\ allCalls' \in Seq(Codes)
  BY <1>1, <1>4, <1>6
<1>8. /\ failedPrimaries' \subseteq Primaries
      /\ failedOptionals' \subseteq Eps \ Primaries
  BY <1>1 DEF FailuresListed, Failed, Primaries
<1>9. TypeOK'
  BY <1>1, <1>2, <1>3, <1>7, <1>8 DEF TypeOK, Primaries
<1>10. CalledWhenDue'
  BY <1>3, <1>4, <1>6 DEF CalledWhenDue
<1> QED
  BY <1>1, <1>9, <1>10

(* One step of the request or of its environment keeps the invariant. *)
LEMMA NextInv == IInv /\ [Next]_vars => IInv'
<1> SUFFICES ASSUME IInv, [Next]_vars PROVE IInv'
  OBVIOUS
<1>1. CASE InvokeWork
  BY <1>1, InvokeWorkInv
<1>2. CASE DropAnswer
  BY <1>2, DropAnswerInv
<1>3. CASE CountAnswer
  BY <1>3, CountAnswerInv
<1>4. CASE \E e \in Eps : EnvStep(e)
  BY <1>4, EnvStepInv
<1>5. CASE UNCHANGED vars
  <2>1. TypeOK' /\ CodeOfDone' /\ Done' = Done
    BY <1>5 DEF IInv, TypeOK, EpTypeOK, CodeOfDone, Done, vars, epVars, acks
  <2> QED
    BY <1>5, <2>1, Frame DEF vars, epVars, acks
<1> QED
  BY <1>1, <1>2, <1>3, <1>4, <1>5 DEF Next

---------------------------------------------------------------------------
(* The inductive invariant holds of every execution of such a request. *)
LEMMA Invariance == Spec => []IInv
BY InitInv, NextInv, PTL DEF Spec

(***************************************************************************)
(* The fields of MultiPrimarySvcRequest keep their types: primaryAckdCnt_  *)
(* and totalAckdCnt_ stay within the endpoints they count.                 *)
(***************************************************************************)
THEOREM TypeCorrect == Spec => []TypeOK
<1>1. IInv => TypeOK
  BY DEF IInv
<1> QED
  BY <1>1, Invariance, PTL

(***************************************************************************)
(* respCb_ is called when the last primary has answered, with OK exactly   *)
(* when no primary failed, whatever the optional endpoints do.             *)
(***************************************************************************)
THEOREM PrimariesSpeak == Spec => []PrimariesDecide
<1>1. IInv => PrimariesDecide
  <2> SUFFICES ASSUME IInv PROVE PrimariesDecide
    OBVIOUS
  <2> USE DEF IInv
  <2>1. (calls # <<>>) <=> primaryAckdCnt = PrimariesCnt
    BY DEF CalledWhenDue
  <2>2. calls # <<>> => calls = <<response>>
    BY DEF CalledWhenDue
  <2>3. response = "OK" => Failed \cap Primaries = {}
    BY Basics DEF FailuresListed, Failed
  <2>4. response # "OK" => \E e \in Failed \cap Primaries : response = epCode[e]
    BY DEF FailuresListed
  <2>5. ASSUME NEW i \in 1..Len(calls) PROVE calls[i] = response
    BY <2>2
  <2> QED
    BY <2>1, <2>3, <2>4, <2>5, WhatCountsMean DEF PrimariesDecide
<1> QED
  BY <1>1, Invariance, PTL

(***************************************************************************)
(* allRespondedCb_ is called when the last endpoint has answered, after    *)
(* respCb_ and with its code, and the lists of failed endpoints it is      *)
(* given are then complete.                                                *)
(***************************************************************************)
THEOREM AllRespondedLast == Spec => []AllResponded
<1>1. IInv => AllResponded
  <2> SUFFICES ASSUME IInv PROVE AllResponded
    OBVIOUS
  <2> USE DEF IInv
  <2>1. (allCalls # <<>>) <=> totalAckdCnt = NumEps
    BY DEF CalledWhenDue
  <2>2. allCalls = <<>> => tracked
    BY <2>1 DEF CalledWhenDue
  <2>3. ASSUME allCalls # <<>>
        PROVE  /\ allCalls = calls
               /\ \A e \in Eps : epState[e] = "COMPLETE"
    BY <2>1, <2>3, WhatCountsMean DEF CalledWhenDue
  <2>4. failedPrimaries \cup failedOptionals = Failed
    BY DEF FailuresListed
  <2> QED
    BY <2>2, <2>3, <2>4 DEF AllResponded
<1> QED
  BY <1>1, Invariance, PTL

(***************************************************************************)
(* The safety part of HonoursContract: the client of a multi-primary       *)
(* request is called back at most once, and the request is not retired     *)
(* before that.                                                            *)
(***************************************************************************)
THEOREM ImplementsContract ==
    Spec => Contract!Init /\ [][Contract!Next]_(Contract!vars)
<1>1. Init => Contract!Init
  BY DEF Init, Contract!Init
<1>2. IInv /\ IInv' /\ [Next]_vars => [Contract!Next]_(Contract!vars)
  <2> SUFFICES ASSUME IInv, IInv', [Next]_vars
               PROVE  [Contract!Next]_(Contract!vars)
    OBVIOUS
  <2>1. CASE CountAnswer
    <3>1. tracked = TRUE /\ tracked' \in BOOLEAN
      BY <2>1 DEF CountAnswer, IInv, TypeOK
    <3>2. calls' = IF primaryAckdCnt' = PrimariesCnt /\ calls = <<>>
                   THEN Append(calls, response') ELSE calls
      BY <2>1 DEF CountAnswer, Respond
    <3>3. CASE calls = <<>> /\ calls' # <<>>
      <4>1. calls' = <<response'>> /\ response' \in Codes
        BY <3>2, <3>3 DEF IInv, TypeOK
      <4> QED
        BY <3>1, <3>3, <4>1 DEF Contract!Next, Contract!Respond
    <3>4. CASE ~(calls = <<>> /\ calls' # <<>>)
      <4>1. calls' = calls
        BY <3>2, <3>4
      <4>2. CASE tracked'
        BY <3>1, <4>1, <4>2 DEF Contract!vars
      <4>3. CASE ~tracked'
        <5>1. totalAckdCnt' = NumEps
          BY <4>3 DEF IInv, CalledWhenDue
        <5>2. primaryAckdCnt' = PrimariesCnt
          <6>1. (totalAckdCnt = NumEps => primaryAckdCnt = PrimariesCnt)'
            BY WhatCountsMean, PTL DEF IInv
          <6> QED
            BY <5>1, <6>1
        <5>3. calls # <<>>
          BY <4>1, <5>2 DEF IInv, CalledWhenDue
        <5> QED
          BY <3>1, <4>1, <4>3, <5>3 DEF Contract!Next, Contract!Retire
      <4> QED
        BY <4>2, <4>3
    <3> QED
      BY <3>3, <3>4
  <2>2. CASE UNCHANGED <<calls, tracked>>
    BY <2>2 DEF Contract!vars
  <2> QED
    BY <2>1, <2>2 DEF Next, InvokeWork, DropAnswer, EnvStep, vars
<1> QED
  BY <1>1, <1>2, Invariance, PTL DEF Spec

=============================================================================
