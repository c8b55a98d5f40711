------------------------- MODULE VolumeGroupProofs -------------------------
(***************************************************************************)
(* Proofs about VolumeGroup, for every number of replicas, bound, kind of  *)
(* build and choice of the writes that are SetVolumeMetadata.              *)
(***************************************************************************)
EXTENDS VolumeGroup, FiniteSetTheorems, WellFoundedInduction, TLAPS

(* Messages and records, n being the number of writes issued so far: no    *)
(* operation and no sequence id goes beyond it                             *)
Version == 0..MaxVersion
WriteReq(n) == [type : {"write"}, w : 1..n, op : 1..n, seq : 1..n, direct : BOOLEAN]
ToDm(n) ==
    [type : {"open"}, id : Nat] \cup WriteReq(n)
       \cup [type : {"group"}, op : 0..n, seq : 0..n, func : SUBSET Replicas]
       \cup [type : {"joined"}, version : Version, op : 0..n, seq : 0..n, func : SUBSET Replicas]
       \cup [type : {"refused"}, version : Version]
OpenAnswer(n) ==
    [type : {"opened"}, id : Nat, seq : 0..n, version : Version] \cup [type : {"openerr"}, id : Nat]
Reply(n) == OpenAnswer(n) \cup [type : {"reply"}, w : 1..n, ok : BOOLEAN]
Add(n) == [target : {"Offline", "Loading", "Syncing", "Active"}, version : Version, op : 0..n]
Req(n) == [op : 1..n, ok : SUBSET Replicas, cb : BOOLEAN, waiting : SUBSET (Replicas \X Version)]
Handle(n) == [state : {"Offline", "Syncing", "Active"}, version : Version, applied : 0..n]
Pairs(n) == (1..n) \X (1..n)
Dm(n) ==
    [state : {"Offline", "Loading", "Syncing", "Active"}, version : 1..MaxVersion,
     opId : 0..n, coordSet : BOOLEAN, seq : 0..n, data : SUBSET Pairs(n),
     init : {"none", "scheduled", "contact", "copy", "migrate", "replay"},
     peers : SUBSET Replicas, peer : Replicas, buf : Seq(WriteReq(n))]

N == Len(reqs)

NetTypes ==
    /\ up \subseteq Replicas
    /\ toDm \in [Replicas -> Seq(ToDm(N))]
    /\ replies \in [Replicas -> Seq(Reply(N))]
    /\ adds \in [Replicas -> Seq(Add(N))]
HandleTypes ==
    /\ gstate \in {"Unknown", "Loading", "Active", "Offline"}
    /\ opening \in {"none", "prepare", "broadcast"}
    /\ prepared \in [Replicas -> OpenAnswer(N) \cup {NoAnswer}]
    /\ handle \in [Replicas -> Handle(N)]
    /\ opSeqNo \in 0..N /\ commitNo \in 0..N
    /\ buffering \in BOOLEAN /\ writeOpsBuffer \in Seq(WriteReq(N))
    /\ reqs \in Seq(Req(N)) /\ N \in Nat /\ N <= MaxWrites /\ acked \subseteq 1..N
    /\ opens \in Nat
DmTypes == dm \in [Replicas -> Dm(N)]

(* Versions the coordinator has or will have of a replica *)
Told(r) ==
    /\ handle[r].version <= dm[r].version
    /\ \A i \in DOMAIN adds[r] : adds[r][i].version <= dm[r].version
    /\ \A i \in DOMAIN replies[r] : replies[r][i].type = "opened" => replies[r][i].version <= dm[r].version
    /\ prepared[r].type = "opened" => prepared[r].version <= dm[r].version

IInv ==
    /\ NetTypes /\ HandleTypes /\ DmTypes
    /\ \A r \in Replicas : Told(r)
    /\ CatalogueCovered

-----------------------------------------------------------------------------
(* Queues and types *)

(* Elements of q are elements of p, or satisfy what is said of the new one *)
From(q, p) == \A i \in DOMAIN q : \E j \in DOMAIN p : q[i] = p[j]
FromOr(q, p, m) == \A i \in DOMAIN q : q[i] = m \/ \E j \in DOMAIN p : q[i] = p[j]

(* The head of a queue is taken off. *)
LEMMA TakeHead ==
    ASSUME NEW S, NEW q \in Seq(S), q # <<>>
    PROVE  /\ Head(q) \in S /\ Tail(q) \in Seq(S) /\ From(Tail(q), q)
           /\ 1 \in DOMAIN q /\ Head(q) = q[1]
  <1> DEFINE t == Tail(q)
             k == Len(q)
  <1>1. k \in Nat /\ k # 0 /\ DOMAIN q = 1 .. k /\ Head(q) = q[1] /\ Head(q) \in S
    OBVIOUS
  <1>2. t \in Seq(S) /\ DOMAIN t = 1 .. (k - 1) /\ \A i \in 1 .. (k - 1) : t[i] = q[i + 1]
    OBVIOUS
  <1> HIDE DEF t, k
  <1>3. \A i \in DOMAIN t : i + 1 \in DOMAIN q
    BY <1>1, <1>2
  <1>4. From(t, q)
    BY <1>2, <1>3 DEF From
  <1>5. 1 \in DOMAIN q
    BY <1>1
  <1> QED BY <1>1, <1>2, <1>4, <1>5 DEF t

(* A message joins a queue. *)
LEMMA PutLast ==
    ASSUME NEW S, NEW q \in Seq(S), NEW m \in S
    PROVE  Append(q, m) \in Seq(S) /\ FromOr(Append(q, m), q, m)
  <1> DEFINE b == Append(q, m)
             n == Len(q)
  <1>1. /\ n \in Nat /\ DOMAIN q = 1 .. n /\ b \in Seq(S) /\ DOMAIN b = 1 .. (n + 1)
        /\ b[n + 1] = m /\ \A i \in 1 .. n : b[i] = q[i]
    OBVIOUS
  <1> HIDE DEF b, n
  <1>2. \A i \in DOMAIN b : i = n + 1 \/ i \in DOMAIN q
    BY <1>1
  <1>3. FromOr(b, q, m)
    BY <1>1, <1>2 DEF FromOr
  <1> QED BY <1>1, <1>3 DEF b

(* Several messages join a queue. *)
LEMMA PutMany ==
    ASSUME NEW S, NEW q \in Seq(S), NEW p \in Seq(S)
    PROVE  /\ q \o p \in Seq(S)
           /\ \A i \in DOMAIN (q \o p) : \/ \E j \in DOMAIN q : (q \o p)[i] = q[j]
                                         \/ \E j \in DOMAIN p : (q \o p)[i] = p[j]
  <1> DEFINE b == q \o p
             n == Len(q)
             k == Len(p)
  <1>1. /\ n \in Nat /\ k \in Nat /\ DOMAIN q = 1 .. n /\ DOMAIN p = 1 .. k
        /\ b \in Seq(S) /\ DOMAIN b = 1 .. (n + k)
        /\ \A i \in 1 .. (n + k) : b[i] = IF i <= n THEN q[i] ELSE p[i - n]
    OBVIOUS
  <1> HIDE DEF b, n, k
  <1>2. ASSUME NEW i \in DOMAIN b
        PROVE  (\E j \in DOMAIN q : b[i] = q[j]) \/ (\E j \in DOMAIN p : b[i] = p[j])
    <2>1. CASE i <= n
      BY <1>1, <2>1
    <2>2. CASE ~(i <= n)
      <3>1. i - n \in 1 .. k
        BY <1>1, <2>2
      <3> QED BY <1>1, <2>2, <3>1
    <2> QED BY <2>1, <2>2
  <1> QED BY <1>1, <1>2 DEF b

(* A queue of S is one of any larger set. *)
LEMMA SeqMore ==
    ASSUME NEW S, NEW T, S \subseteq T, NEW q \in Seq(S)
    PROVE  q \in Seq(T)
  OBVIOUS

(* The kinds of request a replica gets. *)
LEMMA Requests ==
    ASSUME NEW n \in Nat, NEW m \in ToDm(n)
    PROVE  /\ m.type \in {"open", "write", "group", "joined", "refused"}
           /\ m.type = "open" => m.id \in Nat
           /\ m.type = "write" => m \in WriteReq(n)
           /\ m.type = "group" => m.op \in 0..n /\ m.seq \in 0..n /\ m.func \subseteq Replicas
           /\ m.type = "joined" => /\ m.version \in Version /\ m.op \in 0..n
                                   /\ m.seq \in 0..n /\ m.func \subseteq Replicas
  BY DEF ToDm, WriteReq

(* The kinds of answer the coordinator gets. *)
LEMMA Replies ==
    ASSUME NEW n \in Nat, NEW m \in Reply(n)
    PROVE  /\ IsOpenAnswer(m) => m \in OpenAnswer(n)
           /\ m.type = "reply" => m.w \in 1..n /\ m.ok \in BOOLEAN
  BY DEF Reply, OpenAnswer, IsOpenAnswer

(* What is typed by n is typed by a larger number. *)
LEMMA Wider ==
    ASSUME NEW n \in Nat, NEW k \in Nat, n <= k
    PROVE  /\ WriteReq(n) \subseteq WriteReq(k) /\ ToDm(n) \subseteq ToDm(k)
           /\ OpenAnswer(n) \subseteq OpenAnswer(k) /\ Reply(n) \subseteq Reply(k)
           /\ Add(n) \subseteq Add(k) /\ Req(n) \subseteq Req(k) /\ Handle(n) \subseteq Handle(k)
           /\ Dm(n) \subseteq Dm(k)
  <1>1. 0..n \subseteq 0..k /\ 1..n \subseteq 1..k
    OBVIOUS
  <1>2. WriteReq(n) \subseteq WriteReq(k)
    BY <1>1 DEF WriteReq
  <1>3. ToDm(n) \subseteq ToDm(k)
    BY <1>1, <1>2 DEF ToDm
  <1>4. OpenAnswer(n) \subseteq OpenAnswer(k)
    BY <1>1 DEF OpenAnswer
  <1>5. Reply(n) \subseteq Reply(k)
    BY <1>1, <1>4 DEF Reply
  <1>6. Add(n) \subseteq Add(k) /\ Req(n) \subseteq Req(k) /\ Handle(n) \subseteq Handle(k)
    BY <1>1 DEF Add, Req, Handle
  <1>7. Seq(WriteReq(n)) \subseteq Seq(WriteReq(k))
    BY <1>2, SeqMore
  <1>8. SUBSET Pairs(n) \subseteq SUBSET Pairs(k)
    BY <1>1 DEF Pairs
  <1>9. Dm(n) \subseteq Dm(k)
    BY <1>1, <1>7, <1>8 DEF Dm
  <1> QED BY <1>2, <1>3, <1>4, <1>5, <1>6, <1>9

-----------------------------------------------------------------------------
(* Steps of a replica *)

(* What is known of replica r when it takes a step *)
LEMMA ReplicaTypes ==
    ASSUME IInv, NEW r \in Replicas
    PROVE  /\ N \in Nat /\ MaxVersion \in Nat
           /\ up \subseteq Replicas
           /\ dm \in [Replicas -> Dm(N)] /\ dm[r] \in Dm(N)
           /\ toDm \in [Replicas -> Seq(ToDm(N))] /\ toDm[r] \in Seq(ToDm(N))
           /\ replies \in [Replicas -> Seq(Reply(N))] /\ replies[r] \in Seq(Reply(N))
           /\ adds \in [Replicas -> Seq(Add(N))] /\ adds[r] \in Seq(Add(N))
           /\ \A x \in Blobs(dm[r].data) : x[2] <= dm[r].seq
  BY GroupAssumption DEF IInv, NetTypes, HandleTypes, DmTypes, CatalogueCovered

(* It takes a request. *)
LEMMA Consumes ==
    ASSUME IInv, NEW r \in Replicas, toDm[r] # <<>>
    PROVE  /\ Head(toDm[r]) \in ToDm(N)
           /\ Consumed(r) \in [Replicas -> Seq(ToDm(N))]
  <1>1. toDm \in [Replicas -> Seq(ToDm(N))] /\ toDm[r] \in Seq(ToDm(N))
    BY ReplicaTypes
  <1>2. Head(toDm[r]) \in ToDm(N) /\ Tail(toDm[r]) \in Seq(ToDm(N))
    BY <1>1, TakeHead
  <1> QED BY <1>1, <1>2 DEF Consumed

(* The part of the messages of r that may be new names version v at most *)
NewReplies(r) ==
    \A i \in DOMAIN replies'[r] :
       \/ \E j \in DOMAIN replies[r] : replies'[r][i] = replies[r][j]
       \/ replies'[r][i].type = "opened" => replies'[r][i].version <= dm'[r].version
NewAdds(r) ==
    \A i \in DOMAIN adds'[r] :
       \/ \E j \in DOMAIN adds[r] : adds'[r][i] = adds[r][j]
       \/ adds'[r][i].version <= dm'[r].version

(* It answers. *)
LEMMA Answers ==
    ASSUME IInv, NEW r \in Replicas, NEW m \in Reply(N), SendReply(r, m),
           m.type = "opened" => m.version <= dm'[r].version
    PROVE  /\ replies' \in [Replicas -> Seq(Reply(N))] /\ NewReplies(r)
           /\ \A s \in Replicas \ {r} : replies'[s] = replies[s]
  <1>1. replies \in [Replicas -> Seq(Reply(N))] /\ replies[r] \in Seq(Reply(N))
    BY ReplicaTypes
  <1> DEFINE b == Append(replies[r], m)
  <1>2. b \in Seq(Reply(N)) /\ FromOr(b, replies[r], m)
    BY <1>1, PutLast
  <1>3. replies' = [replies EXCEPT ![r] = b]
    BY DEF SendReply
  <1> HIDE DEF b
  <1>4. /\ replies' \in [Replicas -> Seq(Reply(N))] /\ replies'[r] = b
        /\ \A s \in Replicas \ {r} : replies'[s] = replies[s]
    BY <1>1, <1>2, <1>3
  <1>5. NewReplies(r)
    BY <1>2, <1>4 DEF FromOr, NewReplies
  <1> QED BY <1>4, <1>5

(* It answers a write. *)
LEMMA AnswersWrite ==
    ASSUME IInv, NEW r \in Replicas, NEW m \in WriteReq(N), NEW ok \in BOOLEAN, AnswerWrite(r, m, ok)
    PROVE  /\ replies' \in [Replicas -> Seq(Reply(N))] /\ NewReplies(r)
           /\ \A s \in Replicas \ {r} : replies'[s] = replies[s]
  <1>1. CASE m.direct
    <2>1. replies' = replies
      BY <1>1 DEF AnswerWrite
    <2> QED BY <2>1, ReplicaTypes DEF NewReplies
  <1>2. CASE ~m.direct
    <2>1. SendReply(r, WriteReply(m.w, ok))
      BY <1>2 DEF AnswerWrite
    <2>2. WriteReply(m.w, ok) \in Reply(N) /\ WriteReply(m.w, ok).type = "reply"
      BY DEF WriteReply, Reply, WriteReq
    <2> HIDE DEF WriteReply
    <2> QED BY <2>1, <2>2, Answers
  <1> QED BY <1>1, <1>2

(* It sends messages of its own. *)
LEMMA Sends ==
    ASSUME IInv, NEW r \in Replicas, NEW ms \in Seq(Add(N)), SendAdds(r, ms),
           \A i \in DOMAIN ms : ms[i].version <= dm'[r].version
    PROVE  /\ adds' \in [Replicas -> Seq(Add(N))] /\ NewAdds(r)
           /\ \A s \in Replicas \ {r} : adds'[s] = adds[s]
  <1>1. adds \in [Replicas -> Seq(Add(N))] /\ adds[r] \in Seq(Add(N))
    BY ReplicaTypes
  <1> DEFINE b == adds[r] \o ms
  <1>2. /\ b \in Seq(Add(N))
        /\ \A i \in DOMAIN b : (\E j \in DOMAIN adds[r] : b[i] = adds[r][j]) \/ (\E j \in DOMAIN ms : b[i] = ms[j])
    BY <1>1, PutMany
  <1>3. adds' = [adds EXCEPT ![r] = b]
    BY DEF SendAdds
  <1> HIDE DEF b
  <1>4. /\ adds' \in [Replicas -> Seq(Add(N))] /\ adds'[r] = b
        /\ \A s \in Replicas \ {r} : adds'[s] = adds[s]
    BY <1>1, <1>2, <1>3
  <1>5. NewAdds(r)
    BY <1>2, <1>4 DEF NewAdds
  <1> QED BY <1>4, <1>5

(* A step of r, in which its version does not fall and its sequence id     *)
(* covers its catalogue, keeps the invariant.                              *)
LEMMA ReplicaFrame ==
    ASSUME IInv, NEW r \in Replicas, UNCHANGED handleVars, up' \subseteq Replicas,
           toDm' \in [Replicas -> Seq(ToDm(N))],
           replies' \in [Replicas -> Seq(Reply(N))], NewReplies(r),
           adds' \in [Replicas -> Seq(Add(N))], NewAdds(r),
           NEW d \in Dm(N), dm' = [dm EXCEPT ![r] = d], d.version \in {dm[r].version, dm[r].version + 1},
           \A x \in Blobs(d.data) : x[2] <= d.seq,
           \A s \in Replicas \ {r} : replies'[s] = replies[s] /\ adds'[s] = adds[s]
    PROVE  IInv'
  <1>1. /\ dm \in [Replicas -> Dm(N)]
        /\ reqs' = reqs /\ N' = N /\ handle' = handle /\ prepared' = prepared
    BY ReplicaTypes DEF handleVars, N
  <1>2. HandleTypes'
    BY <1>1 DEF IInv, HandleTypes, handleVars
  <1>3. /\ dm' \in [Replicas -> Dm(N)] /\ dm'[r] = d
        /\ \A s \in Replicas \ {r} : dm'[s] = dm[s]
    BY <1>1
  <1>4. NetTypes' /\ DmTypes'
    BY <1>1, <1>3 DEF NetTypes, DmTypes
  <1>5. ASSUME NEW s \in Replicas \ {r} PROVE Told(s)'
    <2>1. Told(s) /\ dm'[s] = dm[s] /\ replies'[s] = replies[s] /\ adds'[s] = adds[s]
      BY <1>3 DEF IInv
    <2> QED BY <1>1, <2>1 DEF Told
  <1>6. Told(r)'
    <2> DEFINE v == dm[r].version
               u == dm'[r].version
    <2>1. Told(r)
      BY DEF IInv
    <2>2. v \in Nat /\ u \in Nat /\ v <= u
      <3>1. dm[r] \in Dm(N) /\ dm'[r] \in Dm(N) /\ dm'[r] = d /\ MaxVersion \in Nat
        BY <1>3, ReplicaTypes
      <3>2. v \in 1..MaxVersion /\ u \in 1..MaxVersion
        BY <3>1 DEF Dm
      <3> QED BY <3>1, <3>2
    <2>3. ASSUME NEW x \in Version, x <= v PROVE x <= u
      BY <2>2, <2>3 DEF Version
    <2>4. handle'[r].version <= u
      <3>1. handle[r].version \in Version
        BY DEF IInv, HandleTypes, Handle
      <3> QED BY <1>1, <2>1, <2>3, <3>1 DEF Told
    <2>5. ASSUME NEW i \in DOMAIN adds'[r] PROVE adds'[r][i].version <= u
      <3>1. CASE \E j \in DOMAIN adds[r] : adds'[r][i] = adds[r][j]
        <4>1. PICK j \in DOMAIN adds[r] : adds'[r][i] = adds[r][j]
          BY <3>1
        <4>2. adds[r] \in Seq(Add(N))
          BY ReplicaTypes
        <4>3. adds[r][j] \in Add(N)
          BY <4>2
        <4>4. adds[r][j].version \in Version
          BY <4>3 DEF Add
        <4> QED BY <2>1, <2>3, <4>1, <4>4 DEF Told
      <3> QED BY <3>1 DEF NewAdds
    <2>6. ASSUME NEW i \in DOMAIN replies'[r], replies'[r][i].type = "opened"
          PROVE  replies'[r][i].version <= u
      <3>1. CASE \E j \in DOMAIN replies[r] : replies'[r][i] = replies[r][j]
        <4>1. PICK j \in DOMAIN replies[r] : replies'[r][i] = replies[r][j]
          BY <3>1
        <4>2. replies[r] \in Seq(Reply(N))
          BY ReplicaTypes
        <4>3. replies[r][j] \in Reply(N)
          BY <4>2
        <4>4. replies[r][j].version \in Version
          BY <2>6, <4>1, <4>3 DEF Reply, OpenAnswer
        <4> QED BY <2>1, <2>3, <2>6, <4>1, <4>4 DEF Told
      <3> QED BY <2>6, <3>1 DEF NewReplies
    <2>7. ASSUME prepared[r].type = "opened" PROVE prepared[r].version <= u
      <3>1. prepared[r] \in OpenAnswer(N) \cup {NoAnswer}
        BY DEF IInv, HandleTypes
      <3>2. prepared[r].version \in Version
        BY <2>7, <3>1 DEF OpenAnswer, NoAnswer
      <3> QED BY <2>1, <2>3, <2>7, <3>2 DEF Told
    <2> QED BY <1>1, <2>4, <2>5, <2>6, <2>7 DEF Told
  <1>7. CatalogueCovered'
    BY <1>3 DEF IInv, CatalogueCovered
  <1>8. \A s \in Replicas : Told(s)'
    BY <1>5, <1>6
  <1> QED BY <1>2, <1>4, <1>7, <1>8 DEF IInv

(* Nothing is sent to the coordinator *)
LEMMA SendsNone ==
    ASSUME IInv, NEW r \in Replicas, adds' = adds
    PROVE  /\ adds' \in [Replicas -> Seq(Add(N))] /\ NewAdds(r)
           /\ \A s \in Replicas \ {r} : adds'[s] = adds[s]
  BY ReplicaTypes DEF NewAdds

(* and nothing is answered. *)
LEMMA AnswersNone ==
    ASSUME IInv, NEW r \in Replicas, replies' = replies
    PROVE  /\ replies' \in [Replicas -> Seq(Reply(N))] /\ NewReplies(r)
           /\ \A s \in Replicas \ {r} : replies'[s] = replies[s]
  BY ReplicaTypes DEF NewReplies

(* A step of r that changes neither version, catalogue nor sequence id *)
Keeps(d, e) == d \in Dm(N) /\ d.version = e.version /\ d.data = e.data /\ d.seq = e.seq

(* setState(Offline) is one. *)
LEMMA OfflineKeeps ==
    ASSUME N \in Nat, NEW e \in Dm(N)
    PROVE  Keeps(Offline(e), e)
  <1> DEFINE b == <<>>
             o == OPSTARTID
  <1>1. b \in Seq(WriteReq(N)) /\ o \in 0..N
    BY DEF OPSTARTID
  <1>2. Offline(e) = [e EXCEPT !.state = "Offline", !.opId = o, !.init = "none", !.buf = b]
    BY DEF Offline
  <1> HIDE DEF b, o
  <1> QED BY <1>1, <1>2 DEF Dm, Keeps

(* Such a step keeps the invariant. *)
LEMMA KeepsFrame ==
    ASSUME IInv, NEW r \in Replicas, UNCHANGED handleVars, up' \subseteq Replicas,
           toDm' \in [Replicas -> Seq(ToDm(N))],
           replies' \in [Replicas -> Seq(Reply(N))], NewReplies(r),
           adds' \in [Replicas -> Seq(Add(N))], NewAdds(r),
           NEW d, Keeps(d, dm[r]), dm' = [dm EXCEPT ![r] = d],
           \A s \in Replicas \ {r} : replies'[s] = replies[s] /\ adds'[s] = adds[s]
    PROVE  IInv'
  <1>1. /\ d \in Dm(N) /\ d.version \in {dm[r].version, dm[r].version + 1}
        /\ \A x \in Blobs(d.data) : x[2] <= d.seq
    BY ReplicaTypes DEF Keeps
  <1> QED BY <1>1, ReplicaFrame

(* VolumeOpenHandler *)
LEMMA OpenSteps ==
    ASSUME IInv, NEW r \in Replicas, UNCHANGED handleVars, OpenWhileSyncing(r) \/ HandleOpen(r)
    PROVE  IInv'
  <1> DEFINE m == Head(toDm[r])
             e == dm[r]
  <1>1. /\ toDm[r] # <<>> /\ m.type = "open" /\ toDm' = Consumed(r) /\ UNCHANGED <<up, adds>>
    BY DEF OpenWhileSyncing, HandleOpen, Receive
  <1>2. m \in ToDm(N) /\ toDm' \in [Replicas -> Seq(ToDm(N))]
    BY <1>1, Consumes
  <1>3. N \in Nat /\ MaxVersion \in Nat /\ up' \subseteq Replicas
    BY <1>1, ReplicaTypes
  <1>4. e \in Dm(N) /\ dm \in [Replicas -> Dm(N)] /\ \A x \in Blobs(e.data) : x[2] <= e.seq
    BY ReplicaTypes
  <1>5. m.id \in Nat
    BY <1>1, <1>2, <1>3, Requests
  <1>6. CASE OpenWhileSyncing(r)
    <2>1. SendReply(r, OpenRefused(m.id)) /\ dm' = dm
      BY <1>6 DEF OpenWhileSyncing
    <2>2. OpenRefused(m.id) \in Reply(N) /\ OpenRefused(m.id).type # "opened"
      BY <1>5 DEF OpenRefused, Reply, OpenAnswer
    <2>3. dm' = [dm EXCEPT ![r] = e] /\ Keeps(e, dm[r])
      BY <1>4, <2>1 DEF Keeps
    <2> HIDE DEF m, OpenRefused
    <2> QED BY <1>1, <1>2, <1>3, <2>1, <2>2, <2>3, Answers, SendsNone, KeepsFrame
  <1>7. CASE HandleOpen(r)
    <2> DEFINE d == [e EXCEPT !.coordSet = TRUE, !.state = "Loading", !.version = @ + 1]
               a == OpenedMsg(m.id, e.seq, e.version + 1)
    <2>1. /\ dm' = [dm EXCEPT ![r] = d] /\ SendReply(r, a) /\ e.version < MaxVersion
      BY <1>4, <1>7 DEF HandleOpen
    <2> HIDE DEF e
    <2>2. e.version \in 1..MaxVersion /\ e.seq \in 0..N
      BY <1>4 DEF Dm
    <2>3. e.version + 1 \in 1..MaxVersion
      BY <1>3, <2>1, <2>2
    <2>4. d \in Dm(N) /\ d.version = e.version + 1 /\ d.data = e.data /\ d.seq = e.seq
      BY <1>4, <2>3 DEF Dm
    <2>5. a \in Reply(N) /\ a.version = e.version + 1
      BY <1>3, <1>5, <2>2, <2>3 DEF OpenedMsg, Reply, OpenAnswer, Version
    <2> HIDE DEF m, d, a
    <2>6. dm'[r] = d
      BY <1>4, <2>1
    <2>7. a.version <= dm'[r].version
      BY <1>3, <2>2, <2>4, <2>5, <2>6
    <2>8. d.version \in {dm[r].version, dm[r].version + 1} /\ \A x \in Blobs(d.data) : x[2] <= d.seq
      BY <1>4, <2>4 DEF e
    <2> QED BY <1>1, <1>2, <1>3, <2>1, <2>4, <2>5, <2>7, <2>8, Answers, SendsNone, ReplicaFrame
  <1> QED BY <1>6, <1>7

(* VolumeMeta::handleVolumegroupUpdate *)
LEMMA GroupSteps ==
    ASSUME IInv, NEW r \in Replicas, UNCHANGED handleVars,
           GroupUpdateActivates(r) \/ GroupUpdateSyncs(r) \/ GroupUpdateIgnored(r)
    PROVE  IInv'
  <1> DEFINE m == Head(toDm[r])
             e == dm[r]
  <1>1. /\ toDm[r] # <<>> /\ m.type = "group" /\ toDm' = Consumed(r) /\ UNCHANGED <<up, replies, adds>>
    BY DEF GroupUpdateActivates, GroupUpdateSyncs, GroupUpdateIgnored, Receive
  <1>2. m \in ToDm(N) /\ toDm' \in [Replicas -> Seq(ToDm(N))]
    BY <1>1, Consumes
  <1>3. N \in Nat /\ up' \subseteq Replicas
    BY <1>1, ReplicaTypes
  <1>4. e \in Dm(N) /\ dm \in [Replicas -> Dm(N)]
    BY ReplicaTypes
  <1>5. m.op \in 0..N
    BY <1>1, <1>2, <1>3, Requests
  <1>6. \E d : dm' = [dm EXCEPT ![r] = d] /\ Keeps(d, dm[r])
    <2>1. CASE GroupUpdateActivates(r)
      <3> DEFINE d == [e EXCEPT !.state = "Active", !.opId = m.op]
      <3>1. dm' = [dm EXCEPT ![r] = d]
        BY <1>4, <2>1 DEF GroupUpdateActivates
      <3> HIDE DEF e, m
      <3>2. Keeps(d, e)
        BY <1>4, <1>5 DEF Dm, Keeps
      <3> QED BY <3>1, <3>2 DEF e
    <2>2. CASE GroupUpdateSyncs(r)
      <3> DEFINE d == [Offline(e) EXCEPT !.coordSet = TRUE, !.init = "scheduled"]
      <3>1. dm' = [dm EXCEPT ![r] = d]
        BY <1>4, <2>2 DEF GroupUpdateSyncs
      <3> HIDE DEF e, m
      <3>2. Keeps(Offline(e), e)
        BY <1>3, <1>4, OfflineKeeps
      <3>3. ASSUME NEW f, Keeps(f, e)
            PROVE  Keeps([f EXCEPT !.coordSet = TRUE, !.init = "scheduled"], e)
        BY <3>3 DEF Dm, Keeps
      <3> QED BY <3>1, <3>2, <3>3 DEF e
    <2>3. CASE GroupUpdateIgnored(r)
      <3>1. dm' = [dm EXCEPT ![r] = e] /\ Keeps(e, dm[r])
        BY <1>4, <2>3 DEF GroupUpdateIgnored, Keeps
      <3> QED BY <3>1
    <2> QED BY <2>1, <2>2, <2>3
  <1> HIDE DEF m, e
  <1> QED BY <1>1, <1>2, <1>3, <1>6, AnswersNone, SendsNone, KeepsFrame

(* The sequence id of a record covers the blobs of its catalogue *)
Covered(d) == \A x \in Blobs(d.data) : x[2] <= d.seq

(* A write keeps it so: of a blob, it raises the sequence id. *)
LEMMA AppliedCovered ==
    ASSUME N \in Nat, NEW e \in Dm(N), NEW m \in WriteReq(N), Covered(e)
    PROVE  Applied(e, m) \in Dm(N) /\ Applied(e, m).version = e.version /\ Covered(Applied(e, m))
  <1> DEFINE o == m.op
             p == <<m.w, m.seq>>
             c == e.data \cup {p}
             s == IF m.w \in MetaWrites THEN e.seq ELSE Raised(e.seq, m.seq)
             d == Applied(e, m)
  <1>1. o \in 1..N /\ m.seq \in 1..N /\ m.w \in 1..N
    BY DEF WriteReq
  <1>2. e.data \subseteq Pairs(N) /\ e.seq \in 0..N
    BY DEF Dm
  <1>3. p \in Pairs(N) /\ p[1] = m.w /\ p[2] = m.seq
    BY <1>1 DEF Pairs
  <1>4. s \in 0..N /\ e.seq <= s /\ (m.w \notin MetaWrites => m.seq <= s)
    BY <1>1, <1>2 DEF Raised
  <1>5. d = [e EXCEPT !.opId = o, !.data = c, !.seq = s]
    BY DEF Applied
  <1>6. c \in SUBSET Pairs(N) /\ o \in 0..N
    BY <1>1, <1>2, <1>3
  <1>7. ASSUME NEW x \in Blobs(c) PROVE x[2] <= s
    <2>0. x \in c /\ x[1] \notin MetaWrites
      BY DEF Blobs
    <2>1. CASE x = p
      BY <1>3, <1>4, <2>0, <2>1
    <2>2. CASE x \in e.data
      <3>1. x[2] \in 1..N /\ x[2] <= e.seq
        BY <1>2, <2>0, <2>2 DEF Pairs, Covered, Blobs
      <3> QED BY <1>2, <1>4, <3>1
    <2> QED BY <2>0, <2>1, <2>2
  <1> HIDE DEF o, c, s, d
  <1>8. d \in Dm(N) /\ d.version = e.version /\ d.data = c /\ d.seq = s
    BY <1>4, <1>5, <1>6 DEF Dm
  <1>9. Covered(d)
    BY <1>7, <1>8 DEF Covered
  <1> QED BY <1>8, <1>9 DEF d

(* A step of r that keeps its version keeps the invariant. *)
LEMMA CoveredFrame ==
    ASSUME IInv, NEW r \in Replicas, UNCHANGED handleVars, up' \subseteq Replicas,
           toDm' \in [Replicas -> Seq(ToDm(N))],
           replies' \in [Replicas -> Seq(Reply(N))], NewReplies(r),
           adds' \in [Replicas -> Seq(Add(N))], NewAdds(r),
           NEW d \in Dm(N), d.version = dm[r].version, Covered(d), dm' = [dm EXCEPT ![r] = d],
           \A s \in Replicas \ {r} : replies'[s] = replies[s] /\ adds'[s] = adds[s]
    PROVE  IInv'
  <1>1. d.version \in {dm[r].version, dm[r].version + 1} /\ \A x \in Blobs(d.data) : x[2] <= d.seq
    BY DEF Covered
  <1> QED BY <1>1, ReplicaFrame

(* The write handlers: applied, buffered or refused *)
LEMMA WriteSteps ==
    ASSUME IInv, NEW r \in Replicas, UNCHANGED handleVars,
           ApplyWrite(r) \/ BufferWrite(r) \/ RejectWrite(r)
    PROVE  IInv'
  <1> DEFINE m == Head(toDm[r])
             e == dm[r]
  <1>1. /\ toDm[r] # <<>> /\ m.type = "write" /\ toDm' = Consumed(r) /\ UNCHANGED <<up, adds>>
        /\ \E ok \in BOOLEAN : AnswerWrite(r, m, ok)
    BY DEF ApplyWrite, BufferWrite, RejectWrite, Receive
  <1>2. m \in ToDm(N) /\ toDm' \in [Replicas -> Seq(ToDm(N))]
    BY <1>1, Consumes
  <1>3. N \in Nat /\ up' \subseteq Replicas
    BY <1>1, ReplicaTypes
  <1>4. e \in Dm(N) /\ dm \in [Replicas -> Dm(N)] /\ Covered(e)
    BY ReplicaTypes DEF Covered
  <1>5. m \in WriteReq(N)
    BY <1>1, <1>2, <1>3, Requests
  <1>6. /\ replies' \in [Replicas -> Seq(Reply(N))] /\ NewReplies(r)
        /\ \A s \in Replicas \ {r} : replies'[s] = replies[s]
    <2> HIDE DEF m
    <2> QED BY <1>1, <1>5, AnswersWrite
  <1>7. \E d \in Dm(N) : dm' = [dm EXCEPT ![r] = d] /\ d.version = dm[r].version /\ Covered(d)
    <2>1. CASE ApplyWrite(r)
      <3>1. dm' = [dm EXCEPT ![r] = Applied(e, m)]
        BY <1>4, <2>1 DEF ApplyWrite
      <3> HIDE DEF m
      <3> QED BY <1>3, <1>4, <1>5, <3>1, AppliedCovered
    <2>2. CASE BufferWrite(r)
      <3> DEFINE b == Append(e.buf, m)
                 d == [e EXCEPT !.buf = b]
      <3>1. dm' = [dm EXCEPT ![r] = d]
        BY <1>4, <2>2 DEF BufferWrite
      <3> HIDE DEF e, m
      <3>2. e.buf \in Seq(WriteReq(N))
        BY <1>4 DEF Dm
      <3>3. b \in Seq(WriteReq(N))
        BY <1>5, <3>2, PutLast
      <3> HIDE DEF b
      <3>4. d \in Dm(N) /\ d.version = e.version /\ d.data = e.data /\ d.seq = e.seq
        BY <1>4, <3>3 DEF Dm
      <3> QED BY <1>4, <3>1, <3>4 DEF e, Covered
    <2>3. CASE RejectWrite(r)
      <3>1. dm' = [dm EXCEPT ![r] = e]
        BY <1>4, <2>3 DEF RejectWrite
      <3> QED BY <1>4, <3>1
    <2> QED BY <2>1, <2>2, <2>3
  <1> HIDE DEF m, e
  <1> QED BY <1>1, <1>2, <1>3, <1>6, <1>7, SendsNone, CoveredFrame

(* One message of its own: the version it names is the one it has. *)
LEMMA SendsOne ==
    ASSUME IInv, NEW r \in Replicas, NEW t \in {"Offline", "Loading", "Syncing", "Active"},
           NEW op \in 0..N, dm' \in [Replicas -> Dm(N)],
           NEW v, v = dm'[r].version, SendAdds(r, <<AddMsg(t, v, op)>>)
    PROVE  /\ adds' \in [Replicas -> Seq(Add(N))] /\ NewAdds(r)
           /\ \A s \in Replicas \ {r} : adds'[s] = adds[s]
  <1>1. v \in 1..MaxVersion /\ MaxVersion \in Nat
    BY ReplicaTypes DEF Dm
  <1>2. v <= dm'[r].version /\ v \in Version
    BY <1>1 DEF Version
  <1> DEFINE a == AddMsg(t, v, op)
             ms == <<a>>
  <1>3. a \in Add(N) /\ a.version = v
    BY <1>2 DEF AddMsg, Add
  <1> HIDE DEF a
  <1>4. ms \in Seq(Add(N)) /\ \A i \in DOMAIN ms : ms[i] = a
    BY <1>3
  <1>5. SendAdds(r, ms)
    BY DEF a
  <1> HIDE DEF ms
  <1>6. \A i \in DOMAIN ms : ms[i].version <= dm'[r].version
    BY <1>2, <1>3, <1>4
  <1> QED BY <1>4, <1>5, <1>6, Sends

(* complete_(error) *)
LEMMA FailsAndTells ==
    ASSUME IInv, NEW r \in Replicas, UNCHANGED handleVars, InitializerFailed(r),
           toDm' \in [Replicas -> Seq(ToDm(N))], UNCHANGED <<up, replies>>
    PROVE  IInv'
  <1> DEFINE d == Offline(dm[r])
             v == dm[r].version
             o == OPSTARTID
  <1>1. N \in Nat /\ up' \subseteq Replicas /\ dm[r] \in Dm(N) /\ dm \in [Replicas -> Dm(N)]
    BY ReplicaTypes
  <1>2. dm' = [dm EXCEPT ![r] = d] /\ SendAdds(r, <<AddMsg("Offline", v, o)>>)
    BY <1>1 DEF InitializerFailed
  <1>3. Keeps(d, dm[r])
    BY <1>1, OfflineKeeps
  <1>4. o \in 0..N
    BY <1>1 DEF OPSTARTID
  <1> HIDE DEF d, o
  <1>5. dm' \in [Replicas -> Dm(N)] /\ v = dm'[r].version
    BY <1>1, <1>2, <1>3 DEF Keeps
  <1> HIDE DEF v
  <1>6. /\ adds' \in [Replicas -> Seq(Add(N))] /\ NewAdds(r)
        /\ \A s \in Replicas \ {r} : adds'[s] = adds[s]
    BY <1>2, <1>4, <1>5, SendsOne
  <1> QED BY <1>1, <1>2, <1>3, <1>6, AnswersNone, KeepsFrame

(* The steps by which ReplicaInitializer gives up *)
LEMMA FailingSteps ==
    ASSUME IInv, NEW r \in Replicas, UNCHANGED handleVars,
           \/ NoSyncPeer(r) \/ CoordinatorRefused(r) \/ ContactTimeout(r)
           \/ CopyFailed(r) \/ StaticMigrationFailed(r) \/ ReplayAborted(r)
    PROVE  IInv'
  <1>1. InitializerFailed(r) /\ UNCHANGED <<up, replies>>
    BY DEF NoSyncPeer, CoordinatorRefused, ContactTimeout, CopyFailed, StaticMigrationFailed, ReplayAborted
  <1>2. toDm' = toDm \/ (toDm[r] # <<>> /\ toDm' = Consumed(r))
    BY DEF NoSyncPeer, CoordinatorRefused, ContactTimeout, CopyFailed, StaticMigrationFailed,
           ReplayAborted, ReplayOutOfOrder, Receive
  <1>3. toDm' \in [Replicas -> Seq(ToDm(N))]
    BY <1>2, Consumes, ReplicaTypes
  <1> QED BY <1>1, <1>3, FailsAndTells

(* startInitializer *)
LEMMA StartSteps ==
    ASSUME IInv, NEW r \in Replicas, UNCHANGED handleVars, StartInitializer(r) \/ SkipInitializer(r)
    PROVE  IInv'
  <1> DEFINE e == dm[r]
  <1>1. /\ N \in Nat /\ MaxVersion \in Nat /\ up' \subseteq Replicas
        /\ e \in Dm(N) /\ dm \in [Replicas -> Dm(N)] /\ Covered(e)
        /\ toDm' \in [Replicas -> Seq(ToDm(N))] /\ replies' = replies
    BY ReplicaTypes DEF Covered, StartInitializer, SkipInitializer, netVars
  <1>2. CASE StartInitializer(r)
    <2> DEFINE d == [e EXCEPT !.state = "Loading", !.version = @ + 1, !.init = "contact"]
               v == e.version + 1
               o == OPSTARTID
    <2>1. /\ dm' = [dm EXCEPT ![r] = d] /\ SendAdds(r, <<AddMsg("Loading", v, o)>>)
          /\ e.version < MaxVersion
      BY <1>1, <1>2 DEF StartInitializer
    <2>2. o \in 0..N
      BY <1>1 DEF OPSTARTID
    <2> HIDE DEF e, o
    <2>3. e.version \in 1..MaxVersion
      BY <1>1 DEF Dm
    <2>4. v \in 1..MaxVersion
      BY <1>1, <2>1, <2>3
    <2>5. d \in Dm(N) /\ d.version = v /\ d.data = e.data /\ d.seq = e.seq
      BY <1>1, <2>4 DEF Dm
    <2> HIDE DEF d
    <2>6. dm' \in [Replicas -> Dm(N)] /\ v = dm'[r].version
      BY <1>1, <2>1, <2>5
    <2>7. d.version \in {dm[r].version, dm[r].version + 1} /\ \A x \in Blobs(d.data) : x[2] <= d.seq
      BY <1>1, <2>5 DEF e, Covered
    <2> HIDE DEF v
    <2>8. /\ adds' \in [Replicas -> Seq(Add(N))] /\ NewAdds(r)
          /\ \A s \in Replicas \ {r} : adds'[s] = adds[s]
      BY <2>1, <2>2, <2>6, SendsOne
    <2> QED BY <1>1, <2>1, <2>5, <2>7, <2>8, AnswersNone, ReplicaFrame
  <1>3. CASE SkipInitializer(r)
    <2> DEFINE d == [e EXCEPT !.init = "none"]
    <2>1. dm' = [dm EXCEPT ![r] = d] /\ adds' = adds
      BY <1>1, <1>3 DEF SkipInitializer, netVars
    <2> HIDE DEF e
    <2>2. Keeps(d, e)
      BY <1>1 DEF Dm, Keeps
    <2> HIDE DEF d
    <2> QED BY <1>1, <2>1, <2>2, AnswersNone, SendsNone, KeepsFrame DEF e
  <1> QED BY <1>2, <1>3

(* Answers to the initializer *)
LEMMA AnswerSteps ==
    ASSUME IInv, NEW r \in Replicas, UNCHANGED handleVars,
           SyncPrevented(r) \/ ChoosePeers(r) \/ StaleAnswer(r)
    PROVE  IInv'
  <1> DEFINE m == Head(toDm[r])
             e == dm[r]
  <1>1. toDm[r] # <<>> /\ toDm' = Consumed(r) /\ UNCHANGED <<up, replies>>
    BY DEF SyncPrevented, ChoosePeers, StaleAnswer, Receive
  <1>2. m \in ToDm(N) /\ toDm' \in [Replicas -> Seq(ToDm(N))]
    BY <1>1, Consumes
  <1>3. /\ N \in Nat /\ MaxVersion \in Nat /\ up' \subseteq Replicas
        /\ e \in Dm(N) /\ dm \in [Replicas -> Dm(N)]
    BY <1>1, ReplicaTypes
  <1>4. CASE SyncPrevented(r)
    <2> DEFINE d == [e EXCEPT !.state = "Active", !.init = "none"]
               a == AddMsg("Syncing", e.version, e.opId)
               b == AddMsg("Active", e.version, e.opId)
               ms == <<a, b>>
    <2>1. dm' = [dm EXCEPT ![r] = d] /\ SendAdds(r, ms)
      BY <1>3, <1>4 DEF SyncPrevented
    <2> HIDE DEF e, m
    <2>2. Keeps(d, e)
      BY <1>3 DEF Dm, Keeps
    <2>3. e.version \in 1..MaxVersion /\ e.opId \in 0..N
      BY <1>3 DEF Dm
    <2>4. e.version \in Version /\ e.version <= e.version
      BY <1>3, <2>3 DEF Version
    <2>5. a \in Add(N) /\ b \in Add(N) /\ a.version = e.version /\ b.version = e.version
      BY <2>3, <2>4 DEF AddMsg, Add
    <2> HIDE DEF a, b, d
    <2>6. ms \in Seq(Add(N)) /\ \A i \in DOMAIN ms : ms[i] = a \/ ms[i] = b
      BY <2>5
    <2> HIDE DEF ms
    <2>7. dm'[r] = d /\ d.version = e.version
      BY <1>3, <2>1, <2>2 DEF Keeps
    <2>8. \A i \in DOMAIN ms : ms[i].version <= dm'[r].version
      BY <2>4, <2>5, <2>6, <2>7
    <2>9. /\ adds' \in [Replicas -> Seq(Add(N))] /\ NewAdds(r)
          /\ \A s \in Replicas \ {r} : adds'[s] = adds[s]
      BY <2>1, <2>6, <2>8, Sends
    <2> QED BY <1>1, <1>2, <1>3, <2>1, <2>2, <2>9, AnswersNone, KeepsFrame DEF e
  <1>5. CASE ChoosePeers(r)
    <2> DEFINE f == m.func
               d == [e EXCEPT !.init = "copy", !.peers = f]
    <2>1. dm' = [dm EXCEPT ![r] = d] /\ adds' = adds /\ m.type = "joined"
      BY <1>3, <1>5 DEF ChoosePeers, Receive
    <2>2. f \subseteq Replicas
      BY <1>2, <1>3, <2>1, Requests
    <2> HIDE DEF e, m, f
    <2>3. Keeps(d, e)
      BY <1>3, <2>2 DEF Dm, Keeps
    <2> HIDE DEF d
    <2> QED BY <1>1, <1>2, <1>3, <2>1, <2>3, AnswersNone, SendsNone, KeepsFrame DEF e
  <1>6. CASE StaleAnswer(r)
    <2>1. dm' = [dm EXCEPT ![r] = e] /\ adds' = adds /\ Keeps(e, dm[r])
      BY <1>3, <1>6 DEF StaleAnswer, Keeps
    <2> HIDE DEF e, m
    <2> QED BY <1>1, <1>2, <1>3, <2>1, AnswersNone, SendsNone, KeepsFrame
  <1> QED BY <1>4, <1>5, <1>6

(* copyActiveStateFromPeer_ and the end of the replay *)
LEMMA TellingSteps ==
    ASSUME IInv, NEW r \in Replicas, UNCHANGED handleVars, CopyActiveState(r) \/ ReplayComplete(r)
    PROVE  IInv'
  <1> DEFINE e == dm[r]
  <1>1. /\ N \in Nat /\ up' \subseteq Replicas /\ e \in Dm(N) /\ dm \in [Replicas -> Dm(N)]
        /\ toDm' \in [Replicas -> Seq(ToDm(N))] /\ replies' = replies
    BY ReplicaTypes DEF CopyActiveState, ReplayComplete
  <1>2. e.opId \in 0..N /\ e.peers \subseteq Replicas
    BY <1>1 DEF Dm
  <1>3. \E d, t, o : /\ Keeps(d, e) /\ dm' = [dm EXCEPT ![r] = d] /\ o \in 0..N
                     /\ t \in {"Offline", "Loading", "Syncing", "Active"}
                     /\ SendAdds(r, <<AddMsg(t, e.version, o)>>)
    <2>1. CASE CopyActiveState(r)
      <3>1. PICK p \in e.peers \cap up :
               /\ dm' = [dm EXCEPT ![r].state = "Syncing", ![r].init = "migrate",
                                   ![r].opId = dm[p].opId, ![r].peer = p]
               /\ SendAdds(r, <<AddMsg("Syncing", dm[r].version, dm[p].opId)>>)
        BY <2>1 DEF CopyActiveState
      <3> DEFINE o == dm[p].opId
                 d == [e EXCEPT !.state = "Syncing", !.init = "migrate", !.opId = o, !.peer = p]
      <3>2. p \in Replicas
        BY <1>2
      <3>3. dm[p] \in Dm(N)
        BY <1>1, <3>2
      <3>4. o \in 0..N
        BY <3>3 DEF Dm
      <3>5. dm' = [dm EXCEPT ![r] = d]
        BY <1>1, <3>1
      <3>6. SendAdds(r, <<AddMsg("Syncing", e.version, o)>>)
        BY <3>1
      <3> HIDE DEF e, o
      <3>7. Keeps(d, e)
        BY <1>1, <3>2, <3>4 DEF Dm, Keeps
      <3> QED BY <3>4, <3>5, <3>6, <3>7
    <2>2. CASE ReplayComplete(r)
      <3> DEFINE d == [e EXCEPT !.state = "Active", !.init = "none"]
      <3>1. dm' = [dm EXCEPT ![r] = d] /\ SendAdds(r, <<AddMsg("Active", e.version, e.opId)>>)
        BY <1>1, <2>2 DEF ReplayComplete
      <3> HIDE DEF e
      <3>2. Keeps(d, e)
        BY <1>1 DEF Dm, Keeps
      <3> QED BY <1>2, <3>1, <3>2
    <2> QED BY <2>1, <2>2
  <1>4. PICK d, t, o : /\ Keeps(d, e) /\ dm' = [dm EXCEPT ![r] = d] /\ o \in 0..N
                       /\ t \in {"Offline", "Loading", "Syncing", "Active"}
                       /\ SendAdds(r, <<AddMsg(t, e.version, o)>>)
    BY <1>3
  <1>5. dm' \in [Replicas -> Dm(N)] /\ e.version = dm'[r].version
    BY <1>1, <1>4 DEF Keeps
  <1>6. /\ adds' \in [Replicas -> Seq(Add(N))] /\ NewAdds(r)
        /\ \A s \in Replicas \ {r} : adds'[s] = adds[s]
    BY <1>4, <1>5, SendsOne
  <1> QED BY <1>1, <1>4, <1>6, AnswersNone, KeepsFrame

(* A nonempty set of natural numbers has a least element. *)
LEMMA Least ==
    ASSUME NEW T, T \subseteq Nat, T # {}
    PROVE  \E x \in T : \A y \in T : x <= y
  <1> DEFINE R == OpToRel(<, Nat)
  <1>1. IsWellFoundedOn(R, Nat)
    BY NatLessThanWellFounded
  <1>2. \A y, x \in Nat : y < x => <<y, x>> \in R
    BY DEF OpToRel
  <1> HIDE DEF R
  <1>3. PICK x \in T : \A y \in T : ~(<<y, x>> \in R)
    BY <1>1, WFMin
  <1>4. \A y \in T : ~(y < x) /\ y \in Nat /\ x \in Nat
    BY <1>2, <1>3
  <1> QED BY <1>3, <1>4

(* What DataMgr::addVolume reads back is the highest id of the catalogue. *)
LEMMA LatestIsHighest ==
    ASSUME NEW n \in Nat, NEW data \in SUBSET Pairs(n)
    PROVE  /\ LatestSequenceId(data) \in 0..n
           /\ \A x \in data : x[2] <= LatestSequenceId(data)
  <1> DEFINE S == {0} \cup {x[2] : x \in data}
             T == {n - k : k \in S}
  <1>1. S \subseteq 0..n
    BY DEF Pairs
  <1>2. 0 \in S
    OBVIOUS
  <1>3. \A x \in data : x[2] \in S
    OBVIOUS
  <1> HIDE DEF S
  <1>4. T \subseteq Nat /\ n - 0 \in T
    BY <1>1, <1>2
  <1>5. \A k \in S : n - k \in T
    OBVIOUS
  <1>6. \A z \in T : \E k \in S : z = n - k
    OBVIOUS
  <1> HIDE DEF T
  <1>7. PICK z \in T : \A y \in T : z <= y
    BY <1>4, Least
  <1>8. PICK k \in S : z = n - k
    BY <1>6, <1>7
  <1>9. \A j \in S : j <= k
    BY <1>1, <1>5, <1>7, <1>8
  <1>10. \E j \in S : \A x \in data : x[2] <= j
    BY <1>3, <1>9
  <1>11. LatestSequenceId(data) = CHOOSE j \in S : \A x \in data : x[2] <= j
    BY DEF LatestSequenceId, S
  <1>12. LatestSequenceId(data) \in S /\ \A x \in data : x[2] <= LatestSequenceId(data)
    BY <1>10, <1>11
  <1> QED BY <1>1, <1>12

(* doStaticMigrationWithPeer_ and the replay of the buffer *)
LEMMA CatalogueSteps ==
    ASSUME IInv, NEW r \in Replicas, UNCHANGED handleVars, StaticMigration(r) \/ ReplayOp(r)
    PROVE  IInv'
  <1> DEFINE e == dm[r]
  <1>1. /\ N \in Nat /\ up' \subseteq Replicas /\ e \in Dm(N) /\ dm \in [Replicas -> Dm(N)] /\ Covered(e)
        /\ toDm' \in [Replicas -> Seq(ToDm(N))] /\ replies' = replies /\ adds' = adds
    BY ReplicaTypes DEF Covered, StaticMigration, ReplayOp, netVars
  <1>2. \E d \in Dm(N) : dm' = [dm EXCEPT ![r] = d] /\ d.version = e.version /\ Covered(d)
    <2>1. CASE StaticMigration(r)
      <3> DEFINE p == dm[e.peer]
                 o == p.opId
                 c == p.data
                 h == LatestSequenceId(Blobs(c))
                 s == Raised(e.seq, h)
                 d == [e EXCEPT !.init = "replay", !.data = c, !.opId = o, !.seq = s]
      <3>1. dm' = [dm EXCEPT ![r] = d]
        BY <1>1, <2>1 DEF StaticMigration
      <3>2. e.peer \in Replicas /\ e.seq \in 0..N
        BY <1>1 DEF Dm
      <3>3. p \in Dm(N)
        BY <3>2, ReplicaTypes
      <3> HIDE DEF p, e
      <3>4. o \in 0..N /\ c \in SUBSET Pairs(N) /\ Blobs(c) \in SUBSET Pairs(N)
        BY <3>3 DEF Dm, Blobs
      <3>5. h \in 0..N /\ \A x \in Blobs(c) : x[2] <= h
        BY <1>1, <3>4, LatestIsHighest
      <3> HIDE DEF h
      <3>6. s \in 0..N /\ h <= s
        BY <1>1, <3>2, <3>5 DEF Raised
      <3>9. ASSUME NEW x \in Blobs(c) PROVE x[2] <= s
        <4>1. x[2] \in 1..N /\ x[2] <= h
          BY <3>4, <3>5 DEF Pairs
        <4> QED BY <1>1, <3>5, <3>6, <4>1
      <3> HIDE DEF c, o, s
      <3>7. d \in Dm(N) /\ d.version = e.version /\ d.data = c /\ d.seq = s
        BY <1>1, <3>4, <3>6 DEF Dm
      <3> HIDE DEF d
      <3>8. Covered(d)
        BY <3>7, <3>9 DEF Covered
      <3> QED BY <3>1, <3>7, <3>8
    <2>2. CASE ReplayOp(r)
      <3> DEFINE m == Head(e.buf)
                 f == IF m.op <= e.opId THEN e ELSE Applied(e, m)
                 d == [f EXCEPT !.buf = Tail(@)]
      <3>1. dm' = [dm EXCEPT ![r] = d] /\ e.buf # <<>>
        BY <1>1, <2>2 DEF ReplayOp
      <3> HIDE DEF e
      <3>2. e.buf \in Seq(WriteReq(N))
        BY <1>1 DEF Dm
      <3>3. m \in WriteReq(N) /\ Tail(e.buf) \in Seq(WriteReq(N))
        BY <3>1, <3>2, TakeHead
      <3>4. Applied(e, m) \in Dm(N) /\ Applied(e, m).version = e.version /\ Covered(Applied(e, m))
        <4> HIDE DEF m
        <4> QED BY <1>1, <3>3, AppliedCovered
      <3>5. Applied(e, m).buf = e.buf
        <4> HIDE DEF m
        <4> QED BY <1>1 DEF Applied, Dm
      <3> DEFINE b == Tail(e.buf)
      <3>6. f \in Dm(N) /\ f.version = e.version /\ Covered(f) /\ f.buf = e.buf
        <4> HIDE DEF m
        <4> QED BY <1>1, <3>4, <3>5
      <3> HIDE DEF f, m
      <3>7. d = [f EXCEPT !.buf = b] /\ b \in Seq(WriteReq(N))
        BY <3>3, <3>6 DEF Dm
      <3> HIDE DEF d, b
      <3>8. d \in Dm(N) /\ d.version = f.version /\ d.data = f.data /\ d.seq = f.seq
        BY <3>6, <3>7 DEF Dm
      <3>9. Covered(d)
        BY <3>6, <3>8 DEF Covered
      <3> QED BY <3>1, <3>6, <3>8, <3>9
    <2> QED BY <2>1, <2>2
  <1> HIDE DEF e
  <1> QED BY <1>1, <1>2, AnswersNone, SendsNone, CoveredFrame DEF e

(* The data manager dies and comes back. *)
LEMMA CrashSteps ==
    ASSUME IInv, NEW r \in Replicas, UNCHANGED handleVars, DmCrash(r) \/ DmAsserts(r) \/ DmRestart(r)
    PROVE  IInv'
  <1> DEFINE e == dm[r]
  <1>1. /\ N \in Nat /\ up \subseteq Replicas /\ e \in Dm(N) /\ dm \in [Replicas -> Dm(N)]
        /\ replies' = replies /\ adds' = adds /\ toDm \in [Replicas -> Seq(ToDm(N))]
    BY ReplicaTypes DEF DmCrash, DmAsserts, DmGone, DmRestart
  <1>2. up' \subseteq Replicas
    BY <1>1 DEF DmCrash, DmAsserts, DmGone, DmRestart
  <1>3. toDm' \in [Replicas -> Seq(ToDm(N))]
    <2>1. toDm' = toDm \/ toDm' = [toDm EXCEPT ![r] = <<>>]
      BY DEF DmCrash, DmAsserts, DmGone, DmRestart
    <2>2. <<>> \in Seq(ToDm(N))
      OBVIOUS
    <2> QED BY <1>1, <2>1, <2>2
  <1>4. \E d \in Dm(N) : dm' = [dm EXCEPT ![r] = d] /\ d.version = e.version /\ Covered(d)
    <2>1. CASE DmCrash(r) \/ DmAsserts(r)
      <3>1. dm' = [dm EXCEPT ![r] = Offline(e)]
        BY <1>1, <2>1 DEF DmCrash, DmAsserts, DmGone
      <3>2. Keeps(Offline(e), e) /\ Covered(e)
        BY <1>1, OfflineKeeps, ReplicaTypes DEF Covered
      <3> HIDE DEF e
      <3> QED BY <3>1, <3>2 DEF Keeps, Covered
    <2>2. CASE DmRestart(r)
      <3> DEFINE s == LatestSequenceId(e.data)
                 d == [e EXCEPT !.coordSet = FALSE, !.seq = s]
      <3>1. dm' = [dm EXCEPT ![r] = d]
        BY <1>1, <2>2 DEF DmRestart
      <3> HIDE DEF e
      <3>2. e.data \in SUBSET Pairs(N)
        BY <1>1 DEF Dm
      <3>3. s \in 0..N /\ \A x \in e.data : x[2] <= s
        BY <1>1, <3>2, LatestIsHighest
      <3> HIDE DEF s
      <3>4. d \in Dm(N) /\ d.version = e.version /\ d.data = e.data /\ d.seq = s
        BY <1>1, <3>3 DEF Dm
      <3> HIDE DEF d
      <3> QED BY <3>1, <3>3, <3>4 DEF Covered, Blobs
    <2> QED BY <2>1, <2>2
  <1> HIDE DEF e
  <1> QED BY <1>1, <1>2, <1>3, <1>4, AnswersNone, SendsNone, CoveredFrame DEF e

(* Every step of a replica keeps the invariant. *)
LEMMA ReplicaKeeps ==
    ASSUME IInv, NEW r \in Replicas, Replica(r)
    PROVE  IInv'
  <1>1. UNCHANGED handleVars /\ ReplicaStep(r)
    BY DEF Replica
  <1>2. CASE OpenWhileSyncing(r) \/ HandleOpen(r)
    BY <1>1, <1>2, OpenSteps
  <1>3. CASE GroupUpdateActivates(r) \/ GroupUpdateSyncs(r) \/ GroupUpdateIgnored(r)
    BY <1>1, <1>3, GroupSteps
  <1>4. CASE ApplyWrite(r) \/ BufferWrite(r) \/ RejectWrite(r)
    BY <1>1, <1>4, WriteSteps
  <1>5. CASE StartInitializer(r) \/ SkipInitializer(r)
    BY <1>1, <1>5, StartSteps
  <1>6. CASE SyncPrevented(r) \/ ChoosePeers(r) \/ StaleAnswer(r)
    BY <1>1, <1>6, AnswerSteps
  <1>7. CASE \/ NoSyncPeer(r) \/ CoordinatorRefused(r) \/ ContactTimeout(r)
             \/ CopyFailed(r) \/ StaticMigrationFailed(r) \/ ReplayAborted(r)
    BY <1>1, <1>7, FailingSteps
  <1>8. CASE CopyActiveState(r) \/ ReplayComplete(r)
    BY <1>1, <1>8, TellingSteps
  <1>9. CASE StaticMigration(r) \/ ReplayOp(r)
    BY <1>1, <1>9, CatalogueSteps
  <1>10. CASE DmCrash(r) \/ DmAsserts(r) \/ DmRestart(r)
    BY <1>1, <1>10, CrashSteps
  <1> QED BY <1>1, <1>2, <1>3, <1>4, <1>5, <1>6, <1>7, <1>8, <1>9, <1>10 DEF ReplicaStep

-----------------------------------------------------------------------------
(* Steps of the coordinator *)

(* What is known of the handle when it takes a step *)
LEMMA HandleKnown ==
    ASSUME IInv
    PROVE  /\ N \in Nat /\ MaxVersion \in Nat /\ MaxWrites \in Nat /\ N <= MaxWrites
           /\ up \subseteq Replicas
           /\ toDm \in [Replicas -> Seq(ToDm(N))]
           /\ replies \in [Replicas -> Seq(Reply(N))]
           /\ adds \in [Replicas -> Seq(Add(N))]
           /\ prepared \in [Replicas -> OpenAnswer(N) \cup {NoAnswer}]
           /\ handle \in [Replicas -> Handle(N)]
           /\ opSeqNo \in 0..N /\ commitNo \in 0..N /\ opens \in Nat
           /\ writeOpsBuffer \in Seq(WriteReq(N)) /\ reqs \in Seq(Req(N)) /\ acked \subseteq 1..N
           /\ dm \in [Replicas -> Dm(N)]
           /\ \A r \in Replicas : Told(r)
  BY GroupAssumption DEF IInv, NetTypes, HandleTypes, DmTypes

(* A message to some replicas *)
LEMMA SendsTo ==
    ASSUME IInv, NEW rs, NEW m \in ToDm(N)
    PROVE  SendTo(toDm, rs, m) \in [Replicas -> Seq(ToDm(N))]
  <1>1. toDm \in [Replicas -> Seq(ToDm(N))]
    BY HandleKnown
  <1>2. \A r \in Replicas : toDm[r] \in Seq(ToDm(N)) /\ Append(toDm[r], m) \in Seq(ToDm(N))
    BY <1>1, PutLast
  <1> QED BY <1>2 DEF SendTo

(* A message of replica r is taken off *)
LEMMA TakesReply ==
    ASSUME IInv, NEW r \in Replicas, replies[r] # <<>>, replies' = [replies EXCEPT ![r] = Tail(@)]
    PROVE  /\ Head(replies[r]) \in Reply(N) /\ replies' \in [Replicas -> Seq(Reply(N))]
           /\ \A s \in Replicas : From(replies'[s], replies[s])
           /\ 1 \in DOMAIN replies[r] /\ Head(replies[r]) = replies[r][1]
  <1> DEFINE t == Tail(replies[r])
  <1>1. replies \in [Replicas -> Seq(Reply(N))] /\ replies[r] \in Seq(Reply(N))
    BY HandleKnown
  <1>2. /\ Head(replies[r]) \in Reply(N) /\ t \in Seq(Reply(N)) /\ From(t, replies[r])
        /\ 1 \in DOMAIN replies[r] /\ Head(replies[r]) = replies[r][1]
    BY <1>1, TakeHead
  <1>3. replies' = [replies EXCEPT ![r] = t]
    BY <1>1
  <1> HIDE DEF t
  <1>4. \A s \in Replicas : From(replies[s], replies[s])
    BY DEF From
  <1> QED BY <1>1, <1>2, <1>3, <1>4

(* and so is one it sent of its own. *)
LEMMA TakesAdd ==
    ASSUME IInv, NEW r \in Replicas, adds[r] # <<>>, adds' = [adds EXCEPT ![r] = Tail(@)]
    PROVE  /\ Head(adds[r]) \in Add(N) /\ adds' \in [Replicas -> Seq(Add(N))]
           /\ \A s \in Replicas : From(adds'[s], adds[s])
           /\ Head(adds[r]).version <= dm[r].version
  <1> DEFINE t == Tail(adds[r])
  <1>1. adds \in [Replicas -> Seq(Add(N))] /\ adds[r] \in Seq(Add(N)) /\ Told(r)
    BY HandleKnown
  <1>2. /\ Head(adds[r]) \in Add(N) /\ t \in Seq(Add(N)) /\ From(t, adds[r])
        /\ 1 \in DOMAIN adds[r] /\ Head(adds[r]) = adds[r][1]
    BY <1>1, TakeHead
  <1>3. adds' = [adds EXCEPT ![r] = t]
    BY <1>1
  <1> HIDE DEF t
  <1>4. \A s \in Replicas : From(adds[s], adds[s])
    BY DEF From
  <1>5. Head(adds[r]).version <= dm[r].version
    BY <1>1, <1>2 DEF Told
  <1> QED BY <1>1, <1>2, <1>3, <1>4, <1>5

(* What the coordinator knows of versions it still knows, when it takes    *)
(* nothing but what it was told.                                           *)
LEMMA ToldKept ==
    ASSUME IInv, dm' = dm,
           \A r \in Replicas :
              /\ From(replies'[r], replies[r]) /\ From(adds'[r], adds[r])
              /\ handle'[r].version <= dm[r].version
              /\ prepared'[r].type = "opened" => prepared'[r].version <= dm[r].version
    PROVE  \A r \in Replicas : Told(r)'
  <1> TAKE r \in Replicas
  <1>1. Told(r)
    BY HandleKnown
  <1>2. \A i \in DOMAIN adds'[r] : adds'[r][i].version <= dm[r].version
    BY <1>1 DEF Told, From
  <1>3. \A i \in DOMAIN replies'[r] : replies'[r][i].type = "opened" => replies'[r][i].version <= dm[r].version
    BY <1>1 DEF Told, From
  <1> QED BY <1>2, <1>3 DEF Told

(* A step that issues no write keeps the invariant when it keeps the types *)
(* and the versions.                                                       *)
LEMMA HandleFrame ==
    ASSUME IInv, dm' = dm, N' = N, up' = up,
           toDm' \in [Replicas -> Seq(ToDm(N))],
           replies' \in [Replicas -> Seq(Reply(N))], adds' \in [Replicas -> Seq(Add(N))],
           HandleTypes', \A r \in Replicas : Told(r)'
    PROVE  IInv'
  <1>1. NetTypes' /\ DmTypes'
    BY HandleKnown DEF NetTypes, DmTypes
  <1>2. CatalogueCovered'
    BY DEF IInv, CatalogueCovered
  <1> QED BY <1>1, <1>2 DEF IInv

(* No answer is none of an open, and new handles know no version. *)
LEMMA Fresh ==
    ASSUME IInv
    PROVE  /\ NoAnswers \in [Replicas -> OpenAnswer(N) \cup {NoAnswer}]
           /\ \A r \in Replicas : NoAnswers[r].type # "opened"
           /\ [r \in Replicas |-> NewHandle] \in [Replicas -> Handle(N)]
           /\ \A r \in Replicas : NewHandle.version <= dm[r].version
           /\ \A r \in Replicas : handle[r].version <= dm[r].version
           /\ \A r \in Replicas : prepared[r].type = "opened" => prepared[r].version <= dm[r].version
           /\ \A r \in Replicas : From(replies[r], replies[r]) /\ From(adds[r], adds[r])
  <1>1. /\ NoAnswers \in [Replicas -> OpenAnswer(N) \cup {NoAnswer}]
        /\ \A r \in Replicas : NoAnswers[r].type # "opened"
    BY DEF NoAnswers, NoAnswer
  <1>2. NewHandle \in Handle(N) /\ NewHandle.version = 0
    BY HandleKnown DEF NewHandle, Handle, Version, VERSION_INVALID, OPSTARTID
  <1>3. ASSUME NEW r \in Replicas PROVE 0 <= dm[r].version
    <2>1. dm[r] \in Dm(N) /\ MaxVersion \in Nat
      BY HandleKnown
    <2>2. dm[r].version \in 1..MaxVersion
      BY <2>1 DEF Dm
    <2> QED BY <2>1, <2>2
  <1>4. \A r \in Replicas : /\ handle[r].version <= dm[r].version
                            /\ prepared[r].type = "opened" => prepared[r].version <= dm[r].version
    BY HandleKnown DEF Told
  <1>5. \A r \in Replicas : From(replies[r], replies[r]) /\ From(adds[r], adds[r])
    BY DEF From
  <1> QED BY <1>1, <1>2, <1>3, <1>4, <1>5

(* open: the answers of the replicas are asked for and taken. *)
LEMMA PrepareSteps ==
    ASSUME IInv, dm' = dm,
           OpenVolume \/ \E r \in Replicas : HandleOpenAnswer(r) \/ OpenTimeout(r)
    PROVE  IInv'
  <1>1. CASE OpenVolume
    <2> DEFINE m == OpenMsg(opens + 1)
    <2>1. /\ gstate' = "Loading" /\ opening' = "prepare" /\ opens' = opens + 1
          /\ toDm' = SendTo(toDm, Replicas, m)
          /\ UNCHANGED <<up, replies, adds, prepared, handle, opSeqNo, commitNo, buffering,
                         writeOpsBuffer, reqs, acked>>
      BY <1>1 DEF OpenVolume
    <2>2. m \in ToDm(N) /\ opens' \in Nat
      BY <2>1, HandleKnown DEF OpenMsg, ToDm
    <2> HIDE DEF m
    <2>3. toDm' \in [Replicas -> Seq(ToDm(N))]
      BY <2>1, <2>2, SendsTo
    <2>4. N' = N
      BY <2>1 DEF N
    <2>5. HandleTypes'
      BY <2>1, <2>2, <2>4 DEF IInv, HandleTypes
    <2>6. \A r \in Replicas : Told(r)'
      BY <2>1, Fresh, ToldKept
    <2> QED BY <2>1, <2>3, <2>4, <2>5, <2>6, HandleKnown, HandleFrame
  <1>2. ASSUME NEW r \in Replicas, HandleOpenAnswer(r) PROVE IInv'
    <2> DEFINE m == Head(replies[r])
    <2>1. /\ replies[r] # <<>> /\ IsOpenAnswer(m) /\ replies' = [replies EXCEPT ![r] = Tail(@)]
          /\ prepared' = prepared \/ prepared' = [prepared EXCEPT ![r] = m]
          /\ UNCHANGED <<up, toDm, adds, gstate, opening, handle, opSeqNo, commitNo, buffering,
                         writeOpsBuffer, reqs, acked, opens>>
      BY <1>2 DEF HandleOpenAnswer, Answer
    <2>2. /\ m \in Reply(N) /\ replies' \in [Replicas -> Seq(Reply(N))]
          /\ \A s \in Replicas : From(replies'[s], replies[s])
          /\ 1 \in DOMAIN replies[r] /\ m = replies[r][1]
      BY <2>1, TakesReply
    <2>3. m \in OpenAnswer(N)
      BY <2>1, <2>2, HandleKnown, Replies
    <2>4. m.type = "opened" => m.version <= dm[r].version
      BY <2>2, HandleKnown DEF Told
    <2> HIDE DEF m
    <2>5. N' = N
      BY <2>1 DEF N
    <2>6. /\ prepared' \in [Replicas -> OpenAnswer(N) \cup {NoAnswer}]
          /\ \A s \in Replicas : prepared'[s].type = "opened" => prepared'[s].version <= dm[s].version
      BY <2>1, <2>3, <2>4, HandleKnown, Fresh
    <2>7. HandleTypes'
      BY <2>1, <2>5, <2>6 DEF IInv, HandleTypes
    <2>8. \A s \in Replicas : Told(s)'
      BY <2>1, <2>2, <2>6, Fresh, ToldKept
    <2> QED BY <2>1, <2>2, <2>5, <2>7, <2>8, HandleKnown, HandleFrame
  <1>3. ASSUME NEW r \in Replicas, OpenTimeout(r) PROVE IInv'
    <2> DEFINE m == OpenRefused(opens)
    <2>1. /\ prepared' = [prepared EXCEPT ![r] = m]
          /\ UNCHANGED <<up, toDm, replies, adds, gstate, opening, handle, opSeqNo, commitNo, buffering,
                         writeOpsBuffer, reqs, acked, opens>>
      BY <1>3 DEF OpenTimeout, Answer
    <2>2. m \in OpenAnswer(N) /\ m.type # "opened"
      BY HandleKnown DEF OpenRefused, OpenAnswer
    <2> HIDE DEF m
    <2>3. N' = N
      BY <2>1 DEF N
    <2>4. /\ prepared' \in [Replicas -> OpenAnswer(N) \cup {NoAnswer}]
          /\ \A s \in Replicas : prepared'[s].type = "opened" => prepared'[s].version <= dm[s].version
      BY <2>1, <2>2, HandleKnown, Fresh
    <2>5. HandleTypes'
      BY <2>1, <2>3, <2>4 DEF IInv, HandleTypes
    <2>6. \A s \in Replicas : Told(s)'
      BY <2>1, <2>4, Fresh, ToldKept
    <2> QED BY <2>1, <2>3, <2>5, <2>6, HandleKnown, HandleFrame
  <1> QED BY <1>1, <1>2, <1>3

(* An id of a quorum is one a replica answered. *)
LEMMA QuorumIdTyped ==
    ASSUME IInv, NEW s \in QuorumSeqIds
    PROVE  s \in 0..N
  <1>1. s \in SeqIds
    BY DEF QuorumSeqIds
  <1>2. PICK r \in Opened : s = prepared[r].seq
    BY <1>1 DEF SeqIds
  <1>3. prepared[r] \in OpenAnswer(N) \cup {NoAnswer} /\ prepared[r].type = "opened"
    BY <1>2, HandleKnown DEF Opened
  <1> QED BY <1>2, <1>3 DEF OpenAnswer, NoAnswer

(* determineFunctaionalReplicas_ *)
LEMMA DecideSteps ==
    ASSUME IInv, dm' = dm, OpenDecide
    PROVE  IInv'
  <1>1. PICK s \in QuorumSeqIds :
           /\ handle' = [r \in Replicas |->
                           IF r \in WithSeq(s)
                           THEN [state |-> "Active", version |-> prepared[r].version, applied |-> opSeqNo]
                           ELSE handle[r]]
           /\ commitNo' = s
           /\ Broadcast(opSeqNo, s, WithSeq(s))
    BY DEF OpenDecide
  <1>2. s \in 0..N
    BY QuorumIdTyped
  <1>3. /\ opening' = "broadcast" /\ prepared' = NoAnswers
        /\ UNCHANGED <<up, replies, adds, gstate, opSeqNo, buffering, writeOpsBuffer, reqs, acked, opens>>
    BY DEF OpenDecide
  <1>4. N' = N
    BY <1>3 DEF N
  <1>5. toDm' \in [Replicas -> Seq(ToDm(N))]
    <2> DEFINE m == GroupMsg(opSeqNo, s, WithSeq(s))
    <2>1. WithSeq(s) \subseteq Replicas
      BY DEF WithSeq, Opened
    <2>2. m \in ToDm(N)
      BY <1>2, <2>1, HandleKnown DEF GroupMsg, ToDm
    <2>3. toDm' = SendTo(toDm, Replicas, m)
      BY <1>1 DEF Broadcast
    <2> HIDE DEF m
    <2> QED BY <2>2, <2>3, SendsTo
  <1>6. ASSUME NEW r \in Replicas
        PROVE  handle'[r] \in Handle(N) /\ handle'[r].version <= dm[r].version
    <2>1. CASE r \in WithSeq(s)
      <3>1. prepared[r] \in OpenAnswer(N) \cup {NoAnswer} /\ prepared[r].type = "opened"
        BY <2>1, HandleKnown DEF WithSeq, Opened
      <3>2. prepared[r].version \in Version
        BY <3>1 DEF OpenAnswer, NoAnswer
      <3>3. prepared[r].version <= dm[r].version
        BY <3>1, Fresh
      <3>4. handle'[r] = [state |-> "Active", version |-> prepared[r].version, applied |-> opSeqNo]
        BY <1>1, <2>1
      <3>5. handle'[r] \in Handle(N)
        BY <3>2, <3>4, HandleKnown DEF Handle
      <3> QED BY <3>3, <3>4, <3>5
    <2>2. CASE r \notin WithSeq(s)
      <3>1. handle'[r] = handle[r]
        BY <1>1, <2>2
      <3> QED BY <3>1, HandleKnown, Fresh
    <2> QED BY <2>1, <2>2
  <1>7. handle' \in [Replicas -> Handle(N)]
    <2>1. /\ handle' = [r \in Replicas |-> handle'[r]]
      BY <1>1
    <2> QED BY <1>6, <2>1
  <1>8. HandleTypes'
    BY <1>1, <1>2, <1>3, <1>4, <1>7, Fresh DEF IInv, HandleTypes
  <1>9. \A r \in Replicas : Told(r)'
    BY <1>3, <1>6, Fresh, ToldKept
  <1> QED BY <1>3, <1>4, <1>5, <1>8, <1>9, HandleKnown, HandleFrame

(* The ends of the open protocol, and the checks on nonfunctional replicas *)
LEMMA QuietSteps ==
    ASSUME IInv, dm' = dm, OpenFails \/ OpenComplete \/ CheckNonFunctional \/ CheckStops
    PROVE  IInv'
  <1>1. /\ gstate' \in {"Unknown", "Loading", "Active", "Offline"}
        /\ opening' \in {"none", "prepare", "broadcast"}
        /\ prepared' = prepared \/ prepared' = NoAnswers
        /\ UNCHANGED <<up, replies, adds, handle, opSeqNo, commitNo, buffering, writeOpsBuffer,
                       reqs, acked, opens>>
    BY DEF IInv, HandleTypes, OpenFails, OpenComplete, CheckNonFunctional, CheckStops, netVars, handleVars
  <1>2. N' = N
    BY <1>1 DEF N
  <1>3. toDm' \in [Replicas -> Seq(ToDm(N))]
    <2> DEFINE f == FunctionalReplicas(handle)
               m == GroupMsg(opSeqNo, commitNo, f)
    <2>1. f \subseteq Replicas
      BY DEF FunctionalReplicas, InState
    <2>2. m \in ToDm(N)
      BY <2>1, HandleKnown DEF GroupMsg, ToDm
    <2>3. toDm' = toDm \/ toDm' = SendTo(toDm, Replicas, m)
      BY DEF OpenFails, OpenComplete, CheckNonFunctional, CheckStops, netVars, Broadcast
    <2> HIDE DEF m
    <2> QED BY <2>2, <2>3, SendsTo, HandleKnown
  <1>4. HandleTypes'
    BY <1>1, <1>2, Fresh DEF IInv, HandleTypes
  <1>5. \A r \in Replicas : Told(r)'
    BY <1>1, Fresh, ToldKept
  <1> QED BY <1>1, <1>2, <1>3, <1>4, <1>5, HandleKnown, HandleFrame

(* One element of a sequence is replaced. *)
LEMMA SeqReplace ==
    ASSUME NEW S, NEW q \in Seq(S), NEW w \in 1..Len(q), NEW x \in S
    PROVE  [q EXCEPT ![w] = x] \in Seq(S) /\ Len([q EXCEPT ![w] = x]) = Len(q)
  OBVIOUS

(* The version stays when a handle changes its state or what it applied. *)
LEMMA HandleSet ==
    ASSUME IInv, NEW r \in Replicas, NEW h \in Handle(N), handle' = [handle EXCEPT ![r] = h],
           h.version <= dm[r].version
    PROVE  /\ handle' \in [Replicas -> Handle(N)]
           /\ \A s \in Replicas : handle'[s].version <= dm[s].version
  BY HandleKnown, Fresh

(* VolumeGroupBroadcastRequest::handleResponse changes one request. *)
LEMMA Records ==
    ASSUME IInv, NEW w \in 1..N, NEW ep \in reqs[w].waiting, NEW success \in BOOLEAN,
           Record(w, ep, success)
    PROVE  reqs' \in Seq(Req(N)) /\ N' = N /\ acked' \subseteq 1..N
  <1> DEFINE q == reqs[w]
             ok == q.ok \cup (IF success THEN {ep[1]} ELSE {})
             met == q.cb /\ Cardinality(ok) = QuorumCnt
             waiting == q.waiting \ {ep}
             cb == q.cb /\ ~met /\ waiting # {}
             x == [q EXCEPT !.ok = ok, !.waiting = waiting, !.cb = cb]
  <1>1. reqs \in Seq(Req(N)) /\ N \in Nat /\ acked \subseteq 1..N
    BY HandleKnown
  <1>2. q \in Req(N) /\ w \in 1..Len(reqs)
    BY <1>1 DEF N
  <1>3. reqs' = [reqs EXCEPT ![w] = x]
    BY <1>1, <1>2 DEF Record
  <1>4. acked' \subseteq 1..N
    BY <1>1 DEF Record
  <1>5. ep \in Replicas \X Version /\ q.ok \subseteq Replicas /\ q.waiting \subseteq Replicas \X Version
    BY <1>2 DEF Req
  <1>6. ok \subseteq Replicas /\ waiting \subseteq Replicas \X Version /\ cb \in BOOLEAN
    <2>1. ep[1] \in Replicas
      BY <1>5
    <2> QED BY <1>5, <2>1
  <1> HIDE DEF q, ok, waiting, cb
  <1>7. x \in Req(N)
    BY <1>2, <1>6 DEF Req
  <1> HIDE DEF x
  <1>8. reqs' \in Seq(Req(N)) /\ Len(reqs') = Len(reqs)
    BY <1>1, <1>2, <1>3, <1>7, SeqReplace
  <1> QED BY <1>4, <1>8 DEF N

(* handleVolumeResponse *)
LEMMA Processes ==
    ASSUME IInv, NEW w \in 1..N, NEW ep \in reqs[w].waiting, NEW ok \in BOOLEAN, Process(w, ep, ok)
    PROVE  /\ reqs' \in Seq(Req(N)) /\ N' = N /\ acked' \subseteq 1..N
           /\ handle' \in [Replicas -> Handle(N)]
           /\ \A s \in Replicas : handle'[s].version <= dm[s].version
           /\ gstate' \in {"Unknown", "Loading", "Active", "Offline"} /\ opSeqNo' \in 0..N
  <1> DEFINE r == ep[1]
             h == handle[r]
  <1>1. reqs[w] \in Req(N)
    BY HandleKnown DEF N
  <1>2. r \in Replicas /\ reqs[w].op \in 1..N
    BY <1>1 DEF Req
  <1>3. h \in Handle(N) /\ h.version <= dm[r].version /\ handle \in [Replicas -> Handle(N)]
    BY <1>2, HandleKnown, Fresh
  <1>4. gstate \in {"Unknown", "Loading", "Active", "Offline"} /\ opSeqNo \in 0..N /\ N \in Nat
    BY HandleKnown DEF IInv, HandleTypes
  <1>5. \E success \in BOOLEAN : Record(w, ep, success)
    BY DEF Process
  <1>6. reqs' \in Seq(Req(N)) /\ N' = N /\ acked' \subseteq 1..N
    BY <1>5, Records
  <1>7. CASE UNCHANGED <<handle, gstate, opSeqNo>>
    BY <1>4, <1>6, <1>7, HandleKnown, Fresh
  <1>8. CASE SetHandle(r, [h EXCEPT !.applied = reqs[w].op]) /\ UNCHANGED <<gstate, opSeqNo>>
    <2> DEFINE o == reqs[w].op
               k == [h EXCEPT !.applied = o]
    <2>1. handle' = [handle EXCEPT ![r] = k]
      BY <1>8 DEF SetHandle
    <2>2. o \in 0..N
      BY <1>2, <1>4
    <2> HIDE DEF o, h
    <2>3. k \in Handle(N) /\ k.version = h.version
      BY <1>3, <2>2 DEF Handle
    <2> HIDE DEF k, r
    <2> QED BY <1>2, <1>3, <1>4, <1>6, <1>8, <2>1, <2>3, HandleSet
  <1>9. CASE MakeOffline(r)
    <2> DEFINE k == [h EXCEPT !.state = "Offline"]
    <2>1. handle' = [handle EXCEPT ![r] = k]
      BY <1>9 DEF SetHandle, MakeOffline
    <2>2. gstate' \in {"Unknown", "Loading", "Active", "Offline"} /\ opSeqNo' \in 0..N
      BY <1>4, <1>9 DEF MakeOffline, GroupAdjust, OPSTARTID
    <2> HIDE DEF h
    <2>3. k \in Handle(N) /\ k.version = h.version
      BY <1>3 DEF Handle
    <2> HIDE DEF k, r
    <2> QED BY <1>2, <1>3, <1>6, <2>1, <2>2, <2>3, HandleSet
  <1> QED BY <1>7, <1>8, <1>9 DEF Process

(* Answers to writes, in time or not *)
LEMMA ReplySteps ==
    ASSUME IInv, dm' = dm, NEW r \in Replicas,
           HandleWriteReply(r) \/ DropWriteReply(r) \/ IoTimeout(r)
    PROVE  IInv'
  <1> DEFINE m == Head(replies[r])
  <1>1. CASE DropWriteReply(r)
    <2>1. /\ replies[r] # <<>> /\ replies' = [replies EXCEPT ![r] = Tail(@)]
          /\ UNCHANGED <<up, toDm, adds>> /\ UNCHANGED handleVars
      BY <1>1 DEF DropWriteReply
    <2>2. /\ replies' \in [Replicas -> Seq(Reply(N))]
          /\ \A s \in Replicas : From(replies'[s], replies[s])
      BY <2>1, TakesReply
    <2>3. N' = N /\ handle' = handle /\ prepared' = prepared
      BY <2>1 DEF N, handleVars
    <2>4. HandleTypes'
      BY <2>1, <2>3 DEF IInv, HandleTypes, handleVars
    <2>5. \A s \in Replicas : Told(s)'
      BY <2>1, <2>2, <2>3, Fresh, ToldKept
    <2> QED BY <2>1, <2>2, <2>3, <2>4, <2>5, HandleKnown, HandleFrame
  <1>2. CASE HandleWriteReply(r) \/ IoTimeout(r)
    <2>1. /\ replies' \in [Replicas -> Seq(Reply(N))]
          /\ \A s \in Replicas : From(replies'[s], replies[s])
      <3>1. CASE HandleWriteReply(r)
        <4>1. replies[r] # <<>> /\ replies' = [replies EXCEPT ![r] = Tail(@)]
          BY <3>1 DEF HandleWriteReply
        <4> QED BY <4>1, TakesReply
      <3>2. CASE IoTimeout(r)
        <4>1. replies' = replies
          BY <3>2 DEF IoTimeout
        <4> QED BY <4>1, HandleKnown, Fresh
      <3> QED BY <1>2, <3>1, <3>2
    <2>2. \E w \in 1..N : \E ep \in reqs[w].waiting : \E ok \in BOOLEAN : Process(w, ep, ok)
      <3>1. CASE HandleWriteReply(r)
        <4>1. /\ replies[r] # <<>> /\ m.type = "reply" /\ replies' = [replies EXCEPT ![r] = Tail(@)]
              /\ \E ep \in reqs[m.w].waiting : Process(m.w, ep, m.ok)
          BY <3>1 DEF HandleWriteReply
        <4>2. m \in Reply(N)
          BY <4>1, TakesReply
        <4>3. m.w \in 1..N /\ m.ok \in BOOLEAN
          BY <4>1, <4>2, HandleKnown, Replies
        <4> HIDE DEF m
        <4> QED BY <4>1, <4>3
      <3>2. CASE IoTimeout(r)
        <4>1. \E w \in DOMAIN reqs : \E ep \in reqs[w].waiting : Process(w, ep, FALSE)
          BY <3>2 DEF IoTimeout
        <4>2. DOMAIN reqs = 1..N
          BY HandleKnown DEF N
        <4> QED BY <4>1, <4>2
      <3> QED BY <1>2, <3>1, <3>2
    <2>3. PICK w \in 1..N : \E ep \in reqs[w].waiting : \E ok \in BOOLEAN : Process(w, ep, ok)
      BY <2>2
    <2>4. PICK ep \in reqs[w].waiting, ok \in BOOLEAN : Process(w, ep, ok)
      BY <2>3
    <2>5. /\ reqs' \in Seq(Req(N)) /\ N' = N /\ acked' \subseteq 1..N
          /\ handle' \in [Replicas -> Handle(N)]
          /\ \A s \in Replicas : handle'[s].version <= dm[s].version
          /\ gstate' \in {"Unknown", "Loading", "Active", "Offline"} /\ opSeqNo' \in 0..N
      BY <2>4, Processes
    <2>6. UNCHANGED <<up, toDm, adds, opening, prepared, commitNo, buffering, writeOpsBuffer, opens>>
      BY <1>2 DEF HandleWriteReply, IoTimeout
    <2>7. HandleTypes'
      BY <2>5, <2>6 DEF IInv, HandleTypes
    <2>8. \A s \in Replicas : Told(s)'
      BY <2>1, <2>5, <2>6, Fresh, ToldKept
    <2> QED BY <2>1, <2>5, <2>6, <2>7, <2>8, HandleKnown, HandleFrame
  <1> QED BY <1>1, <1>2

(* replayFromWriteOpsBuffer_ stays inside the buffer. *)
LEMMA ReplayTyped ==
    ASSUME IInv, NEW from \in Nat
    PROVE  Replay(from) \in Seq(ToDm(N))
  <1> DEFINE b == writeOpsBuffer
             first == opSeqNo + 1 - Len(b)
             k == opSeqNo + 1 - from
             q == [i \in 1..k |-> Replayed(b[from - first + i])]
  <1>1. b \in Seq(WriteReq(N)) /\ opSeqNo \in 0..N /\ N \in Nat /\ Len(b) \in Nat
    BY HandleKnown
  <1>2. first \in Int /\ k \in Int
    BY <1>1
  <1>3. CASE buffering /\ first <= from
    <2>1. ASSUME NEW i \in 1..k PROVE from - first + i \in 1..Len(b)
      BY <1>1, <1>3
    <2>2. ASSUME NEW i \in 1..k PROVE b[from - first + i] \in WriteReq(N)
      <3> DEFINE j == from - first + i
      <3>1. j \in 1..Len(b)
        BY <2>1
      <3> HIDE DEF j
      <3>2. b[j] \in WriteReq(N)
        BY <1>1, <3>1
      <3> QED BY <3>2 DEF j
    <2>3. ASSUME NEW i \in 1..k PROVE Replayed(b[from - first + i]) \in ToDm(N)
      <3> DEFINE m == b[from - first + i]
      <3>1. m \in WriteReq(N)
        BY <2>2
      <3> HIDE DEF m
      <3>2. Replayed(m) \in WriteReq(N)
        BY <3>1 DEF Replayed, WriteReq
      <3> QED BY <3>2 DEF m, ToDm
    <2>4. Replay(from) = q
      BY <1>3 DEF Replay
    <2> DEFINE a(i) == Replayed(b[from - first + i])
               n == IF k >= 0 THEN k ELSE 0
    <2>5. n \in Nat /\ 1..k = 1..n
      BY <1>2
    <2>6. \A i \in 1..n : a(i) \in ToDm(N)
      BY <2>3, <2>5
    <2>7. q = [i \in 1..n |-> a(i)]
      BY <2>5
    <2> HIDE DEF a, n, q
    <2>8. q \in [1..n -> ToDm(N)]
      BY <2>6, <2>7
    <2>9. q \in Seq(ToDm(N))
      BY <2>5, <2>8
    <2> QED BY <2>4, <2>9
  <1>4. CASE ~(buffering /\ first <= from)
    <2>1. Replay(from) = <<>>
      BY <1>4 DEF Replay
    <2> QED BY <2>1
  <1> QED BY <1>3, <1>4

(* Messages a replica sent of its own, taken without a new version *)
LEMMA AddSteps ==
    ASSUME IInv, dm' = dm, NEW r \in Replicas,
           AddRejected(r) \/ AddLoading(r) \/ AddOffline(r) \/ AddActive(r)
    PROVE  IInv'
  <1> DEFINE m == Head(adds[r])
             h == handle[r]
  <1>1. /\ adds[r] # <<>> /\ adds' = [adds EXCEPT ![r] = Tail(@)]
        /\ UNCHANGED <<up, replies, opening, prepared, commitNo, reqs, acked, opens>>
    BY DEF AddRejected, AddLoading, AddOffline, AddActive, ReceiveAdd, handleVars
  <1>2. /\ m \in Add(N) /\ adds' \in [Replicas -> Seq(Add(N))]
        /\ \A s \in Replicas : From(adds'[s], adds[s])
    BY <1>1, TakesAdd
  <1>3. m.version \in Version
    BY <1>2 DEF Add
  <1>4. /\ h \in Handle(N) /\ h.version <= dm[r].version /\ handle \in [Replicas -> Handle(N)]
        /\ N \in Nat /\ opSeqNo \in 0..N /\ commitNo \in 0..N
        /\ gstate \in {"Unknown", "Loading", "Active", "Offline"}
    BY HandleKnown, Fresh DEF IInv, HandleTypes
  <1>5. /\ handle' \in [Replicas -> Handle(N)]
        /\ \A s \in Replicas : handle'[s].version <= dm[s].version
    <2>1. \/ handle' = handle
          \/ \E t \in {"Offline", "Active"} : handle' = [handle EXCEPT ![r] = [h EXCEPT !.state = t]]
      BY DEF AddRejected, AddLoading, AddOffline, AddActive, MakeOffline, SetHandle, handleVars
    <2>2. ASSUME NEW t \in {"Offline", "Active"}
          PROVE  [h EXCEPT !.state = t] \in Handle(N) /\ [h EXCEPT !.state = t].version = h.version
      <3> HIDE DEF h
      <3> QED BY <1>4 DEF Handle
    <2>3. CASE handle' = handle
      BY <2>3, HandleKnown, Fresh
    <2>4. ASSUME NEW t \in {"Offline", "Active"}, handle' = [handle EXCEPT ![r] = [h EXCEPT !.state = t]]
          PROVE  /\ handle' \in [Replicas -> Handle(N)]
                 /\ \A s \in Replicas : handle'[s].version <= dm[s].version
      <3> DEFINE k == [h EXCEPT !.state = t]
      <3>1. handle' = [handle EXCEPT ![r] = k] /\ k \in Handle(N) /\ k.version <= dm[r].version
        BY <1>4, <2>2, <2>4
      <3> HIDE DEF k
      <3> QED BY <3>1, HandleSet
    <2> QED BY <2>1, <2>3, <2>4
  <1>6. gstate' \in {"Unknown", "Loading", "Active", "Offline"} /\ opSeqNo' \in 0..N
    BY <1>4 DEF AddRejected, AddLoading, AddOffline, AddActive, MakeOffline, GroupAdjust, OPSTARTID, handleVars
  <1>7. buffering' \in BOOLEAN /\ writeOpsBuffer' \in Seq(WriteReq(N))
    <2>1. \/ UNCHANGED <<buffering, writeOpsBuffer>>
          \/ buffering' = TRUE /\ writeOpsBuffer' = <<>>
      BY DEF AddRejected, AddLoading, AddOffline, AddActive, handleVars
    <2>2. <<>> \in Seq(WriteReq(N)) /\ buffering \in BOOLEAN /\ writeOpsBuffer \in Seq(WriteReq(N))
      BY DEF IInv, HandleTypes
    <2> QED BY <2>1, <2>2
  <1>8. toDm' \in [Replicas -> Seq(ToDm(N))]
    <2> DEFINE f == FunctionalReplicas(handle')
               a == JoinRefused(m.version)
               b == JoinedMsg(m.version, opSeqNo', commitNo, f)
    <2>1. f \subseteq Replicas
      BY DEF FunctionalReplicas, InState
    <2>2. toDm' = toDm \/ toDm' = SendTo(toDm, {r}, a) \/ toDm' = SendTo(toDm, {r}, b)
      BY DEF AddRejected, AddLoading, AddOffline, AddActive, AnswerAdd
    <2> HIDE DEF f, m
    <2>3. a \in ToDm(N)
      BY <1>3 DEF JoinRefused, ToDm
    <2>4. b \in ToDm(N)
      BY <1>3, <1>4, <1>6, <2>1 DEF JoinedMsg, ToDm
    <2> HIDE DEF a, b
    <2> QED BY <2>2, <2>3, <2>4, SendsTo, HandleKnown
  <1>9. N' = N
    BY <1>1 DEF N
  <1>10. HandleTypes'
    BY <1>1, <1>5, <1>6, <1>7, <1>9 DEF IInv, HandleTypes
  <1>11. \A s \in Replicas : Told(s)'
    BY <1>1, <1>2, <1>5, Fresh, ToldKept
  <1> QED BY <1>1, <1>2, <1>8, <1>9, <1>10, <1>11, HandleKnown, HandleFrame

(* The transition to Syncing, with what the buffer holds *)
LEMMA SyncingSteps ==
    ASSUME IInv, dm' = dm, NEW r \in Replicas, AddSyncing(r)
    PROVE  IInv'
  <1> DEFINE m == Head(adds[r])
             q == Replay(m.op + 1)
             h == [state |-> "Syncing", version |-> m.version, applied |-> opSeqNo]
  <1>1. /\ adds[r] # <<>> /\ adds' = [adds EXCEPT ![r] = Tail(@)]
        /\ UNCHANGED <<up, replies, gstate, opening, prepared, opSeqNo, commitNo, reqs, acked, opens>>
    BY DEF AddSyncing, ReceiveAdd
  <1>2. /\ m \in Add(N) /\ adds' \in [Replicas -> Seq(Add(N))]
        /\ \A s \in Replicas : From(adds'[s], adds[s])
        /\ m.version <= dm[r].version
    BY <1>1, TakesAdd
  <1>3. N \in Nat /\ opSeqNo \in 0..N /\ toDm \in [Replicas -> Seq(ToDm(N))]
    BY HandleKnown
  <1>4. m.version \in Version /\ m.op \in 0..N
    BY <1>2 DEF Add
  <1>5. q \in Seq(ToDm(N))
    <2>1. m.op + 1 \in Nat
      BY <1>3, <1>4
    <2> QED BY <2>1, ReplayTyped
  <1>6. h \in Handle(N) /\ h.version = m.version
    <2> HIDE DEF m
    <2> QED BY <1>3, <1>4 DEF Handle
  <1>7. \/ UNCHANGED <<toDm, buffering, writeOpsBuffer, handle>>
        \/ /\ toDm' = toDm \/ toDm' = [toDm EXCEPT ![r] = @ \o q]
           /\ buffering' = FALSE /\ writeOpsBuffer' = <<>> /\ handle' = [handle EXCEPT ![r] = h]
    BY DEF AddSyncing, SetHandle
  <1> HIDE DEF m, q, h
  <1>8. toDm' \in [Replicas -> Seq(ToDm(N))]
    <2> DEFINE c == toDm[r] \o q
    <2>1. c \in Seq(ToDm(N))
      BY <1>3, <1>5, PutMany
    <2>2. toDm' = toDm \/ toDm' = [toDm EXCEPT ![r] = c]
      BY <1>3, <1>7
    <2> HIDE DEF c
    <2> QED BY <1>3, <2>1, <2>2
  <1>9. /\ handle' \in [Replicas -> Handle(N)]
        /\ \A s \in Replicas : handle'[s].version <= dm[s].version
    <2>1. CASE handle' = handle
      BY <2>1, HandleKnown, Fresh
    <2>2. CASE handle' = [handle EXCEPT ![r] = h]
      BY <1>2, <1>6, <2>2, HandleSet
    <2> QED BY <1>7, <2>1, <2>2
  <1>10. buffering' \in BOOLEAN /\ writeOpsBuffer' \in Seq(WriteReq(N))
    <2>1. <<>> \in Seq(WriteReq(N)) /\ buffering \in BOOLEAN /\ writeOpsBuffer \in Seq(WriteReq(N))
      BY DEF IInv, HandleTypes
    <2> QED BY <1>7, <2>1
  <1>11. N' = N
    BY <1>1 DEF N
  <1>12. HandleTypes'
    BY <1>1, <1>9, <1>10, <1>11 DEF IInv, HandleTypes
  <1>13. \A s \in Replicas : Told(s)'
    BY <1>1, <1>2, <1>9, Fresh, ToldKept
  <1> QED BY <1>1, <1>2, <1>8, <1>11, <1>12, <1>13, HandleKnown, HandleFrame

(* The process of the coordinator ends. *)
LEMMA GoneSteps ==
    ASSUME IInv, dm' = dm, ProcessGone
    PROVE  IInv'
  <1> DEFINE x(w) == [reqs[w] EXCEPT !.waiting = {}]
  <1>1. /\ gstate' = "Unknown" /\ opening' = "none" /\ prepared' = NoAnswers
        /\ handle' = [r \in Replicas |-> NewHandle] /\ opSeqNo' = OPSTARTID /\ commitNo' = 0
        /\ buffering' = FALSE /\ writeOpsBuffer' = <<>>
        /\ reqs' = [w \in DOMAIN reqs |-> x(w)]
        /\ replies' = [r \in Replicas |-> <<>>] /\ adds' = [r \in Replicas |-> <<>>]
        /\ UNCHANGED <<up, acked, opens>>
    BY DEF ProcessGone
  <1>2. reqs \in Seq(Req(N)) /\ N \in Nat /\ DOMAIN reqs = 1..N
    BY HandleKnown DEF N
  <1>3. ASSUME NEW w \in 1..N PROVE x(w) \in Req(N)
    <2> DEFINE q == reqs[w]
    <2>1. q \in Req(N)
      BY <1>2
    <2> HIDE DEF q
    <2>2. [q EXCEPT !.waiting = {}] \in Req(N)
      BY <2>1 DEF Req
    <2> QED BY <2>2 DEF q
  <1>4. reqs' \in Seq(Req(N)) /\ N' = N
    <2> HIDE DEF x
    <2>1. reqs' \in [1..N -> Req(N)]
      BY <1>1, <1>2, <1>3
    <2>2. reqs' \in Seq(Req(N)) /\ Len(reqs') = N
      BY <1>2, <2>1
    <2> QED BY <2>2 DEF N
  <1>5. toDm' \in [Replicas -> Seq(ToDm(N))]
    <2>1. PICK kept \in [Replicas -> UNION {0..Len(toDm[r]) : r \in Replicas}] :
             /\ \A r \in Replicas : kept[r] <= Len(toDm[r])
             /\ toDm' = [r \in Replicas |-> SubSeq(toDm[r], 1, kept[r])]
      BY DEF ProcessGone
    <2>2. ASSUME NEW r \in Replicas PROVE SubSeq(toDm[r], 1, kept[r]) \in Seq(ToDm(N))
      <3> DEFINE q == toDm[r]
                 k == kept[r]
      <3>1. q \in Seq(ToDm(N)) /\ k <= Len(q)
        BY <2>1, HandleKnown
      <3>2. \A s \in Replicas : Len(toDm[s]) \in Nat
        BY HandleKnown
      <3>3. k \in Nat
        BY <3>2
      <3> HIDE DEF q, k
      <3>4. SubSeq(q, 1, k) \in Seq(ToDm(N))
        BY <3>1, <3>3
      <3> QED BY <3>4 DEF q, k
    <2> QED BY <2>1, <2>2
  <1>6. /\ replies' \in [Replicas -> Seq(Reply(N))] /\ adds' \in [Replicas -> Seq(Add(N))]
        /\ \A r \in Replicas : From(replies'[r], replies[r]) /\ From(adds'[r], adds[r])
    <2>1. <<>> \in Seq(Reply(N)) /\ <<>> \in Seq(Add(N)) /\ DOMAIN <<>> = {}
      OBVIOUS
    <2>2. \A r \in Replicas : replies'[r] = <<>> /\ adds'[r] = <<>>
      BY <1>1
    <2> QED BY <1>1, <2>1, <2>2 DEF From
  <1>7. /\ handle' \in [Replicas -> Handle(N)] /\ \A r \in Replicas : handle'[r].version <= dm[r].version
        /\ prepared' \in [Replicas -> OpenAnswer(N) \cup {NoAnswer}]
        /\ \A r \in Replicas : prepared'[r].type # "opened"
    BY <1>1, Fresh
  <1>8. opSeqNo' \in 0..N /\ commitNo' \in 0..N /\ writeOpsBuffer' \in Seq(WriteReq(N))
    BY <1>1, <1>2 DEF OPSTARTID
  <1>9. HandleTypes'
    <2> HIDE DEF x
    <2> QED BY <1>1, <1>4, <1>7, <1>8 DEF IInv, HandleTypes
  <1>10. \A r \in Replicas : Told(r)'
    BY <1>6, <1>7, ToldKept
  <1> QED BY <1>1, <1>4, <1>5, <1>6, <1>9, <1>10, HandleKnown, HandleFrame

(* A write: the only step that makes operations and sequence ids grow. *)
LEMMA WriteOpSteps ==
    ASSUME IInv, dm' = dm, WriteOp
    PROVE  IInv'
  <1> DEFINE w == Len(reqs) + 1
             m == WriteMsg(w, opSeqNo + 1, commitNo + 1)
             rs == InState(handle, "Active") \cup InState(handle, "Syncing")
             q == [op |-> m.op, ok |-> {}, cb |-> TRUE, waiting |-> {<<r, handle[r].version>> : r \in rs}]
             n == N + 1
  <1>1. /\ writeOpsBuffer' = (IF buffering THEN Append(writeOpsBuffer, m) ELSE <<>>)
        /\ reqs' = Append(reqs, q)
        /\ toDm' = SendTo(toDm, rs, m)
        /\ opSeqNo' = opSeqNo + 1 /\ commitNo' = commitNo + 1 /\ Len(reqs) < MaxWrites
        /\ UNCHANGED <<up, replies, adds, gstate, opening, prepared, handle, buffering, acked, opens>>
    BY DEF WriteOp
  <1>2. /\ N \in Nat /\ MaxWrites \in Nat /\ opSeqNo \in 0..N /\ commitNo \in 0..N
        /\ writeOpsBuffer \in Seq(WriteReq(N)) /\ reqs \in Seq(Req(N)) /\ acked \subseteq 1..N
    BY HandleKnown
  <1>3. n \in Nat /\ N <= n /\ w = n /\ n <= MaxWrites
    BY <1>1, <1>2 DEF N
  <1>4. /\ WriteReq(N) \subseteq WriteReq(n) /\ ToDm(N) \subseteq ToDm(n)
        /\ OpenAnswer(N) \subseteq OpenAnswer(n) /\ Reply(N) \subseteq Reply(n)
        /\ Add(N) \subseteq Add(n) /\ Req(N) \subseteq Req(n) /\ Handle(N) \subseteq Handle(n)
        /\ Dm(N) \subseteq Dm(n)
    BY <1>2, <1>3, Wider
  <1>5. opSeqNo' \in 1..n /\ commitNo' \in 1..n /\ w \in 1..n
    BY <1>1, <1>2, <1>3
  <1>6. m \in WriteReq(n) /\ m.op = opSeqNo + 1
    BY <1>1, <1>5 DEF WriteMsg, WriteReq
  <1>7. q \in Req(n)
    <2> DEFINE ws == {<<r, handle[r].version>> : r \in rs}
               o == m.op
    <2>1. ws \subseteq Replicas \X Version
      <3>1. rs \subseteq Replicas
        BY DEF InState
      <3>2. \A r \in Replicas : handle[r].version \in Version
        <4>1. \A r \in Replicas : handle[r] \in Handle(N)
          BY HandleKnown
        <4> QED BY <4>1 DEF Handle
      <3> QED BY <3>1, <3>2
    <2>2. o \in 1..n
      BY <1>1, <1>5, <1>6
    <2> HIDE DEF ws, o, m, rs
    <2>3. [op |-> o, ok |-> {}, cb |-> TRUE, waiting |-> ws] \in Req(n)
      BY <2>1, <2>2 DEF Req
    <2> QED BY <2>3 DEF o, ws
  <1> HIDE DEF m, q, rs, w
  <1>8. reqs' \in Seq(Req(n)) /\ N' = n
    <2>1. reqs \in Seq(Req(n))
      BY <1>2, <1>4, SeqMore
    <2>2. Append(reqs, q) \in Seq(Req(n)) /\ Len(Append(reqs, q)) = Len(reqs) + 1
      BY <1>7, <2>1
    <2> QED BY <1>1, <2>2 DEF N
  <1>9. writeOpsBuffer' \in Seq(WriteReq(n))
    <2>1. writeOpsBuffer \in Seq(WriteReq(n))
      BY <1>2, <1>4, SeqMore
    <2>2. Append(writeOpsBuffer, m) \in Seq(WriteReq(n)) /\ <<>> \in Seq(WriteReq(n))
      BY <1>6, <2>1, PutLast
    <2> QED BY <1>1, <2>2
  <1>10. toDm' \in [Replicas -> Seq(ToDm(n))]
    <2>1. \A r \in Replicas : toDm[r] \in Seq(ToDm(N))
      BY HandleKnown
    <2>2. \A r \in Replicas : toDm[r] \in Seq(ToDm(n))
      BY <1>4, <2>1, SeqMore
    <2>3. m \in ToDm(n)
      BY <1>6 DEF ToDm
    <2>4. \A r \in Replicas : Append(toDm[r], m) \in Seq(ToDm(n))
      BY <2>2, <2>3, PutLast
    <2> QED BY <1>1, <2>2, <2>4 DEF SendTo
  <1>11. replies' \in [Replicas -> Seq(Reply(n))] /\ adds' \in [Replicas -> Seq(Add(n))]
    <2>1. replies \in [Replicas -> Seq(Reply(N))] /\ adds \in [Replicas -> Seq(Add(N))]
      BY HandleKnown
    <2>2. Seq(Reply(N)) \subseteq Seq(Reply(n)) /\ Seq(Add(N)) \subseteq Seq(Add(n))
      BY <1>4, SeqMore
    <2> QED BY <1>1, <2>1, <2>2
  <1>12. /\ handle' \in [Replicas -> Handle(n)] /\ dm' \in [Replicas -> Dm(n)]
         /\ prepared' \in [Replicas -> OpenAnswer(n) \cup {NoAnswer}]
    BY <1>1, <1>4, HandleKnown
  <1>13. NetTypes' /\ DmTypes'
    BY <1>1, <1>8, <1>10, <1>11, <1>12, HandleKnown DEF NetTypes, DmTypes
  <1>14. opSeqNo' \in 0..n /\ commitNo' \in 0..n /\ acked' \subseteq 1..n
    BY <1>1, <1>2, <1>3, <1>5
  <1>15. HandleTypes'
    BY <1>1, <1>3, <1>8, <1>9, <1>12, <1>14 DEF IInv, HandleTypes
  <1>16. \A r \in Replicas : Told(r)'
    BY <1>1, Fresh, ToldKept
  <1>17. CatalogueCovered'
    BY DEF IInv, CatalogueCovered
  <1> QED BY <1>13, <1>15, <1>16, <1>17 DEF IInv

(* Every step of the coordinator keeps the invariant. *)
LEMMA CoordinatorKeeps ==
    ASSUME IInv, Coordinator
    PROVE  IInv'
  <1>1. dm' = dm /\ HandleStep
    BY DEF Coordinator
  <1>2. CASE OpenVolume \/ \E r \in Replicas : HandleOpenAnswer(r) \/ OpenTimeout(r)
    BY <1>1, <1>2, PrepareSteps
  <1>3. CASE OpenDecide
    BY <1>1, <1>3, DecideSteps
  <1>4. CASE OpenFails \/ OpenComplete \/ CheckNonFunctional \/ CheckStops
    BY <1>1, <1>4, QuietSteps
  <1>5. CASE WriteOp
    BY <1>1, <1>5, WriteOpSteps
  <1>6. CASE CoordinatorCrash \/ \E r \in Replicas : AddAsserts(r)
    <2>1. ProcessGone
      BY <1>6 DEF CoordinatorCrash, AddAsserts, Fails
    <2> QED BY <1>1, <2>1, GoneSteps
  <1>7. CASE \E r \in Replicas : HandleWriteReply(r) \/ DropWriteReply(r) \/ IoTimeout(r)
    BY <1>1, <1>7, ReplySteps
  <1>8. CASE \E r \in Replicas : AddRejected(r) \/ AddLoading(r) \/ AddOffline(r) \/ AddActive(r)
    BY <1>1, <1>8, AddSteps
  <1>9. CASE \E r \in Replicas : AddSyncing(r)
    BY <1>1, <1>9, SyncingSteps
  <1> QED BY <1>1, <1>2, <1>3, <1>4, <1>5, <1>6, <1>7, <1>8, <1>9 DEF HandleStep

-----------------------------------------------------------------------------
(* The theorems *)

(* The invariant holds at the start. *)
LEMMA InitHolds == Init => IInv
  <1> SUFFICES ASSUME Init PROVE IInv
    OBVIOUS
  <1>1. NetInit /\ HandleInit /\ DmInit
    BY DEF Init
  <1>2. N = 0 /\ reqs = <<>> /\ MaxVersion \in Nat /\ MaxVersion # 0 /\ MaxWrites \in Nat
    BY <1>1, GroupAssumption DEF N, HandleInit
  <1>3. NetTypes
    <2>1. \A S : <<>> \in Seq(S)
      OBVIOUS
    <2> QED BY <1>1, <2>1 DEF NetTypes, NetInit
  <1>4. NewHandle \in Handle(N) /\ NewHandle.version = 0
    BY <1>2 DEF NewHandle, Handle, Version, VERSION_INVALID, OPSTARTID
  <1>5. HandleTypes
    <2>1. \A S : <<>> \in Seq(S)
      OBVIOUS
    <2>2. handle \in [Replicas -> Handle(N)]
      BY <1>1, <1>4 DEF HandleInit
    <2>3. prepared \in [Replicas -> OpenAnswer(N) \cup {NoAnswer}]
      BY <1>1 DEF HandleInit, NoAnswers
    <2>4. writeOpsBuffer \in Seq(WriteReq(N)) /\ reqs \in Seq(Req(N))
      BY <1>1, <1>2, <2>1 DEF HandleInit
    <2>5. /\ opSeqNo \in 0..N /\ commitNo \in 0..N /\ N \in Nat /\ N <= MaxWrites
          /\ opens \in Nat /\ acked \subseteq 1..N
      BY <1>1, <1>2 DEF HandleInit, OPSTARTID
    <2> QED BY <1>1, <2>2, <2>3, <2>4, <2>5 DEF HandleTypes, HandleInit
  <1>6. ASSUME NEW r \in Replicas
        PROVE  dm[r] \in Dm(N) /\ dm[r].version = 1 /\ dm[r].data = {}
    <2> DEFINE v == VERSION_START - 1
               b == <<>>
    <2>1. v = 1 /\ v \in 1..MaxVersion /\ b \in Seq(WriteReq(N))
      BY <1>2 DEF VERSION_START
    <2>2. dm[r] = [state |-> "Offline", version |-> v, opId |-> 0, coordSet |-> FALSE, seq |-> 0,
                   data |-> {}, init |-> "none", peers |-> {}, peer |-> r, buf |-> b]
      BY <1>1 DEF DmInit
    <2> HIDE DEF v, b
    <2> QED BY <1>2, <2>1, <2>2 DEF Dm
  <1>7. DmTypes
    <2>1. dm = [r \in Replicas |-> dm[r]]
      BY <1>1 DEF DmInit
    <2> QED BY <1>6, <2>1 DEF DmTypes
  <1>8. CatalogueCovered
    BY <1>6 DEF CatalogueCovered, Blobs
  <1>9. ASSUME NEW r \in Replicas PROVE Told(r)
    <2>1. handle[r].version = 0 /\ prepared[r].type = "none" /\ adds[r] = <<>> /\ replies[r] = <<>>
      BY <1>1, <1>4 DEF HandleInit, NetInit, NoAnswers, NoAnswer
    <2>2. DOMAIN <<>> = {}
      OBVIOUS
    <2> QED BY <1>6, <2>1, <2>2 DEF Told
  <1> QED BY <1>3, <1>5, <1>7, <1>8, <1>9 DEF IInv

(* Every step of coordinator and replicas keeps it. *)
LEMMA NextKeeps == IInv /\ [Next]_vars => IInv'
  <1> SUFFICES ASSUME IInv, [Next]_vars PROVE IInv'
    OBVIOUS
  <1>1. CASE Coordinator
    BY <1>1, CoordinatorKeeps
  <1>2. CASE \E r \in Replicas : Replica(r)
    BY <1>2, ReplicaKeeps
  <1>3. CASE UNCHANGED vars
    <2>1. UNCHANGED netVars /\ UNCHANGED handleVars /\ dm' = dm
      BY <1>3 DEF vars
    <2>2. N' = N
      BY <2>1 DEF N, handleVars
    <2>3. NetTypes' /\ HandleTypes' /\ DmTypes'
      BY <2>1, <2>2 DEF IInv, NetTypes, HandleTypes, DmTypes, netVars, handleVars
    <2>4. \A r \in Replicas : Told(r)'
      BY <2>1 DEF IInv, Told, netVars, handleVars
    <2>5. CatalogueCovered'
      BY <2>1 DEF IInv, CatalogueCovered
    <2> QED BY <2>3, <2>4, <2>5 DEF IInv
  <1> QED BY <1>1, <1>2, <1>3 DEF Next

(* The inductive invariant of coordinator, replicas and messages: types    *)
(* that follow the number of writes issued, versions that every message    *)
(* and the coordinator know of, and sequence ids that cover catalogues.    *)
THEOREM Invariance == Spec => []IInv
  <1> QED BY InitHolds, NextKeeps, PTL DEF Spec

(* Types of what coordinator and replicas keep, for every number of        *)
(* replicas and every bound: opids and sequence ids stay within the writes *)
(* issued, also those that a replica copies from a peer or replays.        *)
THEOREM TypeCorrect == Spec => []TypeOK
  <1>1. IInv => TypeOK
    <2> SUFFICES ASSUME IInv PROVE TypeOK
      OBVIOUS
    <2>1. /\ N \in Nat /\ MaxWrites \in Nat /\ N <= MaxWrites /\ MaxVersion \in Nat
          /\ opSeqNo \in 0..N /\ commitNo \in 0..N /\ acked \subseteq 1..N /\ up \subseteq Replicas
      BY HandleKnown
    <2>2. DOMAIN reqs = 1..N /\ 0..N \subseteq 0..MaxWrites /\ 1..N \subseteq 1..MaxWrites
      BY <2>1, HandleKnown DEF N
    <2>3. ASSUME NEW r \in Replicas
          PROVE  handle[r] \in [state : {"Offline", "Syncing", "Active"},
                                version : 0..MaxVersion, applied : 0..MaxWrites]
      <3>1. handle[r] \in Handle(N)
        BY HandleKnown
      <3> QED BY <2>2, <3>1 DEF Handle, Version
    <2>4. ASSUME NEW r \in Replicas
          PROVE  /\ dm[r].state \in {"Offline", "Loading", "Syncing", "Active"}
                 /\ dm[r].version \in 1..MaxVersion
                 /\ dm[r].seq \in 0..MaxWrites /\ dm[r].opId \in 0..MaxWrites
                 /\ dm[r].data \subseteq (DOMAIN reqs) \X (1..MaxWrites)
      <3>1. dm[r] \in Dm(N)
        BY HandleKnown
      <3>2. /\ dm[r].state \in {"Offline", "Loading", "Syncing", "Active"}
            /\ dm[r].version \in 1..MaxVersion
            /\ dm[r].seq \in 0..N /\ dm[r].opId \in 0..N /\ dm[r].data \subseteq Pairs(N)
        BY <3>1 DEF Dm
      <3> QED BY <2>2, <3>2 DEF Pairs
    <2>5. gstate \in {"Unknown", "Loading", "Active", "Offline"} /\ opening \in {"none", "prepare", "broadcast"}
      BY DEF IInv, HandleTypes
    <2> QED BY <2>1, <2>2, <2>3, <2>4, <2>5 DEF TypeOK
  <1> QED BY <1>1, Invariance, PTL

(* The incarnation of a replica that the coordinator has, or that a        *)
(* message names, is one the replica reached and saved: VolumeOpenHandler  *)
(* and startInitializer increment the version before they tell it.         *)
THEOREM NoVersionAhead == Spec => []VersionsReached
  <1>1. IInv => VersionsReached
    BY DEF IInv, Told, VersionsReached
  <1> QED BY <1>1, Invariance, PTL

(* The sequence id by which an open compares replicas covers every blob of *)
(* the catalogue, after requests, replay, migration, metadata writes and   *)
(* restarts.                                                               *)
THEOREM NeverClaimsLess == Spec => []CatalogueCovered
  <1>1. IInv => CatalogueCovered
    BY DEF IInv
  <1> QED BY <1>1, Invariance, PTL
=============================================================================
