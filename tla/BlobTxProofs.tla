---------------------------- MODULE BlobTxProofs ----------------------------
(***************************************************************************)
(* Proofs about BlobTx, for every number of transactions, offsets and      *)
(* readers, every limit on what is staged and every set of faults.         *)
(***************************************************************************)
EXTENDS BlobTx, TLAPS

(* The history of a key grows. *)
LEMMA AppendHistory ==
    ASSUME NEW h \in History, NEW t \in Value, NEW v \in Value
    PROVE  Append(h, [tx |-> t, val |-> v]) \in History
  <1>1. Append(h, [tx |-> t, val |-> v]) \in Seq([tx : Value, val : Value])
    BY DEF History
  <1>2. Len(Append(h, [tx |-> t, val |-> v])) = Len(h) + 1
    BY DEF History
  <1>3. Len(h) \in Nat /\ Len(<<>>) = 0
    BY DEF History
  <1> QED BY <1>1, <1>2, <1>3 DEF History

(* A DM operation keeps the types of the commit log and the catalogue.     *)
LEMMA ExecuteType ==
    ASSUME TypeOK, NEW m \in Write
    PROVE  /\ Execute(m).res \in Outcome
           /\ Execute(m).log \in [Tx -> LogEntry]
           /\ Execute(m).cat \in [Key -> History]
  <1>1. ASSUME NEW t \in Tx, NEW keys \in SUBSET Key, NEW v \in Value
        PROVE  Written(t, keys, v) \in [Key -> History]
    <2>1. ASSUME NEW k \in Key
          PROVE  Append(cat[k], [tx |-> t, val |-> v]) \in History
      BY AppendHistory DEF TypeOK, Value
    <2> QED BY <2>1 DEF Written, TypeOK
  <1>2. /\ m.tx \in Tx
        /\ m.op \in {"update", "once"} => m.off \in Offset
        /\ m.op \in {"start", "update", "delete", "commit", "once"}
    BY DEF Write
  <1>3. /\ log \in [Tx -> LogEntry] /\ cat \in [Key -> History]
        /\ {"ok", "exists", "notStarted", "notFound"} \subseteq Outcome
    BY DEF TypeOK, Outcome
  <1>4. CASE m.op = "start"
    <2>1. Execute(m) = StartTx(m.tx)
      BY <1>4 DEF Execute
    <2>2. [log EXCEPT ![m.tx].open = TRUE] \in [Tx -> LogEntry]
      BY <1>2, <1>3 DEF LogEntry
    <2> QED BY <1>3, <2>1, <2>2 DEF StartTx
  <1>5. CASE m.op = "update"
    <2>1. Execute(m) = UpdateTx(m.tx, m.off)
      BY <1>5 DEF Execute
    <2>2. [log EXCEPT ![m.tx].offs = @ \cup {m.off}] \in [Tx -> LogEntry]
      BY <1>2, <1>3, <1>5 DEF LogEntry
    <2> QED BY <1>3, <2>1, <2>2 DEF UpdateTx
  <1>6. CASE m.op = "delete"
    <2>1. Execute(m) = DeleteTx(m.tx)
      BY <1>6 DEF Execute
    <2>2. [log EXCEPT ![m.tx].del = TRUE] \in [Tx -> LogEntry]
      BY <1>2, <1>3 DEF LogEntry
    <2> QED BY <1>3, <2>1, <2>2 DEF DeleteTx
  <1>7. CASE m.op = "commit"
    <2>1. Execute(m) = CommitTx(m.tx)
      BY <1>7 DEF Execute
    <2>2. [log EXCEPT ![m.tx] = NoLog] \in [Tx -> LogEntry]
      BY <1>3 DEF LogEntry, NoLog
    <2>3. /\ Written(m.tx, log[m.tx].offs \cup {Desc}, m.tx) \in [Key -> History]
          /\ Written(m.tx, Key, Null) \in [Key -> History]
      BY <1>1, <1>2, <1>3 DEF LogEntry, Key, Value
    <2>4. CASE ~log[m.tx].open
      BY <1>3, <2>1, <2>4 DEF CommitTx
    <2>5. CASE log[m.tx].open
      <3>1. /\ Execute(m).res \in {"ok", "notFound"}
            /\ Execute(m).log = [log EXCEPT ![m.tx] = NoLog]
            /\ Execute(m).cat \in {Written(m.tx, log[m.tx].offs \cup {Desc}, m.tx),
                                   Written(m.tx, Key, Null), cat}
        BY <2>1, <2>5 DEF CommitTx
      <3> QED BY <1>3, <2>2, <2>3, <3>1
    <2> QED BY <2>4, <2>5
  <1>8. CASE m.op = "once"
    <2>1. Execute(m) = UpdateOnce(m.tx, m.off)
      BY <1>8 DEF Execute
    <2>2. Written(m.tx, {m.off, Desc}, m.tx) \in [Key -> History]
      BY <1>1, <1>2, <1>8 DEF Key, Value
    <2> QED BY <1>3, <2>1, <2>2 DEF UpdateOnce
  <1> QED BY <1>2, <1>4, <1>5, <1>6, <1>7, <1>8

(* A request sent is a write request.                                      *)
LEMMA SendType ==
    ASSUME TypeOK, NEW op, NEW t, NEW o, Send(op, t, o),
           [op |-> op, tx |-> t, off |-> o] \in Write
    PROVE  queue' \in Seq(Write)
  BY DEF TypeOK, Send

(* Changes of one put.                                                     *)
LEMMA PutType ==
    ASSUME TypeOK, NEW t \in Tx, NEW o \in Offset
    PROVE  /\ \A q \in Put : [put EXCEPT ![t][o] = q] \in [Tx -> [Offset -> Put]]
           /\ \A res \in Result : /\ [put[t][o] EXCEPT !.dm = res] \in Put
                                  /\ [put[t][o] EXCEPT !.sm = res] \in Put
           /\ [put EXCEPT ![t][o].sm = "wait"] \in [Tx -> [Offset -> Put]]
           /\ [put EXCEPT ![t][o].told = "err"] \in [Tx -> [Offset -> Put]]
  <1>1. put[t][o] \in Put
    BY DEF TypeOK
  <1>2. /\ \A res \in Result : /\ [put[t][o] EXCEPT !.dm = res] \in Put
                               /\ [put[t][o] EXCEPT !.sm = res] \in Put
        /\ [put[t][o] EXCEPT !.told = "err"] \in Put
    BY <1>1 DEF Put
  <1>3. \A q \in Put : [put EXCEPT ![t][o] = q] \in [Tx -> [Offset -> Put]]
    BY DEF TypeOK
  <1>4. /\ [put EXCEPT ![t][o].sm = "wait"]
             = [put EXCEPT ![t][o] = [put[t][o] EXCEPT !.sm = "wait"]]
        /\ [put EXCEPT ![t][o].told = "err"]
             = [put EXCEPT ![t][o] = [put[t][o] EXCEPT !.told = "err"]]
    BY DEF TypeOK
  <1>5. "wait" \in Result
    BY DEF Result
  <1> QED BY <1>2, <1>3, <1>4, <1>5

(* A put that got an answer, and what becomes of its transaction.          *)
LEMMA PutBlobCbType ==
    ASSUME TypeOK, NEW t \in Tx, NEW o \in Offset, NEW p \in Put,
           NEW res \in {"ok", "err"}, PutBlobCb(t, o, p, res)
    PROVE  put' \in [Tx -> [Offset -> Put]] /\ txMap' \in [Tx -> Descriptor]
  <1>1. [p EXCEPT !.told = res] \in Put
    BY DEF Put
  <1>2. ApplyPut(t, o) \in [Tx -> Descriptor]
    BY DEF ApplyPut, TypeOK, Descriptor
  <1>3. [txMap EXCEPT ![t] = NoTx] \in [Tx -> Descriptor]
    BY DEF TypeOK, Descriptor, NoTx
  <1>4. ASSUME NEW q \in Put
        PROVE  [put EXCEPT ![t][o] = q] \in [Tx -> [Offset -> Put]]
    BY DEF TypeOK
  <1>5. txMap \in [Tx -> Descriptor]
    BY DEF TypeOK
  <1>6. CASE "wait" \in {p.dm, p.sm}
    BY <1>4, <1>5, <1>6 DEF PutBlobCb
  <1>7. CASE ~("wait" \in {p.dm, p.sm})
    BY <1>1, <1>2, <1>3, <1>4, <1>5, <1>7 DEF PutBlobCb
  <1> QED BY <1>6, <1>7

(* The cache stays one.                                                    *)
LEMMA CacheType ==
    ASSUME TypeOK
    PROVE  /\ \A t \in Tx, keys \in SUBSET Key : CachePut(t, keys) =>
                cache' \in [Key -> Entry] /\ torn' \subseteq Key
           /\ \A keys \in SUBSET Key : CacheRemove(keys) =>
                cache' \in [Key -> Entry] /\ torn' \subseteq Key
           /\ \A keys \in SUBSET Key, vals \in [Key -> Value] :
                AddAll(cache, keys, vals, "dirty") \in [Key -> Entry]
           /\ \A t \in Tx, keys \in SUBSET Key : Acknowledge(t, keys) =>
                acked' \in [Key -> Nat]
  <1>1. ASSUME NEW keys \in SUBSET Key, NEW vals \in [Key -> Value],
               NEW s \in {"dirty", "clean"}
        PROVE  AddAll(cache, keys, vals, s) \in [Key -> Entry]
    <2>1. ASSUME NEW k \in Key
          PROVE  Add(cache, k, vals[k], s)[k] \in Entry
      BY DEF Add, TypeOK, Entry
    <2> QED BY <2>1 DEF AddAll, TypeOK
  <1>2. ASSUME NEW t \in Tx
        PROVE  [k \in Key |-> t] \in [Key -> Value]
    BY DEF Value
  <1>3. NoEntry \in Entry
    BY DEF NoEntry, Entry, Value
  <1>4. ASSUME NEW t \in Tx, NEW k \in Key
        PROVE  Position(t, k) \in Nat
    <2>1. DOMAIN cat[k] \subseteq Nat
      BY DEF TypeOK, History
    <2> QED BY <2>1 DEF Position
  <1>5. ASSUME NEW t \in Tx, NEW keys \in SUBSET Key, CachePut(t, keys)
        PROVE  cache' \in [Key -> Entry] /\ torn' \subseteq Key
    <2>1. Unstaged(t, keys) \subseteq Key
      BY DEF Unstaged, Whole, Key
    <2> QED BY <1>1, <1>2, <1>5, <2>1 DEF CachePut, TypeOK
  <1>6. ASSUME NEW keys \in SUBSET Key, CacheRemove(keys)
        PROVE  cache' \in [Key -> Entry] /\ torn' \subseteq Key
    BY <1>3, <1>6 DEF CacheRemove, TypeOK
  <1>7. ASSUME NEW t \in Tx, NEW keys \in SUBSET Key, Acknowledge(t, keys)
        PROVE  acked' \in [Key -> Nat]
    BY <1>4, <1>7 DEF Acknowledge, TypeOK
  <1> QED BY <1>1, <1>5, <1>6, <1>7

(* The catalogue's current value of a key is a value.                      *)
LEMMA CurrentType ==
    ASSUME TypeOK, NEW k \in Key
    PROVE  Current(k) \in Value
  <1> DEFINE S == [tx : Value, val : Value]
             h == cat[k]
  <1>1. h \in Seq(S) /\ h # <<>>
    BY DEF TypeOK, History
  <1>2. h[Len(h)] \in S
    <2> HIDE DEF S, h
    <2> QED BY <1>1
  <1> QED BY <1>2 DEF Current

(* A read that asks the SMs for objects stays well formed.                 *)
LEMMA GetObjectsType ==
    ASSUME TypeOK, NEW r \in Reader, NEW rd \in Read, GetObjects(r, rd)
    PROVE  read' \in [Reader -> Read] /\ smGets' \subseteq Object
  <1>1. PICK miss \in SUBSET Object :
            /\ read' = [read EXCEPT ![r] = [rd EXCEPT !.st = "obj", !.wait = miss]]
            /\ smGets' = smGets \cup {x \in miss : \A q \in Reader : x \notin read[q].wait}
    BY DEF GetObjects
  <1>2. [rd EXCEPT !.st = "obj", !.wait = miss] \in Read
    BY DEF Read
  <1> QED BY <1>1, <1>2 DEF TypeOK

(* The types of all variables hold in every reachable state of an AM, a DM *)
(* and the SMs that run transactions.                                      *)
THEOREM TypeCorrect == Spec => []TypeOK
  <1>1. Init => TypeOK
    <2> SUFFICES ASSUME Init PROVE TypeOK
      OBVIOUS
    <2>1. <<[tx |-> Old, val |-> Old]>> \in History
      BY DEF History, Value
    <2>2. NoRead \in Read
      BY DEF NoRead, Read, Value
    <2>3. /\ NoPut \in Put /\ NoTx \in Descriptor
          /\ NoEntry \in Entry /\ NoLog \in LogEntry
      BY DEF NoPut, Put, Result, NoTx, Descriptor, NoEntry, Entry, Value, NoLog, LogEntry
    <2> QED BY <2>1, <2>2, <2>3 DEF Init, TypeOK, Phase, Object
  <1>2. TypeOK /\ [Next]_vars => TypeOK'
    <2> SUFFICES ASSUME TypeOK, [Next]_vars PROVE TypeOK'
      OBVIOUS
    <2>1. ASSUME NEW t \in Tx, StartBlobTx(t) PROVE TypeOK'
      <3>1. queue' \in Seq(Write)
        BY <2>1, SendType DEF StartBlobTx, Write
      <3> QED BY <2>1, <3>1 DEF StartBlobTx, TypeOK, Phase, ghosts, dmVars
    <2>2. ASSUME NEW t \in Tx, DeleteBlob(t) PROVE TypeOK'
      <3>1. queue' \in Seq(Write)
        BY <2>2, SendType DEF DeleteBlob, Write
      <3>2. txMap' \in [Tx -> Descriptor]
        BY <2>2 DEF DeleteBlob, TypeOK, Descriptor
      <3> QED BY <2>2, <3>1, <3>2 DEF DeleteBlob, TypeOK, Phase, ghosts, dmVars
    <2>3. ASSUME NEW t \in Tx, CommitBlobTx(t) PROVE TypeOK'
      <3>1. queue' \in Seq(Write)
        BY <2>3, SendType DEF CommitBlobTx, Write, TypeOK
      <3>2. phase' \in [Tx -> Phase] /\ told' \in [Tx -> {"none", "ok", "err"}]
        BY <2>3 DEF CommitBlobTx, TypeOK, Phase
      <3> QED BY <2>3, <3>1, <3>2 DEF CommitBlobTx, TypeOK, ghosts, dmVars
    <2>4. ASSUME NEW t \in Tx, AbortBlobTx(t) PROVE TypeOK'
      <3>1. txMap' \in [Tx -> Descriptor]
        BY <2>4 DEF AbortBlobTx, TypeOK, Descriptor, NoTx
      <3> QED BY <2>4, <3>1 DEF AbortBlobTx, TypeOK, Phase, ghosts, dmVars
    <2>5. ASSUME NEW t \in Tx, NEW o \in Offset, PutBlob(t, o) PROVE TypeOK'
      <3>1. queue' \in Seq(Write)
        BY <2>5, SendType DEF PutBlob, Write, TypeOK
      <3>2. put' \in [Tx -> [Offset -> Put]]
        <4>1. [dm |-> "wait", sm |-> "wait", told |-> "no"] \in Put
          BY DEF Put, Result
        <4>2. /\ [put EXCEPT ![t][o] = [dm |-> "wait", sm |-> "wait", told |-> "no"]]
                   \in [Tx -> [Offset -> Put]]
              /\ [put EXCEPT ![t][o].told = "err"] \in [Tx -> [Offset -> Put]]
          BY <4>1, PutType
        <4> QED BY <2>5, <4>2 DEF PutBlob
      <3> QED BY <2>5, <3>1, <3>2 DEF PutBlob, TypeOK, ghosts, dmVars
    <2>6. ASSUME NEW t \in Tx, NEW o \in Offset, PutBlobOnce(t, o) PROVE TypeOK'
      <3>1. put' \in [Tx -> [Offset -> Put]]
        BY <2>6, PutType DEF PutBlobOnce
      <3> QED BY <2>6, <3>1 DEF PutBlobOnce, TypeOK, Phase, ghosts, dmVars
    <2>7. ASSUME NEW t \in Tx, NEW o \in Offset, PutObjectCb(t, o) PROVE TypeOK'
      <3>1. PICK res \in {"ok", "err"} : PutObjectCb(t, o)!2!(res)
        BY <2>7 DEF PutObjectCb
      <3>2. [put[t][o] EXCEPT !.sm = res] \in Put
        BY PutType DEF Result
      <3>3. put' \in [Tx -> [Offset -> Put]] /\ txMap' \in [Tx -> Descriptor]
        <4>1. CASE phase[t] # "once"
          BY <3>1, <3>2, <4>1, PutBlobCbType
        <4>2. CASE phase[t] = "once"
          <5>1. [put EXCEPT ![t][o] = [put[t][o] EXCEPT !.sm = res]]
                  \in [Tx -> [Offset -> Put]]
            BY <3>2, PutType
          <5> QED BY <3>1, <4>2, <5>1 DEF TypeOK
        <4> QED BY <4>1, <4>2
      <3>4. queue' \in Seq(Write)
        BY <3>1, SendType DEF Write, TypeOK
      <3>5. phase' \in [Tx -> Phase] /\ told' \in [Tx -> {"none", "ok", "err"}]
        BY <3>1 DEF TypeOK, Phase
      <3>6. sm' \subseteq Object /\ objects' \subseteq Object /\ faults' \in Nat
        BY <3>1 DEF TypeOK, Object
      <3> QED BY <2>7, <3>3, <3>4, <3>5, <3>6 DEF PutObjectCb, TypeOK, ghosts, dmVars
    <2>8. CASE DmExecute
      <3>1. Head(queue) \in Write /\ queue' \in Seq(Write)
        BY <2>8 DEF DmExecute, TypeOK
      <3>2. ASSUME NEW res \in Outcome, Answer(Head(queue), res)
            PROVE  answers' \subseteq WriteAnswer
        BY <3>1, <3>2 DEF Answer, Write, WriteAnswer, TypeOK
      <3>3. log' \in [Tx -> LogEntry] /\ cat' \in [Key -> History]
        BY <2>8, <3>1, ExecuteType DEF DmExecute, dmVars, TypeOK
      <3>4. answers' \subseteq WriteAnswer /\ faults' \in Nat
        <4>1. Execute(Head(queue)).res \in Outcome /\ "failed" \in Outcome
          BY <3>1, ExecuteType DEF Outcome
        <4> QED BY <2>8, <3>2, <4>1 DEF DmExecute, TypeOK
      <3> QED BY <2>8, <3>1, <3>3, <3>4 DEF DmExecute, TypeOK, amVars, ghosts
    <2>9. CASE DmAnswer
      <3>1. PICK a \in answers : DmAnswer!(a)
        BY <2>9 DEF DmAnswer
      <3>2. a \in WriteAnswer
        BY DEF TypeOK
      <3>3. CASE StartBlobTxCb(a)
        <4>1. a.tx \in Tx
          BY <3>2 DEF WriteAnswer
        <4>2. txMap' \in [Tx -> Descriptor]
          <5>1. [op |-> "put", staged |-> {}] \in Descriptor
            BY DEF Descriptor
          <5> QED BY <3>3, <5>1 DEF StartBlobTxCb, TypeOK
        <4> QED BY <3>1, <3>3, <4>1, <4>2 DEF StartBlobTxCb, TypeOK, Phase, ghosts, dmVars
      <3>4. CASE UpdateCatalogCb(a)
        <4>1. a.tx \in Tx /\ a.off \in Offset
          BY <3>2, <3>4 DEF WriteAnswer, UpdateCatalogCb
        <4>2. ASSUME NEW res \in {"ok", "err"}
              PROVE  [put[a.tx][a.off] EXCEPT !.dm = res] \in Put
          BY <4>1, PutType DEF Result
        <4>3. put' \in [Tx -> [Offset -> Put]] /\ txMap' \in [Tx -> Descriptor]
          BY <3>4, <4>1, <4>2, PutBlobCbType DEF UpdateCatalogCb
        <4> QED BY <3>1, <3>4, <4>3 DEF UpdateCatalogCb, TypeOK, ghosts, dmVars
      <3>5. CASE DeleteBlobCb(a)
        <4>1. txMap' \in [Tx -> Descriptor]
          BY <3>5 DEF DeleteBlobCb, TypeOK, Descriptor, NoTx
        <4> QED BY <3>1, <3>5, <4>1 DEF DeleteBlobCb, TypeOK, Phase, ghosts, dmVars
      <3>6. CASE CommitBlobTxCb(a)
        <4>1. a.tx \in Tx /\ txMap[a.tx].staged \subseteq Offset
          BY <3>2 DEF WriteAnswer, TypeOK, Descriptor
        <4>2. txMap' \in [Tx -> Descriptor]
          BY <3>6 DEF CommitBlobTxCb, TypeOK, Descriptor, NoTx
        <4>3. phase' \in [Tx -> Phase] /\ told' \in [Tx -> {"none", "ok", "err"}]
          BY <3>6, <4>1 DEF CommitBlobTxCb, TypeOK, Phase
        <4>4. txMap[a.tx].staged \cup {Desc} \in SUBSET Key /\ Whole(a.tx) \in SUBSET Key
          BY <4>1 DEF Whole, Key
        <4>5. /\ cache' \in [Key -> Entry] /\ torn' \subseteq Key
              /\ acked' \in [Key -> Nat] /\ objects' \subseteq Object
          BY <3>6, <4>1, <4>4, CacheType DEF CommitBlobTxCb, TypeOK, Object, ghosts
        <4> QED BY <3>1, <3>6, <4>2, <4>3, <4>5 DEF CommitBlobTxCb, TypeOK, dmVars
      <3>7. CASE PutBlobOnceCb(a)
        <4>1. a.tx \in Tx /\ {a.off, Desc} \in SUBSET Key
          BY <3>2, <3>7 DEF WriteAnswer, PutBlobOnceCb, Key
        <4>2. /\ cache' \in [Key -> Entry] /\ torn' \subseteq Key
              /\ acked' \in [Key -> Nat]
          BY <3>7, <4>1, CacheType DEF PutBlobOnceCb, TypeOK, ghosts
        <4> QED BY <3>1, <3>7, <4>1, <4>2 DEF PutBlobOnceCb, TypeOK, Phase, dmVars
      <3> QED BY <3>1, <3>3, <3>4, <3>5, <3>6, <3>7
    <2>10. ASSUME NEW r \in Reader, NEW want \in SUBSET Key, GetBlob(r, want)
           PROVE  TypeOK'
      <3> DEFINE Cached(keys) == [k \in Key |-> IF k \in keys THEN cache[k].val ELSE Null]
                 rd == [NoRead EXCEPT !.want = want, !.ids = Cached(want),
                                !.floor = [k \in Key |-> IF k \in want THEN acked[k] ELSE 1],
                                !.exempt = torn \cap want]
                 dm == [rd EXCEPT !.st = "dm", !.fromDm = TRUE,
                                  !.ids = Cached(want \cup {Desc}),
                                  !.found = cache[Desc] # NoEntry]
      <3>1. \A keys : Cached(keys) \in [Key -> Value]
        BY DEF TypeOK, Entry, Value
      <3>2. [k \in Key |-> IF k \in want THEN acked[k] ELSE 1] \in [Key -> Nat]
        BY DEF TypeOK
      <3>3. rd \in Read /\ dm \in Read
        BY <3>1, <3>2 DEF NoRead, Read, TypeOK
      <3>4. read' \in [Reader -> Read] /\ smGets' \subseteq Object
        <4>1. CASE GetObjects(r, rd)
          BY <3>3, <4>1, GetObjectsType
        <4>2. CASE read' = [read EXCEPT ![r] = dm] /\ UNCHANGED smGets
          BY <3>3, <4>2 DEF TypeOK
        <4> HIDE DEF rd, dm
        <4> QED BY <2>10, <4>1, <4>2 DEF GetBlob, rd, dm
      <3> QED BY <2>10, <3>4 DEF GetBlob, TypeOK, amVars, ghosts, dmVars
    <2>11. ASSUME NEW r \in Reader, DmQuery(r) PROVE TypeOK'
      <3>1. \A k \in Key : Current(k) \in Value
        BY CurrentType
      <3>2. read[r] \in Read
        BY DEF TypeOK
      <3>3. [k \in Key |-> IF k \in read[r].want \cup {Desc} /\ Current(k) # Null
                           THEN Current(k) ELSE read[r].ids[k]] \in [Key -> Value]
        BY <3>1, <3>2 DEF Read
      <3> DEFINE ids == [k \in Key |->
                     IF k \in read[r].want \cup {Desc} /\ Current(k) # Null
                     THEN Current(k) ELSE read[r].ids[k]]
                 found == read[r].found \/ BlobExists
                 answered == [read[r] EXCEPT !.st = "answered", !.err = ~BlobExists,
                                             !.found = found, !.ids = ids]
                 failed == [read[r] EXCEPT !.st = "answered", !.err = TRUE]
      <3>4. answered \in Read /\ failed \in Read
        <4>1. found \in BOOLEAN /\ (~BlobExists) \in BOOLEAN
          BY DEF BlobExists
        <4> HIDE DEF found, ids
        <4> QED BY <3>2, <3>3, <4>1 DEF Read, ids
      <3>5. \/ read' = [read EXCEPT ![r] = answered] /\ UNCHANGED faults
            \/ read' = [read EXCEPT ![r] = failed] /\ faults' = faults + 1
        BY <2>11 DEF DmQuery
      <3>6. read' \in [Reader -> Read] /\ faults' \in Nat
        <4>1. read \in [Reader -> Read] /\ faults \in Nat
          BY DEF TypeOK
        <4> HIDE DEF answered, failed
        <4>2. [read EXCEPT ![r] = answered] \in [Reader -> Read]
          BY <3>4, <4>1
        <4>3. [read EXCEPT ![r] = failed] \in [Reader -> Read]
          BY <3>4, <4>1
        <4> QED BY <3>5, <4>1, <4>2, <4>3
      <3>7. torn' \subseteq Key
        <4>1. read[r].want \subseteq Key
          BY <3>2 DEF Read
        <4>2. NotLearnt(r) \subseteq Key
          <5>1. [read[r] EXCEPT !.err = TRUE].want = read[r].want
            BY <3>2 DEF Read
          <5> QED BY <4>1, <5>1 DEF NotLearnt, Cacheable, Key
        <4> QED BY <2>11, <4>2 DEF DmQuery, TypeOK
      <3> QED BY <2>11, <3>6, <3>7 DEF DmQuery, TypeOK, amVars, dmVars
    <2>12. ASSUME NEW r \in Reader, GetOffsetsCb(r) PROVE TypeOK'
      <3>1. read[r] \in Read
        BY DEF TypeOK
      <3>2. read' \in [Reader -> Read] /\ smGets' \subseteq Object
        <4>1. CASE GetObjects(r, read[r])
          BY <3>1, <4>1, GetObjectsType
        <4>2. CASE read' = [read EXCEPT ![r].st = "obj"] /\ UNCHANGED smGets
          BY <3>1, <4>2 DEF TypeOK, Read
        <4> QED BY <2>12, <4>1, <4>2 DEF GetOffsetsCb
      <3> QED BY <2>12, <3>2 DEF GetOffsetsCb, TypeOK, amVars, ghosts, dmVars
    <2>13. ASSUME NEW r \in Reader, GetBlobCb(r) PROVE TypeOK'
      <3>1. read[r] \in Read /\ NoRead \in Read
        BY DEF TypeOK, NoRead, Read, Value
      <3>2. Cacheable(read[r]) \in SUBSET Key /\ read[r].ids \in [Key -> Value]
        BY <3>1 DEF Cacheable, Read, Key
      <3>3. cache' \in [Key -> Entry]
        BY <2>13, <3>2, CacheType DEF GetBlobCb
      <3> QED BY <2>13, <3>1, <3>3 DEF GetBlobCb, TypeOK, ghosts, dmVars
    <2>14. ASSUME NEW x \in Object, GetObjectCb(x) PROVE TypeOK'
      <3>1. PICK ok \in BOOLEAN : GetObjectCb(x)!3!(ok)
        BY <2>14 DEF GetObjectCb
      <3>2. ASSUME NEW r \in Reader
            PROVE  [read[r] EXCEPT !.wait = @ \ {x}, !.err = @ \/ ~ok] \in Read
        <4>1. read[r] \in Read
          BY DEF TypeOK
        <4>2. (read[r].err \/ ~ok) \in BOOLEAN /\ read[r].wait \ {x} \in SUBSET Object
          BY <4>1 DEF Read
        <4> QED BY <4>1, <4>2 DEF Read
      <3>3. read' \in [Reader -> Read]
        BY <3>1, <3>2 DEF TypeOK
      <3>4. objects' \subseteq Object
        BY <3>1, Zenon DEF TypeOK
      <3>5. faults' \in {faults, faults + 1}
        BY <3>1
      <3>6. faults' \in Nat
        BY <3>5 DEF TypeOK
      <3> QED BY <2>14, <3>3, <3>4, <3>6 DEF GetObjectCb, TypeOK, ghosts, dmVars
    <2>15. ASSUME NEW k \in Key, Evict(k) PROVE TypeOK'
      <3>1. cache' \in [Key -> Entry] /\ torn' \subseteq Key
        BY <2>15, CacheType DEF Evict
      <3> QED BY <2>15, <3>1 DEF Evict, TypeOK, dmVars
    <2>16. CASE UNCHANGED vars
      BY <2>16 DEF vars, TypeOK
    <2> QED BY <2>1, <2>2, <2>3, <2>4, <2>5, <2>6, <2>7, <2>8, <2>9, <2>10,
               <2>11, <2>12, <2>13, <2>14, <2>15, <2>16 DEF Next
  <1> QED BY <1>1, <1>2, PTL DEF Spec
-----------------------------------------------------------------------------
(* FAILED PUTS                                                             *)
(* A put is two requests, a transaction several, and the answers come in   *)
(* any order, so that FailedPutNeverCommits is not inductive: it needs to  *)
(* know which requests can still be answered.                              *)

(* The request that was answered, and all requests a client waits for      *)
Ask(a) == [op |-> a.op, tx |-> a.tx, off |-> a.off]
Flying == {queue[i] : i \in DOMAIN queue} \cup {Ask(a) : a \in answers}

(* No request is under way twice: it waits at the DM or was answered, once *)
Unique ==
    /\ \A i, j \in DOMAIN queue : queue[i] = queue[j] => i = j
    /\ \A i \in DOMAIN queue, a \in answers : queue[i] # Ask(a)
    /\ \A a, b \in answers : Ask(a) = Ask(b) => a = b

(* The client of a request that is under way waits for it                  *)
Awaited(m) ==
    /\ m.op = "start" => phase[m.tx] = "starting"
    /\ m.op = "delete" => phase[m.tx] = "deleting"
    /\ m.op = "commit" => phase[m.tx] = "committing"
    /\ m.op = "update" => put[m.tx][m.off].dm = "wait"
    /\ m.op = "once" => phase[m.tx] = "once" /\ put[m.tx][m.off].sm = "ok"

(* A transaction of several requests: it is committed or over only when    *)
(* its puts are answered, and a put that failed closed it                  *)
Regular(t) ==
    /\ phase[t] # "once"
    /\ phase[t] \in {"idle", "starting", "deleting", "deleted"} =>
         \A o \in Offset : put[t][o] = NoPut
    /\ phase[t] \in {"idle", "starting", "ended"} => ~Open(t)
    /\ phase[t] \in {"committing", "ended"} => Answered(t)
    /\ \A o \in Offset :
        /\ put[t][o].told # "no" => put[t][o].dm # "wait" /\ put[t][o].sm # "wait"
        /\ put[t][o].told = "err" => ~Open(t) /\ phase[t] # "committing"

(* A putBlobOnce: one offset, and no put that is answered on its own       *)
Single(t) ==
    /\ phase[t] \in {"idle", "once", "ended"}
    /\ \A o \in Offset :
        /\ put[t][o].told = "no" /\ put[t][o].dm = "no"
        /\ phase[t] = "idle" => put[t][o].sm = "no"
        /\ phase[t] = "ended" => put[t][o].sm # "wait"
        /\ \A p \in Offset : "no" \in {put[t][o].sm, put[t][p].sm} \/ o = p

(* A transaction in the catalogue is being committed or over, and none of  *)
(* its puts was answered with an error                                     *)
Committed(t) ==
    (\E k \in Key : \E i \in DOMAIN cat[k] : cat[k][i].tx = t) =>
        /\ phase[t] \in {"committing", "ended"}
        /\ \A o \in Offset : put[t][o].told # "err"

IInv ==
    /\ Unique
    /\ \A m \in Flying : Awaited(m)
    /\ \A t \in Tx \ Once : Regular(t) /\ Committed(t)
    /\ \A t \in Once : Single(t)

(* How a request comes and goes.                                           *)
LEMMA SendFlying ==
    ASSUME TypeOK, Unique, NEW m \in Write, m \notin Flying,
           queue' = Append(queue, m), answers' = answers
    PROVE  Unique' /\ Flying' = Flying \cup {m}
  <1>1. queue \in Seq(Write) /\ queue' \in Seq(Write) /\ Len(queue) \in Nat
        /\ Len(queue') = Len(queue) + 1
        /\ \A i \in 1 .. Len(queue) : queue'[i] = queue[i]
        /\ queue'[Len(queue) + 1] = m
    BY DEF TypeOK
  <1>2. DOMAIN queue = 1 .. Len(queue) /\ DOMAIN queue' = 1 .. (Len(queue) + 1)
    BY <1>1
  <1>3. /\ \A i \in DOMAIN queue' : i \in DOMAIN queue \/ i = Len(queue) + 1
        /\ \A i \in DOMAIN queue : i \in DOMAIN queue' /\ queue'[i] = queue[i]
        /\ Len(queue) + 1 \in DOMAIN queue'
    BY <1>1, <1>2
  <1>4. Flying' = Flying \cup {m}
    BY <1>1, <1>3 DEF Flying
  <1>5. Unique'
    BY <1>1, <1>3 DEF Unique, Flying
  <1> QED BY <1>4, <1>5

(* What the DM executes stays under way: the request becomes its answer.   *)
LEMMA ExecuteFlying ==
    ASSUME TypeOK, Unique, DmExecute
    PROVE  /\ Head(queue) \in Write /\ Head(queue) \in Flying
           /\ Unique' /\ Flying' = Flying
  <1>1. /\ queue \in Seq(Write) /\ queue # <<>> /\ queue' = Tail(queue)
        /\ Len(queue) \in Nat \ {0} /\ Head(queue) = queue[1]
    BY DEF TypeOK, DmExecute
  <1>2. /\ Len(queue') = Len(queue) - 1 /\ DOMAIN queue' = 1 .. (Len(queue) - 1)
        /\ \A i \in 1 .. (Len(queue) - 1) : queue'[i] = queue[i + 1]
        /\ DOMAIN queue = 1 .. Len(queue)
    BY <1>1
  <1>3. /\ \A i \in DOMAIN queue' : i + 1 \in DOMAIN queue /\ i + 1 # 1
                                    /\ queue'[i] = queue[i + 1]
        /\ \A i \in DOMAIN queue : i = 1 \/ (i - 1 \in DOMAIN queue'
                                             /\ queue'[i - 1] = queue[i])
        /\ 1 \in DOMAIN queue
    BY <1>1, <1>2
  <1>4. PICK b : answers' = answers \cup {b} /\ Ask(b) = queue[1]
    <2>1. queue[1] \in Write
      BY <1>1
    <2>2. \A res : Ask([op |-> queue[1].op, tx |-> queue[1].tx,
                        off |-> queue[1].off, res |-> res]) = queue[1]
      BY <2>1 DEF Ask, Write
    <2>3. \E res : Answer(queue[1], res)
      BY <1>1 DEF DmExecute
    <2> QED BY <2>2, <2>3 DEF Answer
  <1>5. Flying' = Flying
    <2>1. ASSUME NEW m \in Flying PROVE m \in Flying'
      BY <1>3, <1>4 DEF Flying
    <2>2. ASSUME NEW m \in Flying' PROVE m \in Flying
      BY <1>3, <1>4 DEF Flying
    <2> QED BY <2>1, <2>2
  <1>6. Unique'
    <2>1. ASSUME NEW i \in DOMAIN queue', NEW j \in DOMAIN queue', queue'[i] = queue'[j]
          PROVE  i = j
      <3>1. i + 1 = j + 1
        BY <1>3, <2>1 DEF Unique
      <3> QED BY <1>2, <3>1
    <2>2. ASSUME NEW i \in DOMAIN queue', NEW a \in answers'
          PROVE  queue'[i] # Ask(a)
      BY <1>3, <1>4 DEF Unique
    <2>3. ASSUME NEW a \in answers', NEW c \in answers', Ask(a) = Ask(c)
          PROVE  a = c
      BY <1>3, <1>4, <2>3 DEF Unique
    <2> QED BY <2>1, <2>2, <2>3 DEF Unique, Ask
  <1>7. Head(queue) \in Write /\ Head(queue) \in Flying
    <2>1. queue[1] \in Write
      BY <1>1
    <2>2. queue[1] \in Flying
      BY <1>3 DEF Flying
    <2> QED BY <1>1, <2>1, <2>2
  <1> QED BY <1>5, <1>6, <1>7

(* An answer the AM handles is no longer under way, and was not twice.     *)
LEMMA AnswerFlying ==
    ASSUME Unique, NEW a \in answers, answers' = answers \ {a}, queue' = queue
    PROVE  /\ Ask(a) \in Flying
           /\ Unique' /\ Flying' = Flying \ {Ask(a)}
  <1>1. Unique'
    BY DEF Unique, Ask
  <1>2. ASSUME NEW m \in Flying' PROVE m \in Flying /\ m # Ask(a)
    BY DEF Unique, Flying
  <1>3. ASSUME NEW m \in Flying, m # Ask(a) PROVE m \in Flying'
    BY <1>3 DEF Flying
  <1>4. Ask(a) \in Flying
    BY DEF Flying
  <1> QED BY <1>1, <1>2, <1>3, <1>4

(* What changes when one put does.                                         *)
LEMMA PutChange ==
    ASSUME TypeOK, NEW t \in Tx, NEW o \in Offset, NEW q, 
           put' = [put EXCEPT ![t][o] = q]
    PROVE  /\ put'[t][o] = q
           /\ \A p \in Offset : p # o => put'[t][p] = put[t][p]
           /\ \A u \in Tx : u # t => put'[u] = put[u]
  BY DEF TypeOK

(* A step of transaction t leaves the others alone, and t itself if its    *)
(* commit was sent or it is over.                                          *)
LEMMA OneTransaction ==
    ASSUME TypeOK, IInv, NEW t \in Tx, cat' = cat,
           Unique', \A m \in Flying' : Awaited(m)',
           \A u \in Tx : u # t => /\ phase'[u] = phase[u] /\ put'[u] = put[u]
                                  /\ txMap'[u] = txMap[u],
           t \in Once => Single(t)',
           t \notin Once => /\ Regular(t)'
                            /\ phase[t] \in {"committing", "ended"} =>
                                /\ phase'[t] \in {"committing", "ended"}
                                /\ put'[t] = put[t]
    PROVE  IInv'
  <1>1. ASSUME NEW u \in Tx \ Once PROVE Regular(u)' /\ Committed(u)'
    <2>1. Regular(u) /\ Committed(u)
      BY DEF IInv
    <2>2. CASE u = t
      BY <2>1, <2>2 DEF Committed
    <2>3. CASE u # t
      BY <2>1, <2>3 DEF Regular, Committed, Open, Answered
    <2> QED BY <2>2, <2>3
  <1>2. ASSUME NEW u \in Once PROVE Single(u)'
    <2>1. u \in Tx /\ Single(u)
      BY BlobTxAssumption DEF IInv
    <2>2. CASE u = t
      BY <2>2
    <2>3. CASE u # t
      BY <2>1, <2>3 DEF Single
    <2> QED BY <2>2, <2>3
  <1> QED BY <1>1, <1>2 DEF IInv

(* The answer of one half of a put: the transaction is open, and closed by *)
(* the last answer if that is an error.                                    *)
LEMMA PutAnswered ==
    ASSUME TypeOK, IInv, NEW t \in Tx \ Once, NEW o \in Offset, NEW p \in Put,
           NEW res \in {"ok", "err"}, PutBlobCb(t, o, p, res), phase' = phase,
           "wait" \in {put[t][o].dm, put[t][o].sm}, p.told = put[t][o].told,
           res = "err" => ~(p.dm = "ok" /\ p.sm = "ok")
    PROVE  /\ phase[t] = "open" /\ Regular(t)'
           /\ \A u \in Tx : u # t => put'[u] = put[u] /\ txMap'[u] = txMap[u]
           /\ \A q \in Offset : q # o => put'[t][q] = put[t][q]
           /\ put'[t][o].dm = p.dm /\ put'[t][o].sm = p.sm
  <1>1. Regular(t)
    BY DEF IInv
  <1>2. put[t][o].told = "no" /\ put[t][o] # NoPut
    <2>1. put[t][o] \in Put
      BY DEF TypeOK
    <2> QED BY <1>1, <2>1 DEF Regular, NoPut, Put
  <1>3. phase[t] = "open"
    <2>1. ~Answered(t)
      BY <1>2 DEF Answered
    <2>2. phase[t] \in Phase
      BY DEF TypeOK
    <2> QED BY <1>1, <1>2, <2>1, <2>2 DEF Regular, Phase
  <1>4. PICK q \in Put : /\ put' = [put EXCEPT ![t][o] = q]
                         /\ q.dm = p.dm /\ q.sm = p.sm
                         /\ q.told # "no" => q.dm # "wait" /\ q.sm # "wait"
                         /\ q.told = "err" => txMap' = [txMap EXCEPT ![t] = NoTx]
    <2>1. CASE "wait" \in {p.dm, p.sm}
      <3>1. put' = [put EXCEPT ![t][o] = p] /\ p.told = "no"
        BY <1>2, <2>1 DEF PutBlobCb
      <3> QED BY <3>1
    <2>2. CASE ~("wait" \in {p.dm, p.sm})
      <3> DEFINE q == [p EXCEPT !.told = res]
      <3>1. q \in Put /\ q.dm = p.dm /\ q.sm = p.sm /\ q.told = res
        BY DEF Put
      <3>2. put' = [put EXCEPT ![t][o] = q]
        BY <2>2 DEF PutBlobCb
      <3>3. res = "err" => txMap' = [txMap EXCEPT ![t] = NoTx]
        BY <2>2 DEF PutBlobCb
      <3> HIDE DEF q
      <3> QED BY <2>2, <3>1, <3>2, <3>3
    <2> QED BY <2>1, <2>2
  <1>5. /\ put'[t][o] = q
        /\ \A x \in Offset : x # o => put'[t][x] = put[t][x]
        /\ \A u \in Tx : u # t => put'[u] = put[u]
    BY <1>4, PutChange
  <1>6. /\ \A u \in Tx : u # t => txMap'[u] = txMap[u]
        /\ txMap[t] = NoTx => txMap'[t] = NoTx
    <2>1. txMap' \in {txMap, [txMap EXCEPT ![t] = NoTx], ApplyPut(t, o)}
      BY DEF PutBlobCb
    <2>2. ApplyPut(t, o) \in {txMap, [txMap EXCEPT ![t].staged = @ \cup {o}]}
      BY DEF ApplyPut
    <2>3. txMap[t] = NoTx => ApplyPut(t, o) = txMap
      BY DEF ApplyPut, Open
    <2>4. txMap \in [Tx -> Descriptor]
      BY DEF TypeOK
    <2> QED BY <2>1, <2>2, <2>3, <2>4
  <1>7. Regular(t)'
    <2>1. ASSUME NEW x \in Offset
          PROVE  /\ put'[t][x].told # "no" => put'[t][x].dm # "wait" /\ put'[t][x].sm # "wait"
                 /\ put'[t][x].told = "err" => ~Open(t)'
      <3>1. CASE x = o
        <4>1. q.told = "err" => txMap'[t] = NoTx
          BY <1>4 DEF TypeOK
        <4> QED BY <1>4, <1>5, <3>1, <4>1 DEF Open
      <3>2. CASE x # o
        BY <1>1, <1>5, <1>6, <3>2 DEF Regular, Open
      <3> QED BY <3>1, <3>2
    <2>2. phase'[t] = "open"
      BY <1>3
    <2> QED BY <2>1, <2>2 DEF Regular
  <1> QED BY <1>3, <1>4, <1>5, <1>6, <1>7

(* What is under way is a write request of one of the transactions.        *)
LEMMA FlyingType ==
    ASSUME TypeOK, NEW m \in Flying
    PROVE  m \in Write /\ m.tx \in Tx /\ (m.op \in {"update", "once"} => m.off \in Offset)
  <1>1. \A a \in answers : Ask(a) \in Write
    <2> TAKE a \in answers
    <2>1. a \in WriteAnswer
      BY DEF TypeOK
    <2> QED BY <2>1 DEF WriteAnswer, Write, Ask
  <1>2. \A i \in DOMAIN queue : queue[i] \in Write
    BY DEF TypeOK
  <1>3. m \in Write
    BY <1>1, <1>2 DEF Flying
  <1> QED BY <1>3 DEF Write

(* A request the client of t sends is not under way yet, and the client    *)
(* waits for it and for what it waited for before.                         *)
LEMMA Sent ==
    ASSUME TypeOK, IInv, NEW t \in Tx, NEW m \in Write, m.tx = t,
           queue' = Append(queue, m), answers' = answers,
           ~Awaited(m), Awaited(m)',
           \A n \in Flying : n.tx = t /\ Awaited(n) => Awaited(n)',
           \A u \in Tx : u # t => phase'[u] = phase[u] /\ put'[u] = put[u]
    PROVE  Unique' /\ \A n \in Flying' : Awaited(n)'
  <1>1. m \notin Flying
    BY DEF IInv
  <1>2. Unique' /\ Flying' = Flying \cup {m}
    BY <1>1, SendFlying DEF IInv
  <1>3. ASSUME NEW n \in Flying, n.tx # t PROVE Awaited(n)'
    <2>1. Awaited(n) /\ n.tx \in Tx
      BY FlyingType DEF IInv
    <2> QED BY <1>3, <2>1 DEF Awaited
  <1> QED BY <1>2, <1>3 DEF IInv

(* An answer takes its request away.                                       *)
LEMMA Got ==
    ASSUME TypeOK, IInv, NEW a \in answers, answers' = answers \ {a}, queue' = queue,
           \A n \in Flying : n.tx = a.tx /\ n # Ask(a) /\ Awaited(n) => Awaited(n)',
           \A u \in Tx : u # a.tx => phase'[u] = phase[u] /\ put'[u] = put[u]
    PROVE  Unique' /\ \A n \in Flying' : Awaited(n)'
  <1>1. Unique' /\ Flying' = Flying \ {Ask(a)}
    BY AnswerFlying DEF IInv
  <1>2. ASSUME NEW n \in Flying, n.tx # a.tx PROVE Awaited(n)'
    <2>1. Awaited(n) /\ n.tx \in Tx
      BY FlyingType DEF IInv
    <2> QED BY <1>2, <2>1 DEF Awaited
  <1> QED BY <1>1, <1>2 DEF IInv

(* Nothing is sent or answered.                                            *)
LEMMA Quiet ==
    ASSUME TypeOK, IInv, NEW t \in Tx, UNCHANGED <<queue, answers>>,
           \A n \in Flying : n.tx = t /\ Awaited(n) => Awaited(n)',
           \A u \in Tx : u # t => phase'[u] = phase[u] /\ put'[u] = put[u]
    PROVE  Unique' /\ \A n \in Flying' : Awaited(n)'
  <1>1. Unique' /\ Flying' = Flying
    BY DEF IInv, Unique, Flying, Ask
  <1>2. ASSUME NEW n \in Flying, n.tx # t PROVE Awaited(n)'
    <2>1. Awaited(n) /\ n.tx \in Tx
      BY FlyingType DEF IInv
    <2> QED BY <1>2, <2>1 DEF Awaited
  <1> QED BY <1>1, <1>2 DEF IInv

(* The requests of the client keep the invariant.                          *)
LEMMA ClientKeeps ==
    ASSUME TypeOK, IInv, NEW t \in Tx,
           \/ StartBlobTx(t) \/ DeleteBlob(t) \/ CommitBlobTx(t) \/ AbortBlobTx(t)
           \/ \E o \in Offset : PutBlob(t, o) \/ PutBlobOnce(t, o)
    PROVE  IInv'
  <1> USE DEF TypeOK
  <1>a. t \notin Once => Regular(t)
    BY DEF IInv
  <1>b. t \in Once => Single(t)
    BY DEF IInv
  <1>1. CASE StartBlobTx(t)
    <2> DEFINE m == [op |-> "start", tx |-> t, off |-> Null]
    <2>1. /\ phase[t] = "idle" /\ phase'[t] = "starting" /\ t \notin Once
          /\ \A u \in Tx : u # t => phase'[u] = phase[u]
          /\ UNCHANGED <<put, txMap, cat, answers>> /\ queue' = Append(queue, m)
      BY <1>1 DEF StartBlobTx, Send, dmVars
    <2>2. Unique' /\ \A n \in Flying' : Awaited(n)'
      <3>1. m \in Write
        BY DEF Write
      <3>2. ~Awaited(m) /\ Awaited(m)'
        BY <2>1 DEF Awaited
      <3>3. ASSUME NEW n \in Flying, n.tx = t, Awaited(n) PROVE Awaited(n)'
        BY <2>1, <3>3 DEF Awaited
      <3> QED BY <2>1, <3>1, <3>2, <3>3, Sent
    <2>3. Regular(t)'
      BY <1>a, <2>1 DEF Regular, Open, Answered
    <2> QED BY <2>1, <2>2, <2>3, OneTransaction
  <1>2. CASE DeleteBlob(t)
    <2> DEFINE m == [op |-> "delete", tx |-> t, off |-> Null]
    <2>1. /\ phase[t] = "open" /\ phase'[t] = "deleting" /\ t \notin Once
          /\ \A u \in Tx : u # t => phase'[u] = phase[u] /\ txMap'[u] = txMap[u]
          /\ \A o \in Offset : put[t][o] = NoPut
          /\ UNCHANGED <<put, cat, answers>> /\ queue' = Append(queue, m)
      BY <1>2, <1>b DEF DeleteBlob, Send, dmVars, Single
    <2>2. Unique' /\ \A n \in Flying' : Awaited(n)'
      <3>1. m \in Write
        BY DEF Write
      <3>2. ~Awaited(m) /\ Awaited(m)'
        BY <2>1 DEF Awaited
      <3>3. ASSUME NEW n \in Flying, n.tx = t, Awaited(n) PROVE Awaited(n)'
        BY <2>1, <3>3 DEF Awaited
      <3> QED BY <2>1, <3>1, <3>2, <3>3, Sent
    <2>3. Regular(t)'
      BY <1>a, <2>1 DEF Regular, NoPut
    <2> QED BY <2>1, <2>2, <2>3, OneTransaction
  <1>3. CASE CommitBlobTx(t)
    <2> DEFINE m == [op |-> "commit", tx |-> t, off |-> Null]
    <2>1. /\ phase[t] \in {"open", "deleted"} /\ t \notin Once /\ Answered(t)
          /\ \A u \in Tx : u # t => phase'[u] = phase[u]
          /\ UNCHANGED <<put, txMap, cat, answers>>
      BY <1>3, <1>b DEF CommitBlobTx, dmVars, Single
    <2>2. CASE Open(t)
      <3>1. phase'[t] = "committing" /\ queue' = Append(queue, m)
        BY <1>3, <2>2 DEF CommitBlobTx, Send
      <3>2. Unique' /\ \A n \in Flying' : Awaited(n)'
        <4>1. m \in Write
          BY DEF Write
        <4>2. ~Awaited(m) /\ Awaited(m)'
          BY <2>1, <3>1 DEF Awaited
        <4>3. ASSUME NEW n \in Flying, n.tx = t, Awaited(n) PROVE Awaited(n)'
          BY <2>1, <4>3 DEF Awaited
        <4> QED BY <2>1, <3>1, <4>1, <4>2, <4>3, Sent
      <3>3. Regular(t)'
        BY <1>a, <2>1, <2>2, <3>1 DEF Regular, Open, Answered
      <3> QED BY <2>1, <3>1, <3>2, <3>3, OneTransaction
    <2>3. CASE ~Open(t)
      <3>1. phase'[t] = "ended" /\ UNCHANGED queue
        BY <1>3, <2>3 DEF CommitBlobTx
      <3>2. Unique' /\ \A n \in Flying' : Awaited(n)'
        <4>1. ASSUME NEW n \in Flying, n.tx = t, Awaited(n) PROVE Awaited(n)'
          BY <2>1, <4>1 DEF Awaited
        <4> QED BY <2>1, <3>1, <4>1, Quiet
      <3>3. Regular(t)'
        BY <1>a, <2>1, <2>3, <3>1 DEF Regular, Open, Answered
      <3> QED BY <2>1, <3>1, <3>2, <3>3, OneTransaction
    <2> QED BY <2>2, <2>3
  <1>4. CASE AbortBlobTx(t)
    <2>1. /\ phase[t] \in {"open", "deleted"} /\ t \notin Once /\ Answered(t)
          /\ phase'[t] = "ended" /\ txMap'[t] = NoTx
          /\ \A u \in Tx : u # t => phase'[u] = phase[u] /\ txMap'[u] = txMap[u]
          /\ UNCHANGED <<put, cat, queue, answers>>
      BY <1>4, <1>b DEF AbortBlobTx, dmVars, Single
    <2>2. Unique' /\ \A n \in Flying' : Awaited(n)'
      <3>1. ASSUME NEW n \in Flying, n.tx = t, Awaited(n) PROVE Awaited(n)'
        BY <2>1, <3>1 DEF Awaited
      <3> QED BY <2>1, <3>1, Quiet
    <2>3. Regular(t)'
      BY <1>a, <2>1 DEF Regular, Open, Answered
    <2> QED BY <2>1, <2>2, <2>3, OneTransaction
  <1>5. ASSUME NEW o \in Offset, PutBlob(t, o) PROVE IInv'
    <2> DEFINE m == [op |-> "update", tx |-> t, off |-> o]
               w == [dm |-> "wait", sm |-> "wait", told |-> "no"]
    <2>1. /\ phase[t] = "open" /\ t \notin Once /\ put[t][o] = NoPut
          /\ UNCHANGED <<phase, txMap, cat, answers>>
      BY <1>5, <1>b DEF PutBlob, dmVars, Single
    <2>2. CASE Open(t)
      <3>1. put' = [put EXCEPT ![t][o] = w] /\ queue' = Append(queue, m)
        BY <1>5, <2>2 DEF PutBlob, Send
      <3>2. /\ put'[t][o].dm = "wait" /\ put'[t][o].told = "no"
            /\ \A p \in Offset : p # o => put'[t][p] = put[t][p]
            /\ \A u \in Tx : u # t => put'[u] = put[u]
        <4>1. /\ put'[t][o] = w
              /\ \A p \in Offset : p # o => put'[t][p] = put[t][p]
              /\ \A u \in Tx : u # t => put'[u] = put[u]
          <5> HIDE DEF TypeOK, w
          <5> QED BY <3>1, PutChange
        <4> QED BY <4>1
      <3>3. Unique' /\ \A n \in Flying' : Awaited(n)'
        <4>1. m \in Write
          BY DEF Write
        <4>2. ~Awaited(m) /\ Awaited(m)'
          BY <2>1, <3>2 DEF Awaited, NoPut
        <4>3. ASSUME NEW n \in Flying, n.tx = t, Awaited(n) PROVE Awaited(n)'
          <5>1. n.op \in {"update", "once"} => n.off \in Offset
            BY FlyingType
          <5> QED BY <2>1, <3>2, <4>3, <5>1 DEF Awaited
        <4> HIDE DEF m
        <4> QED BY <2>1, <3>1, <3>2, <4>1, <4>2, <4>3, Sent DEF m
      <3>4. Regular(t)'
        BY <1>a, <2>1, <3>2 DEF Regular, Open
      <3> QED BY <2>1, <3>2, <3>3, <3>4, OneTransaction
    <2>3. CASE ~Open(t)
      <3>1. put' = [put EXCEPT ![t][o] = [put[t][o] EXCEPT !.told = "err"]] /\ UNCHANGED queue
        BY <1>5, <2>3 DEF PutBlob
      <3>2. /\ put'[t][o].dm = "no" /\ put'[t][o].sm = "no" /\ put'[t][o].told = "err"
            /\ \A p \in Offset : p # o => put'[t][p] = put[t][p]
            /\ \A u \in Tx : u # t => put'[u] = put[u]
        <4> DEFINE e == [put[t][o] EXCEPT !.told = "err"]
        <4>1. /\ put'[t][o] = e
              /\ \A p \in Offset : p # o => put'[t][p] = put[t][p]
              /\ \A u \in Tx : u # t => put'[u] = put[u]
          <5> HIDE DEF TypeOK
          <5>1. put' = [put EXCEPT ![t][o] = e]
            BY <3>1
          <5> HIDE DEF e
          <5> QED BY <5>1, PutChange
        <4>2. e.dm = "no" /\ e.sm = "no" /\ e.told = "err"
          BY <2>1 DEF NoPut
        <4> HIDE DEF e
        <4> QED BY <4>1, <4>2
      <3>3. Unique' /\ \A n \in Flying' : Awaited(n)'
        <4>1. ASSUME NEW n \in Flying, n.tx = t, Awaited(n) PROVE Awaited(n)'
          <5>1. n.op \in {"update", "once"} => n.off \in Offset
            BY FlyingType
          <5>2. put[t][o].dm = "no"
            BY <2>1 DEF NoPut
          <5>3. CASE n.op = "update"
            <6>1. put[t][n.off].dm = "wait"
              BY <4>1, <5>3 DEF Awaited
            <6>2. n.off # o
              BY <5>2, <6>1
            <6>3. put'[t][n.off].dm = "wait"
              BY <3>2, <5>1, <5>3, <6>1, <6>2
            <6> QED BY <4>1, <5>3, <6>3 DEF Awaited
          <5>4. CASE n.op # "update"
            BY <2>1, <4>1, <5>4 DEF Awaited
          <5> QED BY <5>3, <5>4
        <4> QED BY <2>1, <3>1, <3>2, <4>1, Quiet
      <3>4. Regular(t)'
        BY <1>a, <2>1, <2>3, <3>2 DEF Regular, Open
      <3> QED BY <2>1, <3>2, <3>3, <3>4, OneTransaction
    <2> QED BY <2>2, <2>3
  <1>6. ASSUME NEW o \in Offset, PutBlobOnce(t, o) PROVE IInv'
    <2>1. /\ phase[t] = "idle" /\ phase'[t] = "once" /\ t \in Once
          /\ \A u \in Tx : u # t => phase'[u] = phase[u]
          /\ put' = [put EXCEPT ![t][o] = [put[t][o] EXCEPT !.sm = "wait"]]
          /\ UNCHANGED <<txMap, cat, queue, answers>>
      BY <1>6 DEF PutBlobOnce, dmVars
    <2>2. /\ put'[t][o] = [put[t][o] EXCEPT !.sm = "wait"]
          /\ \A p \in Offset : p # o => put'[t][p] = put[t][p]
          /\ \A u \in Tx : u # t => put'[u] = put[u]
      <3> HIDE DEF TypeOK
      <3> QED BY <2>1, PutChange
    <2>3. /\ put'[t][o].dm = put[t][o].dm /\ put'[t][o].told = put[t][o].told
          /\ put'[t][o].sm = "wait"
      <3>1. put[t][o] \in Put
        OBVIOUS
      <3> QED BY <2>2, <3>1 DEF Put
    <2>4. Unique' /\ \A n \in Flying' : Awaited(n)'
      <3>1. ASSUME NEW n \in Flying, n.tx = t, Awaited(n) PROVE Awaited(n)'
        <4>1. n.op \in {"update", "once"} => n.off \in Offset
          BY FlyingType
        <4> QED BY <1>b, <2>1, <2>2, <2>3, <3>1, <4>1 DEF Awaited, Single
      <3> QED BY <2>1, <2>2, <3>1, Quiet
    <2>5. Single(t)'
      BY <1>b, <2>1, <2>2, <2>3 DEF Single
    <2> QED BY <2>1, <2>2, <2>4, <2>5, OneTransaction
  <1> QED BY <1>1, <1>2, <1>3, <1>4, <1>5, <1>6

(* Only a commit, or a putBlobOnce, brings its transaction into the        *)
(* catalogue.                                                              *)
LEMMA ExecuteCat ==
    ASSUME TypeOK, NEW m \in Write, NEW u, NEW k \in Key,
           NEW i \in DOMAIN Execute(m).cat[k], Execute(m).cat[k][i].tx = u
    PROVE  \/ \E j \in DOMAIN cat[k] : cat[k][j].tx = u
           \/ m.tx = u /\ m.op \in {"commit", "once"}
  <1>1. ASSUME NEW t \in Tx, NEW keys, NEW v \in Value, NEW j \in DOMAIN Written(t, keys, v)[k]
        PROVE  \/ j \in DOMAIN cat[k] /\ Written(t, keys, v)[k][j] = cat[k][j]
               \/ Written(t, keys, v)[k][j].tx = t
    <2> DEFINE h == cat[k]
               e == [tx |-> t, val |-> v]
    <2>1. h \in Seq([tx : Value, val : Value]) /\ e \in [tx : Value, val : Value]
      BY DEF TypeOK, History, Value
    <2>2. \A x \in DOMAIN Append(h, e) :
             \/ x \in DOMAIN h /\ Append(h, e)[x] = h[x]
             \/ Append(h, e)[x] = e
      <3> HIDE DEF h, e
      <3> QED BY <2>1
    <2>3. CASE k \in keys
      <3>1. Written(t, keys, v)[k] = Append(h, e)
        BY <2>3 DEF Written
      <3> QED BY <2>2, <3>1
    <2>4. CASE k \notin keys
      BY <2>4 DEF Written
    <2> QED BY <2>3, <2>4
  <1>2. m.tx \in Tx /\ m.op \in {"start", "update", "delete", "commit", "once"}
    BY DEF Write
  <1>3. CASE Execute(m).cat = cat
    BY <1>3
  <1>4. CASE Execute(m).cat # cat
    <2>1. m.op \in {"commit", "once"}
      BY <1>2, <1>4 DEF Execute, StartTx, UpdateTx, DeleteTx
    <2>2. \E keys : \E v \in Value : Execute(m).cat = Written(m.tx, keys, v)
      <3>1. CASE m.op = "commit"
        <4>1. Execute(m) = CommitTx(m.tx)
          BY <3>1 DEF Execute
        <4>2. m.tx \in Value /\ Null \in Value
          BY <1>2 DEF Value
        <4> QED BY <1>4, <4>1, <4>2 DEF CommitTx
      <3>2. CASE m.op = "once"
        <4>1. Execute(m) = UpdateOnce(m.tx, m.off)
          BY <3>2 DEF Execute
        <4>2. m.tx \in Value
          BY <1>2 DEF Value
        <4> QED BY <1>4, <4>1, <4>2 DEF UpdateOnce
      <3> QED BY <2>1, <3>1, <3>2
    <2>3. PICK keys, v : v \in Value /\ Execute(m).cat = Written(m.tx, keys, v)
      BY <2>2
    <2>4. \/ i \in DOMAIN cat[k] /\ Execute(m).cat[k][i] = cat[k][i]
          \/ Execute(m).cat[k][i].tx = m.tx
      BY <1>1, <1>2, <2>3
    <2> QED BY <2>1, <2>4
  <1> QED BY <1>3, <1>4

(* A step of the DM keeps the invariant.                                   *)
LEMMA DmExecuteKeeps ==
    ASSUME TypeOK, IInv, DmExecute
    PROVE  IInv'
  <1>1. /\ Head(queue) \in Write /\ Head(queue) \in Flying
        /\ Unique' /\ Flying' = Flying
    BY ExecuteFlying DEF IInv
  <1>2. UNCHANGED <<phase, put, txMap>>
    BY DEF DmExecute, amVars
  <1>3. \A m \in Flying' : Awaited(m)'
    BY <1>1, <1>2 DEF IInv, Awaited
  <1>4. ASSUME NEW t \in Tx \ Once PROVE Regular(t)'
    BY <1>2 DEF IInv, Regular, Open, Answered
  <1>5. ASSUME NEW t \in Once PROVE Single(t)'
    BY <1>2 DEF IInv, Single
  <1>6. ASSUME NEW t \in Tx \ Once PROVE Committed(t)'
    <2>1. Regular(t) /\ Committed(t) /\ Awaited(Head(queue))
      BY <1>1 DEF IInv
    <2>2. CASE cat' = cat
      BY <1>2, <2>1, <2>2 DEF Committed
    <2>3. CASE cat' = Execute(Head(queue)).cat
      <3> SUFFICES ASSUME NEW k \in Key, NEW i \in DOMAIN cat'[k], cat'[k][i].tx = t
                   PROVE  /\ phase[t] \in {"committing", "ended"}
                          /\ \A o \in Offset : put[t][o].told # "err"
        BY <1>2 DEF Committed
      <3>1. CASE \E j \in DOMAIN cat[k] : cat[k][j].tx = t
        BY <2>1, <3>1 DEF Committed
      <3>2. CASE Head(queue).tx = t /\ Head(queue).op \in {"commit", "once"}
        <4>1. phase[t] = "committing"
          BY <2>1, <3>2 DEF Awaited, Regular
        <4> QED BY <2>1, <4>1 DEF Regular
      <3> QED BY <1>1, <2>3, <3>1, <3>2, ExecuteCat
    <2> QED BY <2>2, <2>3 DEF DmExecute, dmVars
  <1> QED BY <1>1, <1>3, <1>4, <1>5, <1>6 DEF IInv

(* The answer of an SM to a put keeps the invariant.                       *)
LEMMA PutObjectCbKeeps ==
    ASSUME TypeOK, IInv, NEW t \in Tx, NEW o \in Offset, PutObjectCb(t, o)
    PROVE  IInv'
  <1>1. PICK res \in {"ok", "err"} : PutObjectCb(t, o)!2!(res)
    BY DEF PutObjectCb
  <1> DEFINE p == [put[t][o] EXCEPT !.sm = res]
  <1>2. /\ put[t][o].sm = "wait" /\ p \in Put
        /\ p.told = put[t][o].told /\ p.dm = put[t][o].dm /\ p.sm = res
    <2>1. put[t][o] \in Put
      BY DEF TypeOK
    <2> QED BY <2>1 DEF PutObjectCb, Put, Result
  <1>3. UNCHANGED <<cat, answers>>
    BY DEF PutObjectCb, dmVars
  <1>4. /\ t \in Once => Single(t)
        /\ t \notin Once => Regular(t)
    BY DEF IInv
  <1>5. \A n \in Flying : /\ n.tx \in Tx
                          /\ n.op \in {"start", "update", "delete", "commit", "once"}
                          /\ n.op \in {"update", "once"} => n.off \in Offset
    BY FlyingType DEF Write
  <1> HIDE DEF p
  <1>6. CASE phase[t] # "once"
    <2>1. t \notin Once
      BY <1>2, <1>4, <1>6 DEF Single
    <2>2. PutBlobCb(t, o, p, res) /\ UNCHANGED <<phase, queue>>
      BY <1>1, <1>6 DEF p
    <2>3. /\ phase[t] = "open" /\ Regular(t)'
          /\ \A u \in Tx : u # t => put'[u] = put[u] /\ txMap'[u] = txMap[u]
          /\ \A q \in Offset : q # o => put'[t][q] = put[t][q]
          /\ put'[t][o].dm = p.dm
      BY <1>2, <2>1, <2>2, PutAnswered
    <2>4. ASSUME NEW n \in Flying, n.tx = t, Awaited(n) PROVE Awaited(n)'
      <3>1. CASE n.op = "update"
        <4>1. put'[t][n.off].dm = put[t][n.off].dm
          BY <1>2, <1>5, <2>3, <3>1
        <4> QED BY <2>4, <3>1, <4>1 DEF Awaited
      <3>2. CASE n.op # "update"
        BY <2>2, <2>3, <2>4, <3>2 DEF Awaited
      <3> QED BY <3>1, <3>2
    <2>5. Unique' /\ \A n \in Flying' : Awaited(n)'
      BY <1>3, <2>2, <2>3, <2>4, Quiet
    <2> QED BY <1>3, <2>1, <2>2, <2>3, <2>5, OneTransaction
  <1>7. CASE phase[t] = "once"
    <2>1. t \in Once
      BY <1>4, <1>7 DEF Regular
    <2>2. put' = [put EXCEPT ![t][o] = p] /\ UNCHANGED txMap
      BY <1>1, <1>7 DEF p
    <2>3. /\ put'[t][o] = p
          /\ \A q \in Offset : q # o => put'[t][q] = put[t][q] /\ put[t][q].sm = "no"
          /\ \A u \in Tx : u # t => put'[u] = put[u]
      <3>1. /\ put'[t][o] = p
            /\ \A q \in Offset : q # o => put'[t][q] = put[t][q]
            /\ \A u \in Tx : u # t => put'[u] = put[u]
        BY <2>2, PutChange
      <3>2. \A q \in Offset : q # o => put[t][q].sm = "no"
        BY <1>2, <1>4, <2>1 DEF Single
      <3> QED BY <3>1, <3>2
    <2>4. ASSUME NEW n \in Flying, n.tx = t PROVE ~Awaited(n)
      BY <1>2, <1>4, <1>5, <1>7, <2>1, <2>3, <2>4 DEF Awaited, Single
    <2>5. CASE res = "ok"
      <3> DEFINE m == [op |-> "once", tx |-> t, off |-> o]
      <3>1. UNCHANGED phase /\ queue' = Append(queue, m)
        BY <1>1, <1>7, <2>5 DEF Send
      <3>2. Unique' /\ \A n \in Flying' : Awaited(n)'
        <4>1. m \in Write /\ m.tx = t
          BY DEF Write
        <4>2. ~Awaited(m) /\ Awaited(m)'
          BY <1>2, <1>7, <2>3, <2>5, <3>1 DEF Awaited
        <4> HIDE DEF m
        <4> QED BY <1>3, <2>3, <2>4, <3>1, <4>1, <4>2, Sent
      <3>3. Single(t)'
        BY <1>2, <1>4, <1>7, <2>1, <2>3, <2>5, <3>1 DEF Single
      <3> QED BY <1>3, <2>1, <2>2, <2>3, <3>1, <3>2, <3>3, OneTransaction
    <2>6. CASE res = "err"
      <3>1. /\ phase'[t] = "ended" /\ UNCHANGED queue
            /\ \A u \in Tx : u # t => phase'[u] = phase[u]
        BY <1>1, <1>7, <2>6 DEF TypeOK
      <3>2. Unique' /\ \A n \in Flying' : Awaited(n)'
        BY <1>3, <2>3, <2>4, <3>1, Quiet
      <3>3. Single(t)'
        BY <1>2, <1>4, <2>1, <2>3, <2>6, <3>1 DEF Single
      <3> QED BY <1>3, <2>1, <2>2, <2>3, <3>1, <3>2, <3>3, OneTransaction
    <2> QED BY <2>5, <2>6
  <1> QED BY <1>6, <1>7

(* The answer of the DM to a write keeps the invariant.                    *)
LEMMA DmAnswerKeeps ==
    ASSUME TypeOK, IInv, DmAnswer
    PROVE  IInv'
  <1>1. PICK a \in answers : DmAnswer!(a)
    BY DEF DmAnswer
  <1> DEFINE t == a.tx
  <1>2. t \in Tx /\ (a.op \in {"update", "once"} => a.off \in Offset)
    <2>1. a \in WriteAnswer
      BY DEF TypeOK
    <2> QED BY <2>1 DEF WriteAnswer
  <1>3. answers' = answers \ {a} /\ UNCHANGED cat
    BY <1>1 DEF dmVars
  <1>4. /\ Ask(a) \in Flying /\ Awaited(Ask(a))
        /\ Ask(a).op = a.op /\ Ask(a).tx = t /\ Ask(a).off = a.off
    BY DEF Flying, IInv, Ask
  <1>5. \A n \in Flying : /\ n.tx \in Tx
                          /\ n.op \in {"start", "update", "delete", "commit", "once"}
                          /\ n.op \in {"update", "once"} => n.off \in Offset
                          /\ n.op = a.op /\ n.tx = t /\ n.off = a.off => n = Ask(a)
                          /\ n.op \notin {"update", "once"} => n.off = Null
    BY FlyingType DEF Write, Ask
  <1>6. /\ t \in Once => Single(t)
        /\ t \notin Once => Regular(t)
    BY <1>2 DEF IInv
  <1>7. CASE StartBlobTxCb(a)
    <2>1. phase[t] = "starting" /\ t \notin Once
      BY <1>4, <1>6, <1>7 DEF StartBlobTxCb, Awaited, Single
    <2>2. /\ UNCHANGED <<put, queue>> /\ phase'[t] \in {"open", "ended"}
          /\ \A u \in Tx : u # t => phase'[u] = phase[u] /\ txMap'[u] = txMap[u]
          /\ phase'[t] = "ended" => txMap' = txMap
      BY <1>2, <1>7 DEF StartBlobTxCb, TypeOK
    <2>3. ASSUME NEW n \in Flying, n.tx = t, n # Ask(a), Awaited(n) PROVE Awaited(n)'
      <3>1. n.op = "update"
        <4>1. n.op # "start"
          BY <1>4, <1>5, <1>7, <2>3, FlyingType DEF StartBlobTxCb
        <4> QED BY <1>5, <2>1, <2>3, <4>1 DEF Awaited
      <3> QED BY <2>2, <2>3, <3>1 DEF Awaited
    <2>4. Unique' /\ \A n \in Flying' : Awaited(n)'
      BY <1>3, <2>2, <2>3, Got
    <2>5. Regular(t)'
      <3>1. \A o \in Offset : put[t][o] = NoPut
        BY <1>6, <2>1 DEF Regular
      <3> QED BY <1>6, <2>1, <2>2, <3>1 DEF Regular, Open, Answered, NoPut
    <2> HIDE DEF t
    <2> QED BY <1>2, <1>3, <2>1, <2>2, <2>4, <2>5, OneTransaction
  <1>8. CASE UpdateCatalogCb(a)
    <2> DEFINE o == a.off
               res == IF a.res = "ok" THEN "ok" ELSE "err"
               p == [put[t][o] EXCEPT !.dm = res]
    <2>1. /\ o \in Offset /\ put[t][o].dm = "wait"
          /\ PutBlobCb(t, o, p, res) /\ UNCHANGED <<phase, queue>>
          /\ res \in {"ok", "err"}
      BY <1>2, <1>4, <1>8 DEF UpdateCatalogCb, Awaited
    <2>2. p \in Put /\ p.told = put[t][o].told /\ p.sm = put[t][o].sm /\ p.dm = res
      <3>1. put[t][o] \in Put
        BY <1>2, <2>1 DEF TypeOK
      <3> HIDE DEF res
      <3> QED BY <2>1, <3>1 DEF Put, Result
    <2>3. t \in Tx \ Once
      BY <1>2, <1>6, <2>1 DEF Single
    <2> HIDE DEF t, o, p, res
    <2>4. /\ phase[t] = "open" /\ Regular(t)'
          /\ \A u \in Tx : u # t => put'[u] = put[u] /\ txMap'[u] = txMap[u]
          /\ \A q \in Offset : q # o => put'[t][q] = put[t][q]
      BY <2>1, <2>2, <2>3, PutAnswered
    <2>5. ASSUME NEW n \in Flying, n.tx = t, n # Ask(a), Awaited(n) PROVE Awaited(n)'
      <3>1. CASE n.op = "update"
        <4>1. n.off \in Offset /\ n.off # o
          BY <1>5, <1>8, <2>5, <3>1 DEF UpdateCatalogCb, o
        <4> QED BY <2>4, <2>5, <3>1, <4>1 DEF Awaited
      <3>2. CASE n.op # "update"
        BY <2>1, <2>4, <2>5, <3>2 DEF Awaited
      <3> QED BY <3>1, <3>2
    <2>6. Unique' /\ \A n \in Flying' : Awaited(n)'
      BY <1>3, <2>1, <2>4, <2>5, Got DEF t
    <2> QED BY <1>3, <2>1, <2>3, <2>4, <2>6, OneTransaction
  <1>9. CASE DeleteBlobCb(a)
    <2>1. phase[t] = "deleting" /\ t \notin Once
      BY <1>4, <1>6, <1>9 DEF DeleteBlobCb, Awaited, Single
    <2>2. /\ UNCHANGED <<put, queue>> /\ phase'[t] = "deleted"
          /\ \A u \in Tx : u # t => phase'[u] = phase[u] /\ txMap'[u] = txMap[u]
      BY <1>2, <1>9 DEF DeleteBlobCb, TypeOK
    <2>3. ASSUME NEW n \in Flying, n.tx = t, n # Ask(a), Awaited(n) PROVE Awaited(n)'
      <3>1. n.op = "update"
        <4>1. n.op # "delete"
          BY <1>4, <1>5, <1>9, <2>3, FlyingType DEF DeleteBlobCb
        <4> QED BY <1>5, <2>1, <2>3, <4>1 DEF Awaited
      <3> QED BY <2>2, <2>3, <3>1 DEF Awaited
    <2>4. Unique' /\ \A n \in Flying' : Awaited(n)'
      BY <1>3, <2>2, <2>3, Got
    <2>5. Regular(t)'
      BY <1>6, <2>1, <2>2 DEF Regular, NoPut
    <2> HIDE DEF t
    <2> QED BY <1>2, <1>3, <2>1, <2>2, <2>4, <2>5, OneTransaction
  <1>10. CASE CommitBlobTxCb(a)
    <2>1. phase[t] = "committing" /\ t \notin Once
      BY <1>4, <1>6, <1>10 DEF CommitBlobTxCb, Awaited, Single
    <2>2. /\ UNCHANGED <<put, queue>> /\ phase'[t] = "ended" /\ txMap'[t] = NoTx
          /\ \A u \in Tx : u # t => phase'[u] = phase[u] /\ txMap'[u] = txMap[u]
      BY <1>2, <1>10 DEF CommitBlobTxCb, TypeOK
    <2>3. ASSUME NEW n \in Flying, n.tx = t, n # Ask(a), Awaited(n) PROVE Awaited(n)'
      <3>1. n.op = "update"
        <4>1. n.op # "commit"
          BY <1>4, <1>5, <1>10, <2>3, FlyingType DEF CommitBlobTxCb
        <4> QED BY <1>5, <2>1, <2>3, <4>1 DEF Awaited
      <3> QED BY <2>2, <2>3, <3>1 DEF Awaited
    <2>4. Unique' /\ \A n \in Flying' : Awaited(n)'
      BY <1>3, <2>2, <2>3, Got
    <2>5. Regular(t)'
      BY <1>6, <2>1, <2>2 DEF Regular, Open, Answered
    <2> HIDE DEF t
    <2> QED BY <1>2, <1>3, <2>1, <2>2, <2>4, <2>5, OneTransaction
  <1>11. CASE PutBlobOnceCb(a)
    <2>1. /\ phase[t] = "once" /\ a.off \in Offset /\ put[t][a.off].sm = "ok"
          /\ t \in Once
      BY <1>2, <1>4, <1>6, <1>11 DEF PutBlobOnceCb, Awaited, Regular
    <2>2. /\ UNCHANGED <<put, txMap, queue>> /\ phase'[t] = "ended"
          /\ \A u \in Tx : u # t => phase'[u] = phase[u]
      BY <1>2, <1>11 DEF PutBlobOnceCb, TypeOK
    <2>3. ASSUME NEW n \in Flying, n.tx = t, n # Ask(a) PROVE ~Awaited(n)
      <3>1. CASE n.op = "once"
        <4>1. n.off \in Offset /\ n.off # a.off
          BY <1>5, <1>11, <2>3, <3>1 DEF PutBlobOnceCb
        <4>2. put[t][n.off].sm = "no"
          BY <1>6, <2>1, <4>1 DEF Single
        <4> QED BY <2>3, <3>1, <4>2 DEF Awaited
      <3>2. CASE n.op = "update"
        <4>1. put[t][n.off].dm = "no"
          BY <1>5, <1>6, <2>1, <2>3, <3>2 DEF Single
        <4> QED BY <2>3, <3>2, <4>1 DEF Awaited
      <3>3. CASE n.op \in {"start", "delete", "commit"}
        BY <2>1, <2>3, <3>3 DEF Awaited
      <3> QED BY <1>5, <3>1, <3>2, <3>3
    <2>4. Unique' /\ \A n \in Flying' : Awaited(n)'
      BY <1>3, <2>2, <2>3, Got
    <2>5. Single(t)'
      <3>1. ASSUME NEW o \in Offset PROVE put[t][o].sm # "wait"
        <4>1. o # a.off => put[t][o].sm = "no"
          BY <1>6, <2>1 DEF Single
        <4> QED BY <2>1, <4>1
      <3> QED BY <1>6, <2>1, <2>2, <3>1 DEF Single
    <2> HIDE DEF t
    <2> QED BY <1>2, <1>3, <2>1, <2>2, <2>4, <2>5, OneTransaction
  <1> QED BY <1>1, <1>7, <1>8, <1>9, <1>10, <1>11

(* The invariant does not depend on reads, caches and objects.             *)
LEMMA OthersKeep ==
    ASSUME IInv, UNCHANGED <<phase, put, txMap, queue, answers, cat>>
    PROVE  IInv'
  <1>1. Unique' /\ Flying' = Flying
    BY DEF IInv, Unique, Flying, Ask
  <1>2. \A m \in Flying' : Awaited(m)'
    BY <1>1 DEF IInv, Awaited
  <1>3. \A t \in Tx \ Once : Regular(t)' /\ Committed(t)'
    BY DEF IInv, Regular, Committed, Open, Answered
  <1>4. \A t \in Once : Single(t)'
    BY DEF IInv, Single
  <1> QED BY <1>1, <1>2, <1>3, <1>4 DEF IInv

(* The inductive invariant holds in every reachable state.                 *)
THEOREM Invariance == Spec => []IInv
  <1>1. Init => IInv
    <2> SUFFICES ASSUME Init PROVE IInv
      OBVIOUS
    <2>1. queue = <<>> /\ answers = {} /\ DOMAIN queue = {}
      BY DEF Init
    <2>2. Unique /\ Flying = {}
      BY <2>1 DEF Unique, Flying
    <2>3. ASSUME NEW t \in Tx
          PROVE  /\ phase[t] = "idle" /\ txMap[t] = NoTx
                 /\ \A o \in Offset : put[t][o] = NoPut
      BY DEF Init
    <2>4. ASSUME NEW t \in Tx PROVE Committed(t)
      <3> SUFFICES ASSUME NEW k \in Key, NEW i \in DOMAIN cat[k] PROVE cat[k][i].tx # t
        BY DEF Committed
      <3>1. cat[k] = <<[tx |-> Old, val |-> Old]>>
        BY DEF Init
      <3>2. cat[k][i].tx = Old
        BY <3>1
      <3> QED BY <3>2, BlobTxAssumption
    <2>5. ASSUME NEW t \in Tx PROVE Regular(t)
      BY <2>3 DEF Regular, Open, NoPut
    <2>6. ASSUME NEW t \in Tx PROVE Single(t)
      BY <2>3 DEF Single, NoPut
    <2> QED BY <2>2, <2>4, <2>5, <2>6, BlobTxAssumption DEF IInv
  <1>2. TypeOK /\ IInv /\ [Next]_vars => IInv'
    <2> SUFFICES ASSUME TypeOK, IInv, [Next]_vars PROVE IInv'
      OBVIOUS
    <2>1. ASSUME NEW t \in Tx,
                 \/ StartBlobTx(t) \/ DeleteBlob(t) \/ CommitBlobTx(t) \/ AbortBlobTx(t)
                 \/ \E o \in Offset : PutBlob(t, o) \/ PutBlobOnce(t, o)
          PROVE  IInv'
      BY <2>1, ClientKeeps
    <2>2. ASSUME NEW t \in Tx, NEW o \in Offset, PutObjectCb(t, o) PROVE IInv'
      BY <2>2, PutObjectCbKeeps
    <2>3. CASE DmExecute
      BY <2>3, DmExecuteKeeps
    <2>4. CASE DmAnswer
      BY <2>4, DmAnswerKeeps
    <2>5. ASSUME NEW r \in Reader,
                 \/ \E want \in SUBSET Key : GetBlob(r, want)
                 \/ DmQuery(r) \/ GetOffsetsCb(r) \/ GetBlobCb(r)
          PROVE  IInv'
      BY <2>5, OthersKeep
         DEF GetBlob, DmQuery, GetOffsetsCb, GetBlobCb, amVars, dmVars
    <2>6. ASSUME NEW x \in Object, GetObjectCb(x) PROVE IInv'
      BY <2>6, OthersKeep DEF GetObjectCb, dmVars
    <2>7. ASSUME NEW k \in Key, Evict(k) PROVE IInv'
      BY <2>7, OthersKeep DEF Evict, dmVars
    <2>8. CASE UNCHANGED vars
      BY <2>8, OthersKeep DEF vars
    <2> QED BY <2>1, <2>2, <2>3, <2>4, <2>5, <2>6, <2>7, <2>8 DEF Next
  <1> QED BY <1>1, <1>2, TypeCorrect, PTL DEF Spec

(* A transaction with a put that was answered with an error never reaches  *)
(* the catalogue (AmTxManager::abortOnError), whatever the number of       *)
(* transactions, offsets and faults and whatever order the answers come in.*)
THEOREM FailedPut == Spec => []FailedPutNeverCommits
  <1>1. IInv => FailedPutNeverCommits
    <2> SUFFICES ASSUME IInv, NEW t \in Tx, NEW o \in Offset, put[t][o].told = "err",
                        NEW k \in Key, NEW i \in DOMAIN cat[k]
                 PROVE  cat[k][i].tx # t
      BY DEF FailedPutNeverCommits
    <2>1. t \notin Once
      BY DEF IInv, Single
    <2> QED BY <2>1 DEF IInv, Committed
  <1> QED BY <1>1, Invariance, PTL
=============================================================================
