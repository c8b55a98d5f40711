-------------------------- MODULE BlobTxReadProofs --------------------------
(***************************************************************************)
(* Proofs about what readers see in BlobTx, and about requests that are    *)
(* under way.  They build on the invariant of BlobTxProofs, which says     *)
(* which requests of a transaction can still be answered.                  *)
(***************************************************************************)
EXTENDS BlobTxProofs

(* The catalogue had this value of the key; an answer OK is to be handled  *)
Has(k, v) == \E i \in DOMAIN cat[k] : cat[k][i].val = v
GotOk(op, t, o) ==
    \E a \in answers : a.op = op /\ a.tx = t /\ a.off = o /\ a.res = "ok"

(* What the AM believes of a transaction is in the commit log of the DM or *)
(* already in the catalogue: puts that were answered OK, what is staged    *)
(* and, once the commit was answered OK, all that is staged                *)
Logged(t) ==
    /\ \A o \in Offset : put[t][o].dm = "ok" \/ GotOk("update", t, o)
                            => o \in log[t].offs \/ Has(o, t)
    /\ log[t].del => /\ phase[t] \in {"deleting", "deleted", "committing", "ended"}
                     /\ \A o \in Offset : put[t][o] = NoPut
    /\ log[t].del \/ phase[t] = "deleting" => txMap[t].op # "put"
    /\ \A o \in txMap[t].staged : put[t][o].dm = "ok" /\ put[t][o].sm = "ok"
    /\ GotOk("commit", t, Null) /\ txMap[t].op = "put" =>
         Has(Desc, t) /\ \A o \in txMap[t].staged : Has(o, t)
    /\ \A k \in Key : \A i \in DOMAIN cat[k] :
         cat[k][i].tx = t /\ cat[k][i].val # t =>
            txMap[t].op # "put" /\ phase[t] \in {"committing", "ended"}

LoggedOnce(t) ==
    /\ \A o \in Offset : GotOk("once", t, o) => Has(o, t) /\ Has(Desc, t)
    /\ \A k \in Key : \A i \in DOMAIN cat[k] :
         cat[k][i].tx = t => cat[k][i].val = t

LInv == /\ \A t \in Tx \ Once : Logged(t)
        /\ \A t \in Once : LoggedOnce(t)

-----------------------------------------------------------------------------
(* THE CATALOGUE                                                           *)

(* A history that is longer by one entry.                                  *)
LEMMA OneEntryMore ==
    ASSUME NEW c \in History, NEW e \in [tx : Value, val : Value], NEW h,
           h = Append(c, e)
    PROVE  /\ Len(c) \in Nat /\ Len(c) > 0 /\ DOMAIN c = 1 .. Len(c)
           /\ Len(h) = Len(c) + 1 /\ DOMAIN h = 1 .. Len(h)
           /\ h[Len(h)] = e /\ Len(h) \in DOMAIN h
           /\ \A i \in DOMAIN c : i \in DOMAIN h /\ h[i] = c[i]
           /\ \A i \in DOMAIN h : i \in DOMAIN c \/ i = Len(h)
  <1> DEFINE S == [tx : Value, val : Value]
  <1>1. c \in Seq(S) /\ c # <<>> /\ e \in S
    BY DEF History
  <1> HIDE DEF S
  <1>2. Len(c) \in Nat /\ Len(c) > 0 /\ DOMAIN c = 1 .. Len(c)
    BY <1>1
  <1>3. /\ Len(h) = Len(c) + 1 /\ DOMAIN h = 1 .. Len(h)
        /\ h[Len(c) + 1] = e
        /\ \A i \in 1 .. Len(c) : h[i] = c[i]
    BY <1>1
  <1> QED BY <1>2, <1>3

(* What a write of the DM does to the history of a key: a commit adds an   *)
(* entry to each of its keys, a delete to all of them, a putBlobOnce to    *)
(* its offset and to the descriptor.                                       *)
LEMMA ExecuteHistory ==
    ASSUME TypeOK, NEW m \in Write, NEW k \in Key, NEW c, c = Execute(m).cat
    PROVE  /\ \/ c[k] = cat[k]
              \/ /\ c[k] = Append(cat[k], [tx |-> m.tx, val |-> m.tx])
                 /\ \/ m.op = "commit" /\ k \in log[m.tx].offs \cup {Desc}
                    \/ m.op = "once" /\ k \in {m.off, Desc}
              \/ /\ c[k] = Append(cat[k], [tx |-> m.tx, val |-> Null])
                 /\ m.op = "commit" /\ log[m.tx].del
           /\ m.op = "commit" /\ log[m.tx].open /\ ~log[m.tx].del
                 /\ k \in log[m.tx].offs \cup {Desc} =>
                 c[k] = Append(cat[k], [tx |-> m.tx, val |-> m.tx])
           /\ m.op = "once" /\ Execute(m).res = "ok" /\ k \in {m.off, Desc} =>
                 c[k] = Append(cat[k], [tx |-> m.tx, val |-> m.tx])
  <1>1. m.op \in {"start", "update", "delete", "commit", "once"}
    BY DEF Write
  <1>2. CASE m.op = "commit"
    <2>1. Execute(m) = CommitTx(m.tx)
      BY <1>2 DEF Execute
    <2>2. CASE ~log[m.tx].open
      BY <1>2, <2>1, <2>2 DEF CommitTx
    <2>3. CASE log[m.tx].open /\ ~log[m.tx].del
      <3>1. c = Written(m.tx, log[m.tx].offs \cup {Desc}, m.tx)
        BY <2>1, <2>3 DEF CommitTx
      <3> QED BY <1>2, <2>3, <3>1 DEF Written
    <2>4. CASE log[m.tx].open /\ log[m.tx].del
      <3>1. c = Written(m.tx, Key, Null) \/ c = cat
        BY <2>1, <2>4 DEF CommitTx
      <3> QED BY <1>2, <2>4, <3>1 DEF Written
    <2> QED BY <2>2, <2>3, <2>4
  <1>3. CASE m.op = "once"
    <2>1. Execute(m) = UpdateOnce(m.tx, m.off)
      BY <1>3 DEF Execute
    <2> QED BY <1>3, <2>1 DEF UpdateOnce, Written
  <1>4. CASE m.op \in {"start", "update", "delete"}
    BY <1>4 DEF Execute, StartTx, UpdateTx, DeleteTx
  <1> QED BY <1>1, <1>2, <1>3, <1>4

(* The history of a key only grows, and only the DM makes it grow.         *)
LEMMA Grows ==
    ASSUME TypeOK, [Next]_vars, NEW k \in Key
    PROVE  /\ DOMAIN cat[k] = 1 .. Len(cat[k]) /\ Len(cat[k]) \in Nat
           /\ DOMAIN cat'[k] = 1 .. Len(cat'[k]) /\ Len(cat'[k]) \in Nat
           /\ Len(cat[k]) > 0 /\ Len(cat[k]) <= Len(cat'[k])
           /\ \A i \in DOMAIN cat[k] : i \in DOMAIN cat'[k] /\ cat'[k][i] = cat[k][i]
           /\ cat'[k] # cat[k] =>
                /\ DmExecute /\ cat' = Execute(Head(queue)).cat
                /\ Len(cat'[k]) = Len(cat[k]) + 1
  <1> DEFINE c == cat[k]
             h == cat'[k]
             m == Head(queue)
  <1>1. c \in History
    BY DEF TypeOK
  <1>2. CASE h = c
    <2>1. c \in Seq([tx : Value, val : Value]) /\ c # <<>>
      BY <1>1 DEF History
    <2>2. DOMAIN c = 1 .. Len(c) /\ Len(c) \in Nat /\ Len(c) > 0
      BY <2>1
    <2> QED BY <1>2, <2>2
  <1>3. CASE h # c
    <2>1. DmExecute
      BY <1>3 DEF Next, StartBlobTx, DeleteBlob, CommitBlobTx, AbortBlobTx,
                  PutBlob, PutBlobOnce, PutObjectCb, DmAnswer, GetBlob, DmQuery,
                  GetOffsetsCb, GetBlobCb, GetObjectCb, Evict, dmVars, vars
    <2>2. m \in Write
      BY <2>1 DEF DmExecute, TypeOK
    <2>3. cat' = Execute(m).cat
      BY <1>3, <2>1 DEF DmExecute, dmVars
    <2>4. PICK v \in {m.tx, Null} : h = Append(c, [tx |-> m.tx, val |-> v])
      BY <1>3, <2>2, <2>3, ExecuteHistory
    <2>5. [tx |-> m.tx, val |-> v] \in [tx : Value, val : Value]
      BY <2>2 DEF Write, Value
    <2> HIDE DEF c, h, m
    <2>6. /\ Len(c) \in Nat /\ Len(c) > 0 /\ DOMAIN c = 1 .. Len(c)
          /\ Len(h) = Len(c) + 1 /\ DOMAIN h = 1 .. Len(h)
          /\ \A i \in DOMAIN c : i \in DOMAIN h /\ h[i] = c[i]
      BY <1>1, <2>4, <2>5, OneEntryMore
    <2> QED BY <2>1, <2>3, <2>6 DEF c, h, m
  <1> QED BY <1>2, <1>3

(* What the catalogue had it still has.                                    *)
LEMMA HasStays ==
    ASSUME TypeOK, [Next]_vars, NEW k \in Key, NEW v, Has(k, v)
    PROVE  Has(k, v)'
  BY Grows DEF Has

(* An entry that a step of the DM added.                                   *)
LEMMA HasAdded ==
    ASSUME TypeOK, NEW k \in Key, NEW u \in Value, NEW v \in Value,
           cat'[k] = Append(cat[k], [tx |-> u, val |-> v])
    PROVE  /\ Has(k, v)'
           /\ \A i \in DOMAIN cat'[k] :
                \/ i \in DOMAIN cat[k] /\ cat'[k][i] = cat[k][i]
                \/ cat'[k][i].tx = u /\ cat'[k][i].val = v
  <1> DEFINE c == cat[k]
             h == cat'[k]
             e == [tx |-> u, val |-> v]
  <1>1. c \in History /\ e \in [tx : Value, val : Value] /\ e.tx = u /\ e.val = v
    BY DEF TypeOK
  <1>2. h = Append(c, e)
    OBVIOUS
  <1> HIDE DEF c, h, e
  <1>3. /\ h[Len(h)] = e /\ Len(h) \in DOMAIN h
        /\ \A i \in DOMAIN c : i \in DOMAIN h /\ h[i] = c[i]
        /\ \A i \in DOMAIN h : i \in DOMAIN c \/ i = Len(h)
    BY <1>1, <1>2, OneEntryMore
  <1>4. /\ h[Len(h)].val = v
        /\ \A i \in DOMAIN h : \/ i \in DOMAIN c /\ h[i] = c[i]
                               \/ h[i].tx = u /\ h[i].val = v
    BY <1>1, <1>3
  <1> QED BY <1>3, <1>4 DEF c, h, Has

-----------------------------------------------------------------------------
(* STEPS OF THE DM                                                         *)

(* What the DM does with the write at the head of the queue: the answer is *)
(* OK only if it was executed.                                             *)
LEMMA DmStep ==
    ASSUME TypeOK, IInv, DmExecute, NEW m, m = Head(queue)
    PROVE  /\ m \in Write /\ m.tx \in Tx /\ Awaited(m)
           /\ UNCHANGED <<phase, put, txMap>>
           /\ \/ log' = log /\ cat' = cat
              \/ log' = Execute(m).log /\ cat' = Execute(m).cat
           /\ \A op, t, o : GotOk(op, t, o)' =>
                 \/ GotOk(op, t, o)
                 \/ /\ op = m.op /\ t = m.tx /\ o = m.off
                    /\ Execute(m).res = "ok"
                    /\ log' = Execute(m).log /\ cat' = Execute(m).cat
  <1>1. m \in Write /\ m \in Flying /\ m.tx \in Tx
    BY ExecuteFlying, FlyingType DEF IInv
  <1>2. Awaited(m)
    BY <1>1 DEF IInv
  <1>3. UNCHANGED <<phase, put, txMap>>
    BY DEF DmExecute, amVars
  <1>4. \/ log' = log /\ cat' = cat
        \/ log' = Execute(m).log /\ cat' = Execute(m).cat
    BY DEF DmExecute, dmVars
  <1>5. ASSUME NEW op, NEW t, NEW o, GotOk(op, t, o)', ~GotOk(op, t, o)
        PROVE  /\ op = m.op /\ t = m.tx /\ o = m.off
               /\ Execute(m).res = "ok"
               /\ log' = Execute(m).log /\ cat' = Execute(m).cat
    <2>1. PICK a \in answers' : a.op = op /\ a.tx = t /\ a.off = o /\ a.res = "ok"
      BY <1>5 DEF GotOk
    <2>2. a \notin answers
      BY <1>5, <2>1 DEF GotOk
    <2>3. CASE Answer(m, Execute(m).res) /\ log' = Execute(m).log /\ cat' = Execute(m).cat
      <3>1. a = [op |-> m.op, tx |-> m.tx, off |-> m.off, res |-> Execute(m).res]
        BY <2>2, <2>3 DEF Answer
      <3> QED BY <2>1, <2>3, <3>1
    <2>4. CASE Answer(m, "failed")
      <3>1. a = [op |-> m.op, tx |-> m.tx, off |-> m.off, res |-> "failed"]
        BY <2>2, <2>4 DEF Answer
      <3> QED BY <2>1, <3>1
    <2> QED BY <2>3, <2>4 DEF DmExecute
  <1> QED BY <1>1, <1>2, <1>3, <1>4, <1>5

(* What a write of the DM does to the commit log of a transaction.         *)
LEMMA ExecuteLogs ==
    ASSUME TypeOK, NEW m \in Write, NEW t \in Tx, NEW l, l = Execute(m).log
    PROVE  /\ t # m.tx => l[t] = log[t]
           /\ m.op # "commit" => log[t].offs \subseteq l[t].offs
           /\ m.op # "delete" => (l[t].del => log[t].del)
           /\ m.op = "update" /\ m.tx = t /\ Execute(m).res = "ok" => m.off \in l[t].offs
           /\ m.op = "commit" /\ m.tx = t /\ Execute(m).res = "ok" => log[t].open
           /\ m.op = "commit" /\ ~log[m.tx].open => l = log
  <1>1. m.op \in {"start", "update", "delete", "commit", "once"} /\ m.tx \in Tx
    BY DEF Write
  <1>2. log \in [Tx -> LogEntry] /\ log[t] \in LogEntry
    BY DEF TypeOK
  <1>3. CASE m.op = "start"
    <2>1. Execute(m) = StartTx(m.tx)
      BY <1>3 DEF Execute
    <2> QED BY <1>1, <1>2, <1>3, <2>1 DEF StartTx, LogEntry
  <1>4. CASE m.op = "update"
    <2>1. Execute(m) = UpdateTx(m.tx, m.off)
      BY <1>4 DEF Execute
    <2> QED BY <1>1, <1>2, <1>4, <2>1 DEF UpdateTx, LogEntry
  <1>5. CASE m.op = "delete"
    <2>1. Execute(m) = DeleteTx(m.tx)
      BY <1>5 DEF Execute
    <2> QED BY <1>1, <1>2, <1>5, <2>1 DEF DeleteTx, LogEntry
  <1>6. CASE m.op = "commit"
    <2>1. Execute(m) = CommitTx(m.tx)
      BY <1>6 DEF Execute
    <2>2. CASE ~log[m.tx].open
      BY <1>6, <2>1, <2>2 DEF CommitTx
    <2>3. CASE log[m.tx].open
      <3>1. l = [log EXCEPT ![m.tx] = NoLog]
        BY <2>1, <2>3 DEF CommitTx
      <3> QED BY <1>1, <1>2, <1>6, <2>3, <3>1 DEF NoLog
    <2> QED BY <2>2, <2>3
  <1>7. CASE m.op = "once"
    <2>1. Execute(m) = UpdateOnce(m.tx, m.off)
      BY <1>7 DEF Execute
    <2> QED BY <1>7, <2>1 DEF UpdateOnce
  <1> QED BY <1>1, <1>3, <1>4, <1>5, <1>6, <1>7

(* The DM keeps the commit log in step with what the AM believes.          *)
LEMMA DmExecuteLogged ==
    ASSUME TypeOK, IInv, LInv, DmExecute, NEW t \in Tx \ Once
    PROVE  Logged(t)'
  <1> DEFINE m == Head(queue)
  <1>1. /\ m \in Write /\ m.tx \in Tx /\ Awaited(m)
        /\ UNCHANGED <<phase, put, txMap>>
        /\ \/ log' = log /\ cat' = cat
           \/ log' = Execute(m).log /\ cat' = Execute(m).cat
        /\ \A op, u, o : GotOk(op, u, o)' =>
              \/ GotOk(op, u, o)
              \/ /\ op = m.op /\ u = m.tx /\ o = m.off
                 /\ Execute(m).res = "ok"
                 /\ log' = Execute(m).log /\ cat' = Execute(m).cat
    BY DmStep
  <1>2. Logged(t) /\ Regular(t) /\ t \in Tx /\ t \in Value /\ Null \in Value
    BY DEF LInv, IInv, Value
  <1>3. ASSUME NEW k \in Key, NEW v, Has(k, v) PROVE Has(k, v)'
    <2>1. [Next]_vars
      BY DEF Next
    <2> QED BY <1>3, <2>1, HasStays
  <1>4. Offset \subseteq Key /\ Desc \in Key
    BY DEF Key
  <1> HIDE DEF m
  <1>5. m.tx = t /\ m.op = "delete" => phase[t] = "deleting" /\ \A o \in Offset : put[t][o] = NoPut
    BY <1>1, <1>2 DEF Awaited, Regular
  <1>6. m.tx = t => m.op # "once" /\ (m.op = "commit" => phase[t] = "committing")
    BY <1>1, <1>2 DEF Awaited, Regular
  <1>7. ASSUME NEW o \in Offset, GotOk("update", t, o) PROVE put[t][o].dm = "wait"
    <2>1. PICK a \in answers : a.op = "update" /\ a.tx = t /\ a.off = o
      BY <1>7 DEF GotOk
    <2>2. Ask(a) \in Flying /\ Ask(a).op = "update" /\ Ask(a).tx = t /\ Ask(a).off = o
      BY <2>1 DEF Flying, Ask
    <2> QED BY <2>2 DEF IInv, Awaited
  <1>8. \/ log' = log /\ cat' = cat
        \/ /\ log' = Execute(m).log /\ cat' = Execute(m).cat
           /\ t # m.tx => log'[t] = log[t]
           /\ m.op # "commit" => log[t].offs \subseteq log'[t].offs
           /\ m.op # "delete" => (log'[t].del => log[t].del)
           /\ m.op = "commit" /\ ~log[m.tx].open => log' = log
    BY <1>1, <1>2, ExecuteLogs
  <1>9. ASSUME NEW o \in Offset, put'[t][o].dm = "ok" \/ GotOk("update", t, o)'
        PROVE  o \in log'[t].offs \/ Has(o, t)'
    <2>1. CASE put[t][o].dm = "ok" \/ GotOk("update", t, o)
      <3>1. o \in log[t].offs \/ Has(o, t)
        BY <1>2, <2>1 DEF Logged
      <3>2. CASE Has(o, t) \/ o \in log'[t].offs
        BY <1>3, <1>4, <3>2
      <3>3. CASE o \in log[t].offs /\ o \notin log'[t].offs
        <4>1. m.op = "commit" /\ m.tx = t /\ log[t].open
          BY <1>8, <3>3
        <4>2. put[t][o] # NoPut
          BY <1>7, <2>1 DEF NoPut
        <4>3. ~log[t].del
          BY <1>2, <4>2 DEF Logged
        <4>4. cat'[o] = Append(cat[o], [tx |-> t, val |-> t])
          <5>1. o \in Key /\ cat' = Execute(m).cat
            BY <1>1, <1>4, <3>3
          <5> QED BY <1>1, <3>3, <4>1, <4>3, <5>1, ExecuteHistory
        <4> QED BY <1>2, <1>4, <4>4, HasAdded
      <3> QED BY <3>1, <3>2, <3>3
    <2>2. CASE GotOk("update", t, o)' /\ ~GotOk("update", t, o)
      <3>1. /\ m.op = "update" /\ m.tx = t /\ m.off = o
            /\ Execute(m).res = "ok" /\ log' = Execute(m).log
        BY <1>1, <2>2
      <3> QED BY <1>1, <1>2, <3>1, ExecuteLogs
    <2> QED BY <1>1, <1>9, <2>1, <2>2
  <1>10. ASSUME log'[t].del, ~log[t].del PROVE m.op = "delete" /\ m.tx = t
    BY <1>8, <1>10
  <1>11. /\ log'[t].del => /\ phase'[t] \in {"deleting", "deleted", "committing", "ended"}
                           /\ \A o \in Offset : put'[t][o] = NoPut
         /\ log'[t].del \/ phase'[t] = "deleting" => txMap'[t].op # "put"
    BY <1>1, <1>2, <1>5, <1>10 DEF Logged
  <1>12. ASSUME GotOk("commit", t, Null)', txMap[t].op = "put"
         PROVE  Has(Desc, t)' /\ \A o \in txMap[t].staged : Has(o, t)'
    <2>1. txMap[t].staged \subseteq Offset
      BY <1>2 DEF TypeOK, Descriptor
    <2>2. CASE GotOk("commit", t, Null)
      BY <1>2, <1>3, <1>4, <1>12, <2>1, <2>2 DEF Logged
    <2>3. CASE ~GotOk("commit", t, Null)
      <3>1. /\ m.op = "commit" /\ m.tx = t /\ Execute(m).res = "ok"
            /\ log' = Execute(m).log /\ cat' = Execute(m).cat
        BY <1>1, <1>12, <2>3
      <3>2. log[t].open
        BY <1>1, <1>2, <3>1, ExecuteLogs
      <3>3. ~log[t].del
        BY <1>2, <1>12 DEF Logged
      <3>4. ASSUME NEW k \in Key, k \in log[t].offs \cup {Desc} PROVE Has(k, t)'
        <4>1. cat'[k] = Append(cat[k], [tx |-> t, val |-> t])
          BY <1>1, <3>1, <3>2, <3>3, <3>4, ExecuteHistory
        <4> QED BY <1>2, <4>1, HasAdded
      <3>5. Has(Desc, t)' /\ \A o \in log[t].offs \cap Offset : Has(o, t)'
        BY <1>4, <3>4
      <3>6. ASSUME NEW o \in txMap[t].staged PROVE Has(o, t)'
        <4>1. o \in Offset /\ (o \in log[t].offs \/ Has(o, t))
          BY <1>2, <2>1 DEF Logged
        <4> QED BY <1>3, <1>4, <3>5, <4>1
      <3> QED BY <3>5, <3>6
    <2> QED BY <2>2, <2>3
  <1>13. ASSUME NEW k \in Key, NEW i \in DOMAIN cat'[k],
                cat'[k][i].tx = t, cat'[k][i].val # t
         PROVE  txMap[t].op # "put" /\ phase[t] \in {"committing", "ended"}
    <2>1. CASE i \in DOMAIN cat[k] /\ cat'[k][i] = cat[k][i]
      BY <1>2, <1>13, <2>1 DEF Logged
    <2>2. CASE ~(i \in DOMAIN cat[k] /\ cat'[k][i] = cat[k][i])
      <3>1. cat' = Execute(m).cat /\ cat'[k] # cat[k]
        BY <1>1, <1>13, <2>2
      <3>2. m.tx \in Value /\ Null \in Value
        BY <1>1 DEF Value
      <3>3. CASE cat'[k] = Append(cat[k], [tx |-> m.tx, val |-> m.tx])
        BY <1>13, <2>2, <3>2, <3>3, HasAdded
      <3>4. CASE /\ cat'[k] = Append(cat[k], [tx |-> m.tx, val |-> Null])
                 /\ m.op = "commit" /\ log[m.tx].del
        <4>1. m.tx = t
          BY <1>13, <2>2, <3>2, <3>4, HasAdded
        <4> QED BY <1>2, <1>6, <3>4, <4>1 DEF Logged
      <3> QED BY <1>1, <3>1, <3>3, <3>4, ExecuteHistory
    <2> QED BY <2>1, <2>2
  <1>14. Logged(t)!4'
    BY <1>1, <1>2 DEF Logged
  <1> QED BY <1>1, <1>9, <1>11, <1>12, <1>13, <1>14 DEF Logged

(* The same for a putBlobOnce.                                             *)
LEMMA DmExecuteLoggedOnce ==
    ASSUME TypeOK, IInv, LInv, DmExecute, NEW t \in Once
    PROVE  LoggedOnce(t)'
  <1> DEFINE m == Head(queue)
  <1>1. /\ m \in Write /\ m.tx \in Tx /\ Awaited(m)
        /\ \/ log' = log /\ cat' = cat
           \/ log' = Execute(m).log /\ cat' = Execute(m).cat
        /\ \A op, u, o : GotOk(op, u, o)' =>
              \/ GotOk(op, u, o)
              \/ /\ op = m.op /\ u = m.tx /\ o = m.off
                 /\ Execute(m).res = "ok"
                 /\ log' = Execute(m).log /\ cat' = Execute(m).cat
    BY DmStep
  <1>2. LoggedOnce(t) /\ Single(t) /\ t \in Tx /\ t \in Value
    BY BlobTxAssumption DEF LInv, IInv, Value
  <1>3. ASSUME NEW k \in Key, NEW v, Has(k, v) PROVE Has(k, v)'
    <2>1. [Next]_vars
      BY DEF Next
    <2> QED BY <1>3, <2>1, HasStays
  <1>4. Offset \subseteq Key /\ Desc \in Key
    BY DEF Key
  <1> HIDE DEF m
  <1>5. m.tx = t => m.op # "commit"
    BY <1>1, <1>2 DEF Awaited, Single
  <1>6. ASSUME NEW o \in Offset, GotOk("once", t, o)' PROVE Has(o, t)' /\ Has(Desc, t)'
    <2>1. CASE GotOk("once", t, o)
      BY <1>2, <1>3, <1>4, <2>1 DEF LoggedOnce
    <2>2. CASE ~GotOk("once", t, o)
      <3>1. /\ m.op = "once" /\ m.tx = t /\ m.off = o /\ Execute(m).res = "ok"
            /\ cat' = Execute(m).cat
        BY <1>1, <1>6, <2>2
      <3>2. ASSUME NEW k \in {o, Desc} PROVE Has(k, t)'
        <4>1. k \in Key
          BY <1>4
        <4>2. cat'[k] = Append(cat[k], [tx |-> t, val |-> t])
          BY <1>1, <3>1, <4>1, ExecuteHistory
        <4> QED BY <1>2, <4>1, <4>2, HasAdded
      <3> QED BY <3>2
    <2> QED BY <2>1, <2>2
  <1>7. ASSUME NEW k \in Key, NEW i \in DOMAIN cat'[k], cat'[k][i].tx = t
        PROVE  cat'[k][i].val = t
    <2>1. CASE i \in DOMAIN cat[k] /\ cat'[k][i] = cat[k][i]
      BY <1>2, <1>7, <2>1 DEF LoggedOnce
    <2>2. CASE ~(i \in DOMAIN cat[k] /\ cat'[k][i] = cat[k][i])
      <3>1. cat' = Execute(m).cat /\ cat'[k] # cat[k]
        BY <1>1, <1>7, <2>2
      <3>2. m.tx \in Value /\ Null \in Value
        BY <1>1 DEF Value
      <3>3. CASE cat'[k] = Append(cat[k], [tx |-> m.tx, val |-> m.tx])
        BY <1>7, <2>2, <3>2, <3>3, HasAdded
      <3>4. CASE /\ cat'[k] = Append(cat[k], [tx |-> m.tx, val |-> Null])
                 /\ m.op = "commit"
        BY <1>5, <1>7, <2>2, <3>2, <3>4, HasAdded
      <3> QED BY <1>1, <3>1, <3>3, <3>4, ExecuteHistory
    <2> QED BY <2>1, <2>2
  <1> QED BY <1>6, <1>7 DEF LoggedOnce

-----------------------------------------------------------------------------
(* STEPS OF THE AM                                                         *)

(* An answer that was there before.                                        *)
LEMMA GotBefore ==
    ASSUME NEW op, NEW t, NEW o, answers' \subseteq answers, GotOk(op, t, o)'
    PROVE  GotOk(op, t, o)
  BY DEF GotOk

(* The client waits for what was answered.                                 *)
LEMMA GotAwaited ==
    ASSUME TypeOK, IInv, NEW t \in Tx, NEW o
    PROVE  /\ GotOk("update", t, o) => put[t][o].dm = "wait"
           /\ GotOk("commit", t, o) => phase[t] = "committing"
  <1>1. ASSUME NEW op, GotOk(op, t, o) PROVE Awaited([op |-> op, tx |-> t, off |-> o])
    <2>1. PICK a \in answers : a.op = op /\ a.tx = t /\ a.off = o
      BY <1>1 DEF GotOk
    <2>2. Ask(a) \in Flying /\ Ask(a) = [op |-> op, tx |-> t, off |-> o]
      BY <2>1 DEF Flying, Ask
    <2> QED BY <2>2 DEF IInv
  <1> QED BY <1>1 DEF Awaited

(* A step of the AM on transaction t: the DM's log and catalogue stay, and *)
(* no answer is added.                                                     *)
LEMMA AmLogged ==
    ASSUME NEW t \in Tx, Logged(t), UNCHANGED <<log, cat>>, answers' \subseteq answers,
           \A o \in Offset : put'[t][o].dm = "ok" =>
               put[t][o].dm = "ok" \/ GotOk("update", t, o),
           log[t].del => /\ phase'[t] \in {"deleting", "deleted", "committing", "ended"}
                         /\ put'[t] = put[t],
           txMap'[t].op = "put" => /\ phase'[t] # "deleting" /\ ~log[t].del
                                   /\ \/ txMap[t].op = "put"
                                      \/ phase[t] \notin {"committing", "ended"},
           \A o \in txMap'[t].staged : put'[t][o].dm = "ok" /\ put'[t][o].sm = "ok",
           GotOk("commit", t, Null) /\ txMap'[t].op = "put" =>
               txMap[t].op = "put" /\ txMap'[t].staged \subseteq txMap[t].staged,
           phase[t] \in {"committing", "ended"} => phase'[t] \in {"committing", "ended"}
    PROVE  Logged(t)'
  <1>1. \A op, o : GotOk(op, t, o)' => GotOk(op, t, o)
    BY GotBefore
  <1>2. \A k, v : Has(k, v)' <=> Has(k, v)
    BY DEF Has
  <1>3. Logged(t)!1'
    BY <1>1, <1>2 DEF Logged
  <1>4. Logged(t)!2' /\ Logged(t)!3' /\ Logged(t)!4'
    BY DEF Logged
  <1>5. Logged(t)!5'
    BY <1>1, <1>2 DEF Logged
  <1>6. Logged(t)!6'
    BY DEF Logged
  <1> QED BY <1>3, <1>4, <1>5, <1>6 DEF Logged

(* The other transactions do not notice.                                   *)
LEMMA OneLogged ==
    ASSUME TypeOK, LInv, NEW t \in Tx, UNCHANGED <<log, cat>>, answers' \subseteq answers,
           \A u \in Tx : u # t => /\ phase'[u] = phase[u] /\ put'[u] = put[u]
                                  /\ txMap'[u] = txMap[u],
           t \notin Once => Logged(t)'
    PROVE  LInv'
  <1>1. \A op, u, o : GotOk(op, u, o)' => GotOk(op, u, o)
    BY GotBefore
  <1>2. \A k, v : Has(k, v)' <=> Has(k, v)
    BY DEF Has
  <1>3. ASSUME NEW u \in Once PROVE LoggedOnce(u)'
    BY <1>1, <1>2 DEF LInv, LoggedOnce
  <1>4. ASSUME NEW u \in Tx \ Once PROVE Logged(u)'
    <2>1. CASE u = t
      BY <2>1
    <2>2. CASE u # t
      <3>1. /\ Logged(u) /\ phase'[u] = phase[u] /\ put'[u] = put[u]
            /\ txMap'[u] = txMap[u]
        BY <2>2 DEF LInv
      <3> QED BY <1>1, <1>2, <3>1 DEF Logged
    <2> QED BY <2>1, <2>2
  <1> QED BY <1>3, <1>4 DEF LInv

(* The answer of one half of a put (AmTxManager::putBlobCb).               *)
LEMMA PutHalfLogged ==
    ASSUME TypeOK, IInv, LInv, NEW t \in Tx \ Once, NEW o \in Offset, NEW p \in Put,
           NEW res \in {"ok", "err"}, PutBlobCb(t, o, p, res), phase' = phase,
           "wait" \in {put[t][o].dm, put[t][o].sm}, p.told = put[t][o].told,
           res = "err" => ~(p.dm = "ok" /\ p.sm = "ok"),
           UNCHANGED <<log, cat>>, answers' \subseteq answers,
           p.dm = "ok" => put[t][o].dm = "ok" \/ GotOk("update", t, o)
    PROVE  LInv'
  <1>1. /\ phase[t] = "open"
        /\ \A u \in Tx : u # t => put'[u] = put[u] /\ txMap'[u] = txMap[u]
        /\ \A q \in Offset : q # o => put'[t][q] = put[t][q]
        /\ put'[t][o].dm = p.dm /\ put'[t][o].sm = p.sm
    BY PutAnswered
  <1>2. Logged(t) /\ ~log[t].del /\ txMap[t] \in Descriptor
    BY <1>1 DEF LInv, Logged, TypeOK
  <1>3. \/ txMap'[t] = txMap[t]
        \/ txMap'[t] = NoTx
        \/ /\ p.dm = "ok" /\ p.sm = "ok" /\ txMap'[t].op = txMap[t].op
           /\ txMap'[t].staged = txMap[t].staged \cup {o}
    <2>1. CASE "wait" \in {p.dm, p.sm}
      BY <2>1 DEF PutBlobCb
    <2>2. CASE ~("wait" \in {p.dm, p.sm}) /\ ~(p.dm = "ok" /\ p.sm = "ok")
      <3>1. txMap' = [txMap EXCEPT ![t] = NoTx] \/ txMap' = txMap
        BY <2>2 DEF PutBlobCb
      <3> QED BY <2>2, <3>1 DEF TypeOK
    <2>3. CASE p.dm = "ok" /\ p.sm = "ok"
      <3>1. txMap' = ApplyPut(t, o)
        BY <2>3 DEF PutBlobCb
      <3>2. CASE Open(t) /\ Cardinality(txMap[t].staged) < MaxStaged
        <4>1. txMap' = [txMap EXCEPT ![t].staged = @ \cup {o}]
          BY <3>1, <3>2 DEF ApplyPut
        <4> QED BY <1>2, <2>3, <4>1 DEF TypeOK, Descriptor
      <3>3. CASE ~Open(t)
        BY <3>1, <3>3 DEF ApplyPut, Open
      <3>4. CASE ~(Cardinality(txMap[t].staged) < MaxStaged)
        BY <2>3, <3>1, <3>4 DEF ApplyPut
      <3> QED BY <3>2, <3>3, <3>4
    <2> QED BY <2>1, <2>2, <2>3
  <1>4. /\ txMap[t].staged \subseteq Offset /\ NoTx.op # "put" /\ NoTx.staged = {}
        /\ o \notin txMap[t].staged
    BY <1>2 DEF Descriptor, NoTx, Logged
  <1>5. ~GotOk("commit", t, Null)
    BY <1>1, GotAwaited
  <1>6. ASSUME NEW q \in txMap'[t].staged
        PROVE  put'[t][q].dm = "ok" /\ put'[t][q].sm = "ok"
    <2>1. CASE q \in txMap[t].staged
      BY <1>1, <1>2, <1>4, <2>1 DEF Logged
    <2>2. CASE q \notin txMap[t].staged
      BY <1>1, <1>3, <1>4, <1>6, <2>2
    <2> QED BY <2>1, <2>2
  <1>7. \A q \in Offset : put'[t][q].dm = "ok" => put[t][q].dm = "ok" \/ GotOk("update", t, q)
    BY <1>1
  <1>8. txMap'[t].op = "put" => txMap[t].op = "put"
    BY <1>3, <1>4
  <1>9. Logged(t)'
    BY <1>1, <1>2, <1>5, <1>6, <1>7, <1>8, AmLogged
  <1> QED BY <1>1, <1>9, OneLogged

(* The requests of the client keep the invariant.                          *)
LEMMA ClientLogged ==
    ASSUME TypeOK, IInv, LInv, NEW t \in Tx,
           \/ StartBlobTx(t) \/ DeleteBlob(t) \/ CommitBlobTx(t) \/ AbortBlobTx(t)
           \/ \E o \in Offset : PutBlob(t, o) \/ PutBlobOnce(t, o)
    PROVE  LInv'
  <1>1. /\ t \notin Once => Regular(t) /\ Logged(t)
        /\ t \in Once => Single(t)
        /\ txMap[t] \in Descriptor
    BY DEF IInv, LInv, TypeOK
  <1>2. NoTx.op # "put" /\ NoTx.staged = {} /\ NoPut.dm = "no"
    BY DEF NoTx, NoPut
  <1>3. UNCHANGED <<log, cat, answers>>
    BY DEF StartBlobTx, DeleteBlob, CommitBlobTx, AbortBlobTx, PutBlob, PutBlobOnce, dmVars
  <1>4. GotOk("commit", t, Null) => phase[t] = "committing"
    BY GotAwaited
  <1>5. CASE StartBlobTx(t)
    <2>1. /\ phase[t] = "idle" /\ phase'[t] = "starting" /\ t \notin Once
          /\ \A u \in Tx : u # t => phase'[u] = phase[u]
          /\ UNCHANGED <<put, txMap>>
      BY <1>5 DEF StartBlobTx, TypeOK
    <2>2. ~log[t].del /\ \A o \in txMap[t].staged : put[t][o].dm = "ok" /\ put[t][o].sm = "ok"
      BY <1>1, <2>1 DEF Logged
    <2>3. Logged(t)'
      BY <1>1, <1>3, <2>1, <2>2, AmLogged
    <2> QED BY <1>3, <2>1, <2>3, OneLogged
  <1>6. CASE DeleteBlob(t)
    <2>1. /\ phase[t] = "open" /\ phase'[t] = "deleting" /\ t \notin Once
          /\ \A u \in Tx : u # t => phase'[u] = phase[u] /\ txMap'[u] = txMap[u]
          /\ txMap'[t].op = "delete" /\ txMap'[t].staged = txMap[t].staged
          /\ UNCHANGED put
      BY <1>1, <1>6 DEF DeleteBlob, TypeOK, Descriptor, Single
    <2>2. ~log[t].del /\ \A o \in txMap[t].staged : put[t][o].dm = "ok" /\ put[t][o].sm = "ok"
      BY <1>1, <2>1 DEF Logged
    <2>3. Logged(t)'
      BY <1>1, <1>3, <2>1, <2>2, AmLogged
    <2> QED BY <1>3, <2>1, <2>3, OneLogged
  <1>7. CASE CommitBlobTx(t)
    <2>1. /\ phase[t] \in {"open", "deleted"} /\ phase'[t] \in {"committing", "ended"}
          /\ t \notin Once
          /\ \A u \in Tx : u # t => phase'[u] = phase[u]
          /\ UNCHANGED <<put, txMap>>
      BY <1>1, <1>7 DEF CommitBlobTx, TypeOK, Single
    <2>2. /\ txMap[t].op = "put" => ~log[t].del
          /\ \A o \in txMap[t].staged : put[t][o].dm = "ok" /\ put[t][o].sm = "ok"
      BY <1>1, <2>1 DEF Logged
    <2>3. Logged(t)'
      BY <1>1, <1>3, <2>1, <2>2, AmLogged
    <2> QED BY <1>3, <2>1, <2>3, OneLogged
  <1>8. CASE AbortBlobTx(t)
    <2>1. /\ phase[t] \in {"open", "deleted"} /\ phase'[t] = "ended" /\ txMap'[t] = NoTx
          /\ t \notin Once
          /\ \A u \in Tx : u # t => phase'[u] = phase[u] /\ txMap'[u] = txMap[u]
          /\ UNCHANGED put
      BY <1>1, <1>8 DEF AbortBlobTx, TypeOK, Single
    <2>2. Logged(t)'
      BY <1>1, <1>2, <1>3, <2>1, AmLogged
    <2> QED BY <1>3, <2>1, <2>2, OneLogged
  <1>9. ASSUME NEW o \in Offset, PutBlob(t, o) PROVE LInv'
    <2>1. /\ phase[t] = "open" /\ put[t][o] = NoPut /\ t \notin Once
          /\ UNCHANGED <<phase, txMap>>
      BY <1>1, <1>9 DEF PutBlob, Single
    <2>2. PICK q : put' = [put EXCEPT ![t][o] = q] /\ q.dm # "ok"
      <3>1. [put[t][o] EXCEPT !.told = "err"].dm = "no"
        BY <2>1 DEF NoPut
      <3>2. CASE Open(t)
        <4> DEFINE w == [dm |-> "wait", sm |-> "wait", told |-> "no"]
        <4>1. put' = [put EXCEPT ![t][o] = w] /\ w.dm # "ok"
          BY <1>9, <3>2 DEF PutBlob
        <4> HIDE DEF w
        <4> QED BY <4>1
      <3>3. CASE ~Open(t)
        <4> DEFINE e == [put[t][o] EXCEPT !.told = "err"]
        <4>1. put' = [put EXCEPT ![t][o] = e]
          BY <1>9, <3>3 DEF PutBlob
        <4>2. e.dm # "ok"
          BY <3>1
        <4> HIDE DEF e
        <4> QED BY <4>1, <4>2
      <3> QED BY <3>2, <3>3
    <2>3. /\ put'[t][o].dm # "ok"
          /\ \A p \in Offset : p # o => put'[t][p] = put[t][p]
          /\ \A u \in Tx : u # t => put'[u] = put[u]
      <3>1. put' = [put EXCEPT ![t][o] = q]
        BY <2>2
      <3>2. /\ put'[t][o] = q
            /\ \A p \in Offset : p # o => put'[t][p] = put[t][p]
            /\ \A u \in Tx : u # t => put'[u] = put[u]
        BY <3>1, PutChange
      <3> QED BY <2>2, <3>2
    <2>4. /\ ~log[t].del /\ o \notin txMap[t].staged /\ txMap[t].staged \subseteq Offset
          /\ \A p \in txMap[t].staged : put[t][p].dm = "ok" /\ put[t][p].sm = "ok"
      BY <1>1, <1>2, <2>1 DEF Logged, Descriptor
    <2>5. /\ \A p \in txMap[t].staged : put'[t][p].dm = "ok" /\ put'[t][p].sm = "ok"
          /\ \A p \in Offset : put'[t][p].dm = "ok" => put[t][p].dm = "ok"
      BY <2>3, <2>4
    <2>6. Logged(t)'
      BY <1>1, <1>3, <2>1, <2>4, <2>5, AmLogged
    <2> QED BY <1>3, <2>1, <2>3, <2>6, OneLogged
  <1>10. ASSUME NEW o \in Offset, PutBlobOnce(t, o) PROVE LInv'
    <2>1. /\ t \in Once /\ UNCHANGED txMap
          /\ \A u \in Tx : u # t => phase'[u] = phase[u] /\ put'[u] = put[u]
      BY <1>10 DEF PutBlobOnce, TypeOK
    <2> QED BY <1>3, <2>1, OneLogged
  <1> QED BY <1>5, <1>6, <1>7, <1>8, <1>9, <1>10

(* The answer of an SM to a put keeps the invariant.                       *)
LEMMA PutObjectCbLogged ==
    ASSUME TypeOK, IInv, LInv, NEW t \in Tx, NEW o \in Offset, PutObjectCb(t, o)
    PROVE  LInv'
  <1>1. PICK res \in {"ok", "err"} : PutObjectCb(t, o)!2!(res)
    BY DEF PutObjectCb
  <1> DEFINE p == [put[t][o] EXCEPT !.sm = res]
  <1>2. /\ put[t][o].sm = "wait" /\ p \in Put
        /\ p.told = put[t][o].told /\ p.dm = put[t][o].dm /\ p.sm = res
    <2>1. put[t][o] \in Put
      BY DEF TypeOK
    <2> QED BY <2>1 DEF PutObjectCb, Put, Result
  <1>3. UNCHANGED <<log, cat, answers>>
    BY DEF PutObjectCb, dmVars
  <1>4. /\ t \in Once => Single(t)
        /\ t \notin Once => Regular(t)
    BY DEF IInv
  <1> HIDE DEF p
  <1>5. CASE phase[t] # "once"
    <2>1. t \notin Once
      BY <1>2, <1>4, <1>5 DEF Single
    <2>2. PutBlobCb(t, o, p, res) /\ UNCHANGED <<phase, queue>>
      BY <1>1, <1>5 DEF p
    <2> QED BY <1>2, <1>3, <2>1, <2>2, PutHalfLogged
  <1>6. CASE phase[t] = "once"
    <2>1. t \in Once
      BY <1>4, <1>6 DEF Regular
    <2>2. put' = [put EXCEPT ![t][o] = p] /\ UNCHANGED txMap
      BY <1>1, <1>6 DEF p
    <2>3. \A u \in Tx : u # t => put'[u] = put[u]
      BY <2>2, PutChange
    <2>4. \A u \in Tx : u # t => phase'[u] = phase[u]
      BY <1>1, <1>6 DEF TypeOK
    <2> QED BY <1>3, <2>1, <2>2, <2>3, <2>4, OneLogged
  <1> QED BY <1>5, <1>6

(* The answer of the DM to a write keeps the invariant.                    *)
LEMMA DmAnswerLogged ==
    ASSUME TypeOK, IInv, LInv, DmAnswer
    PROVE  LInv'
  <1>1. PICK a \in answers : DmAnswer!(a)
    BY DEF DmAnswer
  <1> DEFINE t == a.tx
  <1>2. t \in Tx /\ (a.op \in {"update", "once"} => a.off \in Offset)
    <2>1. a \in WriteAnswer
      BY DEF TypeOK
    <2> QED BY <2>1 DEF WriteAnswer
  <1>3. answers' \subseteq answers /\ UNCHANGED <<log, cat>>
    BY <1>1 DEF dmVars
  <1>4. /\ Ask(a) \in Flying /\ Awaited(Ask(a))
        /\ Ask(a).op = a.op /\ Ask(a).tx = t /\ Ask(a).off = a.off
    BY DEF Flying, IInv, Ask
  <1>5. /\ t \in Once => Single(t)
        /\ t \notin Once => Regular(t) /\ Logged(t)
        /\ txMap[t] \in Descriptor
    BY <1>2 DEF IInv, LInv, TypeOK
  <1>6. NoTx.op # "put" /\ NoTx.staged = {} /\ NoPut.dm = "no"
    BY DEF NoTx, NoPut
  <1>7. GotOk("commit", t, Null) => phase[t] = "committing"
    BY <1>2, GotAwaited
  <1>8. CASE StartBlobTxCb(a)
    <2>1. phase[t] = "starting" /\ t \notin Once
      BY <1>4, <1>5, <1>8 DEF StartBlobTxCb, Awaited, Single
    <2>2. /\ UNCHANGED put /\ phase'[t] \in {"open", "ended"}
          /\ \A u \in Tx : u # t => phase'[u] = phase[u] /\ txMap'[u] = txMap[u]
          /\ txMap'[t].staged \subseteq txMap[t].staged
      BY <1>2, <1>8 DEF StartBlobTxCb, TypeOK
    <2>3. \A o \in Offset : put[t][o].dm = "no"
      BY <1>5, <1>6, <2>1 DEF Regular
    <2>4. ~log[t].del /\ \A o \in txMap[t].staged : put[t][o].dm = "ok" /\ put[t][o].sm = "ok"
      BY <1>5, <2>1 DEF Logged
    <2> HIDE DEF t
    <2>5. Logged(t)'
      BY <1>2, <1>3, <1>5, <1>7, <2>1, <2>2, <2>4, AmLogged
    <2> QED BY <1>2, <1>3, <2>2, <2>5, OneLogged
  <1>9. CASE UpdateCatalogCb(a)
    <2> DEFINE o == a.off
               res == IF a.res = "ok" THEN "ok" ELSE "err"
               p == [put[t][o] EXCEPT !.dm = res]
    <2>1. /\ o \in Offset /\ put[t][o].dm = "wait"
          /\ PutBlobCb(t, o, p, res) /\ UNCHANGED <<phase, queue>>
          /\ res \in {"ok", "err"}
          /\ res = "ok" => GotOk("update", t, o)
      BY <1>2, <1>4, <1>9 DEF UpdateCatalogCb, Awaited, GotOk
    <2>2. p \in Put /\ p.told = put[t][o].told /\ p.sm = put[t][o].sm /\ p.dm = res
      <3>1. put[t][o] \in Put
        BY <1>2, <2>1 DEF TypeOK
      <3> HIDE DEF res
      <3> QED BY <2>1, <3>1 DEF Put, Result
    <2>3. t \in Tx \ Once
      BY <1>2, <1>5, <2>1 DEF Single
    <2> HIDE DEF t, o, p, res
    <2> QED BY <1>3, <2>1, <2>2, <2>3, PutHalfLogged
  <1>10. CASE DeleteBlobCb(a)
    <2>1. phase[t] = "deleting" /\ t \notin Once
      BY <1>4, <1>5, <1>10 DEF DeleteBlobCb, Awaited, Single
    <2>2. /\ UNCHANGED put /\ phase'[t] = "deleted" /\ txMap'[t] \in {txMap[t], NoTx}
          /\ \A u \in Tx : u # t => phase'[u] = phase[u] /\ txMap'[u] = txMap[u]
      BY <1>2, <1>10 DEF DeleteBlobCb, TypeOK
    <2>3. /\ txMap[t].op # "put"
          /\ \A o \in txMap[t].staged : put[t][o].dm = "ok" /\ put[t][o].sm = "ok"
      BY <1>5, <2>1 DEF Logged
    <2>4. /\ txMap'[t].op # "put"
          /\ \A o \in txMap'[t].staged : put'[t][o].dm = "ok" /\ put'[t][o].sm = "ok"
      BY <1>6, <2>2, <2>3
    <2> HIDE DEF t
    <2>5. Logged(t)'
      BY <1>2, <1>3, <1>5, <2>1, <2>2, <2>4, AmLogged
    <2> QED BY <1>2, <1>3, <2>2, <2>5, OneLogged
  <1>11. CASE CommitBlobTxCb(a)
    <2>1. phase[t] = "committing" /\ t \notin Once
      BY <1>4, <1>5, <1>11 DEF CommitBlobTxCb, Awaited, Single
    <2>2. /\ UNCHANGED put /\ phase'[t] = "ended" /\ txMap'[t] = NoTx
          /\ \A u \in Tx : u # t => phase'[u] = phase[u] /\ txMap'[u] = txMap[u]
      BY <1>2, <1>11 DEF CommitBlobTxCb, TypeOK
    <2> HIDE DEF t
    <2>3. Logged(t)'
      BY <1>2, <1>3, <1>5, <1>6, <2>1, <2>2, AmLogged
    <2> QED BY <1>2, <1>3, <2>2, <2>3, OneLogged
  <1>12. CASE PutBlobOnceCb(a)
    <2>1. phase[t] = "once" /\ t \in Once
      BY <1>2, <1>4, <1>5, <1>12 DEF PutBlobOnceCb, Awaited, Regular
    <2>2. /\ UNCHANGED <<put, txMap>>
          /\ \A u \in Tx : u # t => phase'[u] = phase[u]
      BY <1>2, <1>12 DEF PutBlobOnceCb, TypeOK
    <2> HIDE DEF t
    <2> QED BY <1>2, <1>3, <2>1, <2>2, OneLogged
  <1> QED BY <1>1, <1>8, <1>9, <1>10, <1>11, <1>12

(* The other steps do not touch it.                                        *)
LEMMA OthersLogged ==
    ASSUME LInv, UNCHANGED <<phase, put, txMap, answers, log, cat>>
    PROVE  LInv'
  BY DEF LInv, Logged, LoggedOnce, Has, GotOk

(* What the AM believes of its transactions is in the DM's commit log or   *)
(* in its catalogue, in every reachable state.                             *)
THEOREM LogInvariance == Spec => []LInv
  <1>1. Init => LInv
    <2> SUFFICES ASSUME Init PROVE LInv
      OBVIOUS
    <2>1. ASSUME NEW op, NEW t, NEW o PROVE ~GotOk(op, t, o)
      BY DEF Init, GotOk
    <2>2. ASSUME NEW t \in Tx, NEW k \in Key, NEW i \in DOMAIN cat[k]
          PROVE  cat[k][i].tx # t
      <3>1. cat[k] = <<[tx |-> Old, val |-> Old]>>
        BY DEF Init
      <3>2. cat[k][i].tx = Old
        BY <3>1
      <3> QED BY <3>2, BlobTxAssumption
    <2>3. ASSUME NEW t \in Tx PROVE Logged(t)
      <3>1. /\ \A o \in Offset : put[t][o].dm = "no"
            /\ txMap[t].op = "none" /\ txMap[t].staged = {} /\ ~log[t].del
            /\ phase[t] = "idle"
        BY DEF Init, NoPut, NoTx, NoLog
      <3> QED BY <2>1, <2>2, <3>1 DEF Logged
    <2>4. ASSUME NEW t \in Tx PROVE LoggedOnce(t)
      BY <2>1, <2>2 DEF LoggedOnce
    <2> QED BY <2>3, <2>4, BlobTxAssumption DEF LInv
  <1>2. TypeOK /\ IInv /\ LInv /\ [Next]_vars => LInv'
    <2> SUFFICES ASSUME TypeOK, IInv, LInv, [Next]_vars PROVE LInv'
      OBVIOUS
    <2>1. ASSUME NEW t \in Tx,
                 \/ StartBlobTx(t) \/ DeleteBlob(t) \/ CommitBlobTx(t) \/ AbortBlobTx(t)
                 \/ \E o \in Offset : PutBlob(t, o) \/ PutBlobOnce(t, o)
          PROVE  LInv'
      BY <2>1, ClientLogged
    <2>2. ASSUME NEW t \in Tx, NEW o \in Offset, PutObjectCb(t, o) PROVE LInv'
      BY <2>2, PutObjectCbLogged
    <2>3. CASE DmExecute
      BY <2>3, DmExecuteLogged, DmExecuteLoggedOnce DEF LInv
    <2>4. CASE DmAnswer
      BY <2>4, DmAnswerLogged
    <2>5. ASSUME NEW r \in Reader,
                 \/ \E want \in SUBSET Key : GetBlob(r, want)
                 \/ DmQuery(r) \/ GetOffsetsCb(r) \/ GetBlobCb(r)
          PROVE  LInv'
      BY <2>5, OthersLogged
         DEF GetBlob, DmQuery, GetOffsetsCb, GetBlobCb, amVars, dmVars
    <2>6. ASSUME NEW x \in Object, GetObjectCb(x) PROVE LInv'
      BY <2>6, OthersLogged DEF GetObjectCb, dmVars
    <2>7. ASSUME NEW k \in Key, Evict(k) PROVE LInv'
      BY <2>7, OthersLogged DEF Evict, dmVars
    <2>8. CASE UNCHANGED vars
      BY <2>8, OthersLogged DEF vars
    <2> QED BY <2>1, <2>2, <2>3, <2>4, <2>5, <2>6, <2>7, <2>8 DEF Next
  <1> QED BY <1>1, <1>2, TypeCorrect, Invariance, PTL DEF Spec

-----------------------------------------------------------------------------
(* THE CACHE AND THE READS, STEP BY STEP                                   *)

(* A commit or a putBlobOnce brings its keys into the cache as written.    *)
LEMMA CacheAfterPut ==
    ASSUME TypeOK, NEW t \in Tx, NEW keys \in SUBSET Key, CachePut(t, keys), NEW k \in Key
    PROVE  /\ k \in keys => /\ cache'[k] = [val |-> t, state |-> "clean"]
                            /\ k \in torn' <=> Position(t, k) < acked[k]
           /\ k \notin keys =>
                /\ cache'[k] = cache[k] /\ (k \in torn => k \in torn')
                /\ k \in Whole(t) => \/ k \in torn'
                                     \/ cache[k] = NoEntry /\ \A r \in Reader : ~Carries(r, k)
  <1>1. k \in keys => cache'[k] = Add(cache, k, t, "clean")[k]
    BY DEF CachePut, AddAll
  <1>2. Add(cache, k, t, "clean")[k] = [val |-> t, state |-> "clean"]
    BY DEF Add, TypeOK
  <1>3. k \notin keys => cache'[k] = cache[k]
    BY DEF CachePut, AddAll
  <1>4. /\ k \in keys => (k \in torn' <=> Overtaken(t, k))
        /\ k \notin keys => (k \in torn' <=> k \in torn \/ k \in Unstaged(t, keys))
    BY DEF CachePut, Unstaged
  <1> QED BY <1>1, <1>2, <1>3, <1>4 DEF Overtaken, Unstaged

(* A delete and an eviction remove entries; a read that carries a value of *)
(* the key may put it back.                                                *)
LEMMA CacheAfterRemove ==
    ASSUME TypeOK, NEW keys \in SUBSET Key, CacheRemove(keys), NEW k \in Key
    PROVE  /\ k \in keys => /\ cache'[k] = NoEntry
                            /\ \A r \in Reader : Carries(r, k) => k \in torn'
           /\ k \notin keys => cache'[k] = cache[k] /\ (k \in torn' <=> k \in torn)
  BY DEF CacheRemove

(* A read brings what it carries into the cache, but never over an entry   *)
(* that was written (SharedKvCache::add).                                  *)
LEMMA CacheAfterRead ==
    ASSUME TypeOK, NEW r \in Reader, GetBlobCb(r), NEW k \in Key
    PROVE  /\ cache[k].state = "clean" => cache'[k] = cache[k]
           /\ \/ cache'[k] = cache[k]
              \/ /\ cache'[k] = [val |-> read[r].ids[k], state |-> "dirty"]
                 /\ Carries(r, k) /\ cache[k].state # "clean"
           /\ read'[r] = NoRead /\ \A q \in Reader : q # r => read'[q] = read[q]
  <1> DEFINE c == Add(cache, k, read[r].ids[k], "dirty")[k]
  <1>1. cache'[k] = IF k \in Cacheable(read[r]) THEN c ELSE cache[k]
    BY DEF GetBlobCb, AddAll
  <1>2. c = IF cache[k].state = "clean" THEN cache[k]
            ELSE [val |-> read[r].ids[k], state |-> "dirty"]
    BY DEF Add, TypeOK
  <1>3. k \in Cacheable(read[r]) => Carries(r, k)
    BY DEF Carries, GetBlobCb
  <1>4. read'[r] = NoRead /\ \A q \in Reader : q # r => read'[q] = read[q]
    <2>1. read \in [Reader -> Read] /\ read' = [read EXCEPT ![r] = NoRead]
      BY DEF GetBlobCb, TypeOK
    <2> QED BY <2>1
  <1> QED BY <1>1, <1>2, <1>3, <1>4

(* A read begins: from the cache if it has all keys, else from the DM.     *)
LEMMA ReadBegins ==
    ASSUME TypeOK, NEW r \in Reader, NEW want \in SUBSET Key, GetBlob(r, want),
           NEW k \in Key
    PROVE  /\ \A q \in Reader : q # r => read'[q] = read[q]
           /\ read'[r].want = want /\ read'[r].exempt = torn \cap want
           /\ read'[r].floor[k] = IF k \in want THEN acked[k] ELSE 1
           /\ \/ /\ read'[r].st = "obj" /\ ~read'[r].fromDm
                 /\ \A q \in want : cache[q] # NoEntry
                 /\ read'[r].ids[k] = IF k \in want THEN cache[k].val ELSE Null
              \/ /\ read'[r].st = "dm"
                 /\ read'[r].ids[k] = IF k \in want \cup {Desc} THEN cache[k].val ELSE Null
  <1> DEFINE Cached(keys) == [q \in Key |-> IF q \in keys THEN cache[q].val ELSE Null]
             floor == [q \in Key |-> IF q \in want THEN acked[q] ELSE 1]
             rd == [NoRead EXCEPT !.want = want, !.ids = Cached(want),
                                  !.floor = floor, !.exempt = torn \cap want]
             dm == [rd EXCEPT !.st = "dm", !.fromDm = TRUE,
                              !.ids = Cached(want \cup {Desc}),
                              !.found = cache[Desc] # NoEntry]
  <1>1. /\ rd.want = want /\ rd.exempt = torn \cap want /\ rd.floor = floor
        /\ ~rd.fromDm /\ rd.ids = Cached(want)
        /\ dm.want = want /\ dm.exempt = torn \cap want /\ dm.floor = floor
        /\ dm.st = "dm" /\ dm.ids = Cached(want \cup {Desc})
    BY DEF NoRead
  <1>2. CASE GetObjects(r, rd) /\ \A q \in want : cache[q] # NoEntry
    <2>1. PICK miss : read' = [read EXCEPT ![r] = [rd EXCEPT !.st = "obj", !.wait = miss]]
      BY <1>2 DEF GetObjects
    <2> DEFINE ob == [rd EXCEPT !.st = "obj", !.wait = miss]
    <2>2. /\ ob.want = want /\ ob.exempt = torn \cap want /\ ob.floor = floor
          /\ ~ob.fromDm /\ ob.ids = Cached(want) /\ ob.st = "obj"
      BY <1>1 DEF NoRead
    <2>3. read'[r] = ob /\ \A q \in Reader : q # r => read'[q] = read[q]
      BY <2>1 DEF TypeOK
    <2> HIDE DEF ob, rd, dm
    <2> QED BY <1>2, <2>2, <2>3
  <1>3. CASE read' = [read EXCEPT ![r] = dm]
    <2>1. read'[r] = dm /\ \A q \in Reader : q # r => read'[q] = read[q]
      BY <1>3 DEF TypeOK
    <2> HIDE DEF rd, dm
    <2> QED BY <1>1, <2>1
  <1> HIDE DEF rd, dm
  <1> QED BY <1>2, <1>3 DEF GetBlob, rd, dm

(* The DM answers a read.                                                  *)
LEMMA ReadAnswered ==
    ASSUME TypeOK, NEW r \in Reader, DmQuery(r), NEW k \in Key
    PROVE  /\ \A q \in Reader : q # r => read'[q] = read[q]
           /\ read[r].st = "dm" /\ read'[r].st = "answered"
           /\ read'[r].want = read[r].want /\ read'[r].exempt = read[r].exempt
           /\ read'[r].floor = read[r].floor /\ read'[r].fromDm = read[r].fromDm
           /\ read'[r].wait = read[r].wait
           /\ \/ /\ UNCHANGED torn
                 /\ read'[r].ids[k] = IF k \in read[r].want \cup {Desc} /\ Current(k) # Null
                                      THEN Current(k) ELSE read[r].ids[k]
              \/ /\ torn' = torn \cup NotLearnt(r)
                 /\ read'[r].ids = read[r].ids /\ read'[r].err
                 /\ Cacheable(read'[r]) = Cacheable([read[r] EXCEPT !.err = TRUE])
  <1> DEFINE ids == [q \in Key |-> IF q \in read[r].want \cup {Desc} /\ Current(q) # Null
                                   THEN Current(q) ELSE read[r].ids[q]]
             answered == [read[r] EXCEPT !.st = "answered", !.err = ~BlobExists,
                                         !.found = read[r].found \/ BlobExists, !.ids = ids]
             failed == [read[r] EXCEPT !.st = "answered", !.err = TRUE]
  <1>1. read[r] \in Read /\ read[r].st = "dm"
    BY DEF TypeOK, DmQuery
  <1>2. \/ read' = [read EXCEPT ![r] = answered] /\ UNCHANGED torn
        \/ read' = [read EXCEPT ![r] = failed] /\ torn' = torn \cup NotLearnt(r)
    BY DEF DmQuery
  <1>3. /\ answered.st = "answered" /\ answered.ids = ids
        /\ answered.want = read[r].want /\ answered.exempt = read[r].exempt
        /\ answered.floor = read[r].floor /\ answered.fromDm = read[r].fromDm
        /\ answered.wait = read[r].wait
    <2> HIDE DEF ids
    <2> QED BY <1>1 DEF Read
  <1>4. /\ failed.st = "answered" /\ failed.ids = read[r].ids /\ failed.err
        /\ failed.want = read[r].want /\ failed.exempt = read[r].exempt
        /\ failed.floor = read[r].floor /\ failed.fromDm = read[r].fromDm
        /\ failed.wait = read[r].wait
        /\ Cacheable(failed) = Cacheable([read[r] EXCEPT !.err = TRUE])
    BY <1>1 DEF Read, Cacheable
  <1> HIDE DEF answered, failed
  <1>5. \/ read'[r] = answered /\ UNCHANGED torn
        \/ read'[r] = failed /\ torn' = torn \cup NotLearnt(r)
    BY <1>2 DEF TypeOK
  <1>6. \A q \in Reader : q # r => read'[q] = read[q]
    BY <1>2 DEF TypeOK
  <1> QED BY <1>1, <1>3, <1>4, <1>5, <1>6

(* The other steps of a read keep what it found; an error stays one.       *)
LEMMA ReadGoesOn ==
    ASSUME TypeOK, NEW r \in Reader,
           (\E q \in Reader : GetOffsetsCb(q)) \/ (\E x \in Object : GetObjectCb(x))
    PROVE  /\ read'[r].want = read[r].want /\ read'[r].exempt = read[r].exempt
           /\ read'[r].floor = read[r].floor /\ read'[r].fromDm = read[r].fromDm
           /\ read'[r].ids = read[r].ids /\ read'[r].found = read[r].found
           /\ read[r].err => read'[r].err
           /\ \/ read'[r].st = read[r].st
              \/ read[r].st = "answered" /\ read'[r].st = "obj"
  <1>1. read[r] \in Read
    BY DEF TypeOK
  <1>2. ASSUME NEW q \in Reader, GetOffsetsCb(q), q = r
        PROVE  read[r].st = "answered" /\
               \E w : read'[r] = [read[r] EXCEPT !.st = "obj", !.wait = w]
    <2>1. CASE read[r].err
      <3>1. read'[r] = [read[r] EXCEPT !.st = "obj"]
        BY <1>2, <2>1 DEF GetOffsetsCb, TypeOK
      <3>2. [read[r] EXCEPT !.st = "obj"] = [read[r] EXCEPT !.st = "obj", !.wait = read[r].wait]
        BY <1>1 DEF Read
      <3> QED BY <1>2, <3>1, <3>2 DEF GetOffsetsCb
    <2>2. CASE ~read[r].err
      <3>1. PICK miss : read' = [read EXCEPT ![r] = [read[r] EXCEPT !.st = "obj", !.wait = miss]]
        BY <1>2, <2>2 DEF GetOffsetsCb, GetObjects
      <3> QED BY <1>2, <3>1 DEF TypeOK, GetOffsetsCb
    <2> QED BY <2>1, <2>2
  <1>3. ASSUME NEW q \in Reader, GetOffsetsCb(q), q # r PROVE read'[r] = read[r]
    BY <1>3 DEF GetOffsetsCb, GetObjects, TypeOK
  <1>4. ASSUME NEW x \in Object, GetObjectCb(x)
        PROVE  /\ read'[r].want = read[r].want /\ read'[r].exempt = read[r].exempt
               /\ read'[r].floor = read[r].floor /\ read'[r].fromDm = read[r].fromDm
               /\ read'[r].ids = read[r].ids /\ read'[r].found = read[r].found
               /\ read[r].err => read'[r].err
               /\ read'[r].st = read[r].st
    <2>1. PICK ok \in BOOLEAN : GetObjectCb(x)!3!(ok)
      BY <1>4 DEF GetObjectCb
    <2> DEFINE e == read[r].err \/ ~ok
               w == read[r].wait \ {x}
    <2>2. \/ read'[r] = read[r]
          \/ read'[r] = [read[r] EXCEPT !.wait = w, !.err = e]
      BY <2>1
    <2>3. read[r].err => e
      OBVIOUS
    <2> HIDE DEF e, w
    <2> QED BY <1>1, <2>2, <2>3 DEF Read
  <1>5. ASSUME NEW w, read'[r] = [read[r] EXCEPT !.st = "obj", !.wait = w]
        PROVE  /\ read'[r].want = read[r].want /\ read'[r].exempt = read[r].exempt
               /\ read'[r].floor = read[r].floor /\ read'[r].fromDm = read[r].fromDm
               /\ read'[r].ids = read[r].ids /\ read'[r].found = read[r].found
               /\ read'[r].err = read[r].err /\ read'[r].st = "obj"
    BY <1>1, <1>5 DEF Read
  <1>6. ASSUME NEW q \in Reader, GetOffsetsCb(q)
        PROVE  /\ read'[r].want = read[r].want /\ read'[r].exempt = read[r].exempt
               /\ read'[r].floor = read[r].floor /\ read'[r].fromDm = read[r].fromDm
               /\ read'[r].ids = read[r].ids /\ read'[r].found = read[r].found
               /\ read[r].err => read'[r].err
               /\ \/ read'[r].st = read[r].st
                  \/ read[r].st = "answered" /\ read'[r].st = "obj"
    <2>1. CASE q = r
      <3>1. PICK w : read'[r] = [read[r] EXCEPT !.st = "obj", !.wait = w]
        BY <1>2, <1>6, <2>1
      <3> QED BY <1>2, <1>5, <1>6, <2>1, <3>1
    <2>2. CASE q # r
      BY <1>3, <1>6, <2>2
    <2> QED BY <2>1, <2>2
  <1> QED BY <1>4, <1>6

-----------------------------------------------------------------------------
(* WHAT READERS SEE                                                        *)

(* A value in the catalogue is the one of the transaction that wrote it    *)
Owned ==
    \A k \in Key : \A i \in DOMAIN cat[k] :
        cat[k][i].val # Null => cat[k][i].tx = cat[k][i].val

(* What is in the cache, or in the hands of a read, was committed          *)
CInv ==
    /\ Owned
    /\ ReadCommitted
    /\ \A r \in Reader, k \in Key :
         read[r].ids[k] # Null => Has(k, read[r].ids[k])

(* Where a transaction is in the history of a key it wrote.                *)
LEMMA PositionFound ==
    ASSUME TypeOK, NEW t \in Tx, NEW k \in Key
    PROVE  /\ Position(t, k) # 0 => Position(t, k) \in DOMAIN cat[k]
           /\ Owned /\ Has(k, t) => /\ Position(t, k) \in DOMAIN cat[k]
                                    /\ cat[k][Position(t, k)].tx = t
  <1>1. Position(t, k) # 0 => Position(t, k) \in DOMAIN cat[k]
    BY DEF Position
  <1>2. ASSUME Owned, Has(k, t)
        PROVE  Position(t, k) \in DOMAIN cat[k] /\ cat[k][Position(t, k)].tx = t
    <2>1. t # Null
      BY BlobTxAssumption
    <2>2. \E i \in DOMAIN cat[k] : cat[k][i].tx = t
      BY <1>2, <2>1 DEF Owned, Has
    <2> QED BY <2>2 DEF Position
  <1> QED BY <1>1, <1>2

(* What the answer to a commit or to a putBlobOnce does to the entry of a  *)
(* key: nothing, if the key was not written, or was not staged, when an    *)
(* old value is marked; the value goes there, and it is in the catalogue;  *)
(* or the entry is removed.                                                *)
LEMMA AnswerCaches ==
    ASSUME TypeOK, IInv, LInv, Owned, DmAnswer, NEW k \in Key
    PROVE  /\ UNCHANGED <<read, cat>>
           /\ \/ /\ cache'[k] = cache[k] /\ (k \in torn => k \in torn')
                 /\ \/ acked'[k] = acked[k]
                    \/ /\ acked'[k] \in DOMAIN cat[k]
                       /\ \/ k \in torn'
                          \/ cache[k] = NoEntry /\ \A r \in Reader : ~Carries(r, k)
              \/ \E t \in Tx, n \in DOMAIN cat[k] :
                    /\ cache'[k] = [val |-> t, state |-> "clean"]
                    /\ cat[k][n].val = t
                    /\ k \in torn' <=> n < acked[k]
                    /\ acked'[k] = IF n > acked[k] THEN n ELSE acked[k]
              \/ /\ cache'[k] = NoEntry
                 /\ \A r \in Reader : Carries(r, k) => k \in torn'
                 /\ acked'[k] = acked[k] \/ acked'[k] \in DOMAIN cat[k]
  <1>1. PICK a \in answers : DmAnswer!(a)
    BY DEF DmAnswer
  <1> DEFINE t == a.tx
  <1>2. /\ t \in Tx
        /\ a.op = "once" => a.off \in Offset
        /\ a.op = "commit" => a.off = Null
    <2>1. a \in WriteAnswer
      BY DEF TypeOK
    <2> QED BY <2>1 DEF WriteAnswer
  <1>3. UNCHANGED <<read, cat>>
    BY <1>1 DEF dmVars
  <1>4. /\ Ask(a) \in Flying /\ Awaited(Ask(a))
        /\ Ask(a).op = a.op /\ Ask(a).tx = t /\ Ask(a).off = a.off
    BY DEF Flying, IInv, Ask
  <1>5. ASSUME NEW keys \in SUBSET Key, CachePut(t, keys), k \in keys,
               acked'[k] = IF Position(t, k) > acked[k] THEN Position(t, k) ELSE acked[k],
               Has(k, t), \A i \in DOMAIN cat[k] : cat[k][i].tx = t => cat[k][i].val = t
        PROVE  \E u \in Tx, n \in DOMAIN cat[k] :
                    /\ cache'[k] = [val |-> u, state |-> "clean"]
                    /\ cat[k][n].val = u
                    /\ k \in torn' <=> n < acked[k]
                    /\ acked'[k] = IF n > acked[k] THEN n ELSE acked[k]
    <2> HIDE DEF t
    <2>1. /\ cache'[k] = [val |-> t, state |-> "clean"]
          /\ k \in torn' <=> Position(t, k) < acked[k]
      BY <1>2, <1>5, CacheAfterPut
    <2>2. Position(t, k) \in DOMAIN cat[k] /\ cat[k][Position(t, k)].val = t
      BY <1>2, <1>5, PositionFound
    <2> QED BY <1>2, <1>5, <2>1, <2>2
  <1>6. CASE CommitBlobTxCb(a)
    <2>1. phase[t] = "committing" /\ t \notin Once
      <3>1. t \in Once => Single(t)
        BY <1>2 DEF IInv
      <3> QED BY <1>4, <1>6, <3>1 DEF CommitBlobTxCb, Awaited, Single
    <2>2. Logged(t) /\ txMap[t].staged \subseteq Offset
      BY <1>2, <2>1 DEF LInv, TypeOK, Descriptor
    <2> DEFINE keys == txMap[t].staged \cup {Desc}
    <2>3. keys \in SUBSET Key /\ keys \subseteq Whole(t)
      BY <2>2 DEF Key, Whole, Logged
    <2>4. CASE /\ a.res = "ok" /\ txMap[t].op = "put" /\ CachePut(t, keys)
               /\ Acknowledge(t, Whole(t))
      <3>1. GotOk("commit", t, Null)
        BY <1>2, <1>6, <2>4 DEF GotOk, CommitBlobTxCb
      <3>2. CASE k \in keys
        <4>1. Has(k, t)
          BY <2>2, <2>4, <3>1, <3>2 DEF Logged
        <4>2. \A i \in DOMAIN cat[k] : cat[k][i].tx = t => cat[k][i].val = t
          BY <2>2, <2>4 DEF Logged
        <4>3. acked'[k] = IF Position(t, k) > acked[k] THEN Position(t, k) ELSE acked[k]
          BY <2>3, <2>4, <3>2 DEF Acknowledge
        <4> HIDE DEF t, keys
        <4> QED BY <1>3, <1>5, <2>3, <2>4, <3>2, <4>1, <4>2, <4>3
      <3>3. CASE k \notin keys
        <4>1. /\ cache'[k] = cache[k] /\ (k \in torn => k \in torn')
              /\ k \in Whole(t) => \/ k \in torn'
                                   \/ cache[k] = NoEntry /\ \A r \in Reader : ~Carries(r, k)
          <5> HIDE DEF t, keys
          <5> QED BY <1>2, <2>3, <2>4, <3>3, CacheAfterPut
        <4>2. \/ acked'[k] = acked[k]
              \/ k \in Whole(t) /\ acked'[k] \in DOMAIN cat[k]
          <5>1. \/ acked'[k] = acked[k]
                \/ /\ k \in Whole(t) /\ acked'[k] = Position(t, k)
                   /\ Position(t, k) > acked[k]
            BY <2>4 DEF Acknowledge
          <5>2. acked[k] \in Nat
            BY DEF TypeOK
          <5>3. Position(t, k) # 0 => Position(t, k) \in DOMAIN cat[k]
            BY <1>2, PositionFound
          <5> HIDE DEF t
          <5> QED BY <5>1, <5>2, <5>3
        <4> HIDE DEF t
        <4> QED BY <1>3, <4>1, <4>2
      <3> QED BY <3>2, <3>3
    <2>5. CASE CacheRemove(Key) /\ Acknowledge(t, Key)
      <3>1. /\ cache'[k] = NoEntry
            /\ \A r \in Reader : Carries(r, k) => k \in torn'
        BY <2>5, CacheAfterRemove
      <3>2. acked'[k] = IF Position(t, k) > acked[k] THEN Position(t, k) ELSE acked[k]
        BY <2>5 DEF Acknowledge
      <3>3. acked[k] \in Nat
        BY DEF TypeOK
      <3>4. Position(t, k) # 0 => Position(t, k) \in DOMAIN cat[k]
        BY <1>2, PositionFound
      <3>5. acked'[k] = acked[k] \/ acked'[k] \in DOMAIN cat[k]
        BY <3>2, <3>3, <3>4
      <3> QED BY <1>3, <3>1, <3>5
    <2>6. CASE UNCHANGED <<cache, ghosts>>
      BY <1>3, <2>6 DEF ghosts
    <2> QED BY <1>6, <2>4, <2>5, <2>6 DEF CommitBlobTxCb
  <1>7. CASE PutBlobOnceCb(a)
    <2>1. t \in Once
      <3>1. t \notin Once => Regular(t)
        BY <1>2 DEF IInv
      <3> QED BY <1>4, <1>7, <3>1 DEF PutBlobOnceCb, Awaited, Regular
    <2>2. LoggedOnce(t)
      BY <2>1 DEF LInv
    <2> DEFINE keys == {a.off, Desc}
    <2>3. keys \in SUBSET Key
      BY <1>2, <1>7 DEF PutBlobOnceCb, Key
    <2>4. CASE a.res = "ok" /\ CachePut(t, keys) /\ Acknowledge(t, keys)
      <3>1. GotOk("once", t, a.off) /\ a.off \in Offset
        BY <1>2, <1>7, <2>4 DEF GotOk, PutBlobOnceCb
      <3>2. CASE k \in keys
        <4>1. Has(k, t)
          BY <2>2, <3>1, <3>2 DEF LoggedOnce
        <4>2. \A i \in DOMAIN cat[k] : cat[k][i].tx = t => cat[k][i].val = t
          BY <2>2 DEF LoggedOnce
        <4>3. acked'[k] = IF Position(t, k) > acked[k] THEN Position(t, k) ELSE acked[k]
          BY <2>4, <3>2 DEF Acknowledge
        <4> HIDE DEF t, keys
        <4> QED BY <1>3, <1>5, <2>3, <2>4, <3>2, <4>1, <4>2, <4>3
      <3>3. CASE k \notin keys
        <4>1. cache'[k] = cache[k] /\ (k \in torn => k \in torn')
          <5> HIDE DEF t, keys
          <5> QED BY <1>2, <2>3, <2>4, <3>3, CacheAfterPut
        <4>2. acked'[k] = acked[k]
          BY <2>4, <3>3 DEF Acknowledge
        <4> QED BY <1>3, <4>1, <4>2
      <3> QED BY <3>2, <3>3
    <2>5. CASE UNCHANGED <<cache, ghosts>>
      BY <1>3, <2>5 DEF ghosts
    <2> QED BY <1>7, <2>4, <2>5 DEF PutBlobOnceCb
  <1>8. CASE StartBlobTxCb(a) \/ UpdateCatalogCb(a) \/ DeleteBlobCb(a)
    BY <1>3, <1>8 DEF StartBlobTxCb, UpdateCatalogCb, DeleteBlobCb, ghosts
  <1> QED BY <1>1, <1>6, <1>7, <1>8

(* The steps that leave cache and reads alone, and the ones that do not.   *)
LEMMA StepKinds ==
    ASSUME [Next]_vars
    PROVE  \/ UNCHANGED <<cache, read, acked, torn>>
           \/ DmAnswer
           \/ \E k \in Key : Evict(k)
           \/ \E r \in Reader : GetBlobCb(r)
           \/ \E r \in Reader, want \in SUBSET Key : GetBlob(r, want)
           \/ \E r \in Reader : DmQuery(r)
           \/ (\E r \in Reader : GetOffsetsCb(r)) \/ (\E x \in Object : GetObjectCb(x))
  <1>1. ASSUME NEW t \in Tx,
               StartBlobTx(t) \/ DeleteBlob(t) \/ CommitBlobTx(t) \/ AbortBlobTx(t)
        PROVE  UNCHANGED <<cache, read, acked, torn>>
    BY <1>1 DEF StartBlobTx, DeleteBlob, CommitBlobTx, AbortBlobTx, ghosts
  <1>2. ASSUME NEW t \in Tx, NEW o \in Offset,
               PutBlob(t, o) \/ PutBlobOnce(t, o) \/ PutObjectCb(t, o)
        PROVE  UNCHANGED <<cache, read, acked, torn>>
    BY <1>2 DEF PutBlob, PutBlobOnce, PutObjectCb, ghosts
  <1>3. CASE DmExecute
    BY <1>3 DEF DmExecute, amVars, ghosts
  <1>4. CASE UNCHANGED vars
    BY <1>4 DEF vars
  <1> QED BY <1>1, <1>2, <1>3, <1>4 DEF Next

(* The catalogue had its current values.                                   *)
LEMMA CurrentIsLast ==
    ASSUME TypeOK, NEW k \in Key
    PROVE  /\ Len(cat[k]) \in Nat /\ Len(cat[k]) > 0
           /\ DOMAIN cat[k] = 1 .. Len(cat[k])
           /\ cat[k][Len(cat[k])].val = Current(k)
  <1> DEFINE h == cat[k]
  <1>1. h \in Seq([tx : Value, val : Value]) /\ h # <<>>
    BY DEF TypeOK, History
  <1>2. Len(h) \in Nat /\ Len(h) > 0 /\ DOMAIN h = 1 .. Len(h)
    BY <1>1
  <1> QED BY <1>2 DEF Current

(* Every step keeps what is known of the catalogue and of the cache.       *)
LEMMA NextCInv ==
    ASSUME TypeOK, IInv, LInv, CInv, [Next]_vars
    PROVE  CInv'
  <1>1. ASSUME NEW k \in Key, NEW v, Has(k, v) PROVE Has(k, v)'
    BY <1>1, HasStays
  <1>2. Owned'
    <2> SUFFICES ASSUME NEW k \in Key, NEW i \in DOMAIN cat'[k], cat'[k][i].val # Null
                 PROVE  cat'[k][i].tx = cat'[k][i].val
      BY DEF Owned
    <2>1. CASE cat'[k] = cat[k]
      BY <2>1 DEF CInv, Owned
    <2>2. CASE cat'[k] # cat[k]
      <3> DEFINE m == Head(queue)
      <3>1. DmExecute /\ cat' = Execute(m).cat
        BY <2>2, Grows
      <3>2. m \in Write
        BY <3>1 DEF DmExecute, TypeOK
      <3>3. m.tx \in Value /\ Null \in Value
        BY <3>2 DEF Write, Value
      <3> HIDE DEF m
      <3>4. PICK v \in {m.tx, Null} : cat'[k] = Append(cat[k], [tx |-> m.tx, val |-> v])
        BY <2>2, <3>1, <3>2, ExecuteHistory
      <3>5. \/ i \in DOMAIN cat[k] /\ cat'[k][i] = cat[k][i]
            \/ cat'[k][i].tx = m.tx /\ cat'[k][i].val = v
        BY <3>3, <3>4, HasAdded
      <3> QED BY <3>4, <3>5 DEF CInv, Owned
    <2> QED BY <2>1, <2>2
  <1>3. ASSUME NEW k \in Key, cache[k].val # Null PROVE Has(k, cache[k].val)
    BY <1>3 DEF CInv, ReadCommitted, Has
  <1>4. ASSUME NEW r \in Reader, NEW k \in Key, read[r].ids[k] # Null
        PROVE  Has(k, read[r].ids[k])
    BY <1>4 DEF CInv
  <1>5. ASSUME NEW k \in Key,
               \/ cache'[k] = cache[k] \/ cache'[k].val = Null
               \/ Has(k, cache'[k].val),
               cache'[k].val # Null
        PROVE  \E i \in DOMAIN cat'[k] : cat'[k][i].val = cache'[k].val
    <2>1. Has(k, cache'[k].val)
      BY <1>3, <1>5
    <2> QED BY <2>1, Grows DEF Has
  <1>6. ASSUME NEW r \in Reader, NEW k \in Key,
               \/ read'[r].ids[k] = read[r].ids[k] \/ read'[r].ids[k] = Null
               \/ Has(k, read'[r].ids[k]),
               read'[r].ids[k] # Null
        PROVE  Has(k, read[r].ids[k])'
    <2>1. Has(k, read'[r].ids[k])
      BY <1>4, <1>6
    <2> QED BY <2>1, Grows DEF Has
  <1>7. ASSUME NEW k \in Key
        PROVE  /\ \/ cache'[k] = cache[k] \/ cache'[k].val = Null
                  \/ Has(k, cache'[k].val)
               /\ \A r \in Reader : \/ read'[r].ids[k] = read[r].ids[k]
                                    \/ read'[r].ids[k] = Null
                                    \/ Has(k, read'[r].ids[k])
    <2>1. CASE UNCHANGED <<cache, read, acked, torn>>
      BY <2>1
    <2>2. CASE DmAnswer
      <3>1. UNCHANGED read
        BY <2>2, AnswerCaches DEF CInv
      <3>2. \/ cache'[k] = cache[k] \/ cache'[k] = NoEntry
            \/ \E t \in Tx, n \in DOMAIN cat[k] :
                 cache'[k] = [val |-> t, state |-> "clean"] /\ cat[k][n].val = t
        BY <2>2, AnswerCaches DEF CInv
      <3>3. NoEntry.val = Null
        BY DEF NoEntry
      <3>4. \/ cache'[k] = cache[k] \/ cache'[k].val = Null
            \/ \E n \in DOMAIN cat[k] : cat[k][n].val = cache'[k].val
        <4>1. ASSUME NEW t \in Tx, NEW n \in DOMAIN cat[k],
                     cache'[k] = [val |-> t, state |-> "clean"], cat[k][n].val = t
              PROVE  cat[k][n].val = cache'[k].val
          BY <4>1
        <4> QED BY <3>2, <3>3, <4>1
      <3> QED BY <3>1, <3>4 DEF Has
    <2>3. ASSUME NEW q \in Key, Evict(q)
          PROVE  (cache'[k] = cache[k] \/ cache'[k].val = Null) /\ UNCHANGED read
      <3>1. cache'[k] \in {cache[k], NoEntry} /\ UNCHANGED read
        BY <2>3 DEF Evict, CacheRemove
      <3> QED BY <3>1 DEF NoEntry
    <2>4. ASSUME NEW r \in Reader, GetBlobCb(r)
          PROVE  /\ \/ cache'[k] = cache[k] \/ cache'[k].val = Null
                    \/ Has(k, cache'[k].val)
                 /\ \A q \in Reader : \/ read'[q].ids[k] = read[q].ids[k]
                                      \/ read'[q].ids[k] = Null
      <3>1. /\ \/ cache'[k] = cache[k]
               \/ cache'[k].val = read[r].ids[k]
            /\ read'[r] = NoRead /\ \A q \in Reader : q # r => read'[q] = read[q]
        <4>1. /\ \/ cache'[k] = cache[k]
                 \/ cache'[k] = [val |-> read[r].ids[k], state |-> "dirty"]
              /\ read'[r] = NoRead /\ \A q \in Reader : q # r => read'[q] = read[q]
          BY <2>4, CacheAfterRead
        <4> QED BY <4>1
      <3>2. NoRead.ids[k] = Null
        BY DEF NoRead
      <3> QED BY <1>4, <3>1, <3>2
    <2>5. ASSUME NEW r \in Reader, NEW want \in SUBSET Key, GetBlob(r, want)
          PROVE  /\ UNCHANGED cache
                 /\ \A q \in Reader : \/ read'[q].ids[k] = read[q].ids[k]
                                      \/ read'[q].ids[k] = Null
                                      \/ Has(k, read'[q].ids[k])
      <3>1. /\ \A q \in Reader : q # r => read'[q] = read[q]
            /\ read'[r].ids[k] \in {cache[k].val, Null}
        BY <2>5, ReadBegins
      <3>2. UNCHANGED cache
        BY <2>5 DEF GetBlob, amVars
      <3> QED BY <1>3, <3>1, <3>2
    <2>6. ASSUME NEW r \in Reader, DmQuery(r)
          PROVE  /\ UNCHANGED cache
                 /\ \A q \in Reader : \/ read'[q].ids[k] = read[q].ids[k]
                                      \/ Has(k, read'[q].ids[k])
      <3>1. /\ \A q \in Reader : q # r => read'[q] = read[q]
            /\ read'[r].ids[k] \in {Current(k), read[r].ids[k]}
        BY <2>6, ReadAnswered
      <3>2. Has(k, Current(k))
        BY CurrentIsLast DEF Has
      <3>3. UNCHANGED cache
        BY <2>6 DEF DmQuery, amVars
      <3> QED BY <3>1, <3>2, <3>3
    <2>7. CASE (\E r \in Reader : GetOffsetsCb(r)) \/ (\E x \in Object : GetObjectCb(x))
      <3>1. \A q \in Reader : read'[q].ids = read[q].ids
        BY <2>7, ReadGoesOn
      <3>2. UNCHANGED cache
        BY <2>7 DEF GetOffsetsCb, GetObjectCb, amVars
      <3> QED BY <3>1, <3>2
    <2> QED BY <2>1, <2>2, <2>3, <2>4, <2>5, <2>6, <2>7, StepKinds
  <1> QED BY <1>2, <1>5, <1>6, <1>7 DEF CInv, ReadCommitted

(* What is in the cache, and what a read has, was committed.               *)
THEOREM CInvariance == Spec => []CInv
  <1>1. Init => CInv
    <2> SUFFICES ASSUME Init PROVE CInv
      OBVIOUS
    <2>1. Owned
      <3> SUFFICES ASSUME NEW k \in Key, NEW i \in DOMAIN cat[k]
                   PROVE  cat[k][i].tx = cat[k][i].val
        BY DEF Owned
      <3>1. cat[k] = <<[tx |-> Old, val |-> Old]>>
        BY DEF Init
      <3> QED BY <3>1
    <2> QED BY <2>1 DEF Init, CInv, ReadCommitted, NoEntry, NoRead
  <1>2. TypeOK /\ IInv /\ LInv /\ CInv /\ [Next]_vars => CInv'
    BY NextCInv
  <1> QED BY <1>1, <1>2, TypeCorrect, Invariance, LogInvariance, PTL DEF Spec

(* What the cache holds was committed, whatever the number of transactions *)
(* and readers and whatever fails: staged data of a transaction that is    *)
(* open, was aborted or failed never gets there (AmTxManager::             *)
(* commitBlobTxCb, AmCache::updateCatalogCb).                              *)
THEOREM CacheCommitted == Spec => []ReadCommitted
  <1>1. CInv => ReadCommitted
    BY DEF CInv
  <1> QED BY <1>1, CInvariance, PTL

-----------------------------------------------------------------------------
(* FRESH READS                                                             *)

(* The catalogue had the value at or after entry n                         *)
At(k, v, n) == \E i \in n .. Len(cat[k]) : cat[k][i].val = v

(* The entry of a key is at least as new as its last acknowledged write    *)
FreshEntry(k) ==
    /\ acked[k] \in 1 .. Len(cat[k])
    /\ cache[k] # NoEntry /\ k \notin torn => At(k, cache[k].val, acked[k])

(* So is a value a read may still put into the cache, unless the cache     *)
(* will not take it; and what a read has of a key it asked for is at least *)
(* as new as the last write acknowledged when it began                     *)
FreshRead(r, k) ==
    /\ Carries(r, k) => \/ cache[k].state = "clean" \/ k \in torn
                        \/ At(k, read[r].ids[k], acked[k])
    /\ read[r].floor[k] \in 1 .. Len(cat[k])
    /\ read[r].st = "dm" /\ k \in read[r].want \ read[r].exempt =>
         read[r].ids[k] = Null \/ At(k, read[r].ids[k], read[r].floor[k])
    /\ read[r].st \in {"answered", "obj"} /\ ~read[r].err
         /\ k \in read[r].want \ read[r].exempt =>
         At(k, read[r].ids[k], read[r].floor[k])

FInv == \A k \in Key : FreshEntry(k) /\ \A r \in Reader : FreshRead(r, k)

(* The DM's next write does not make old what is fresh.                    *)
LEMMA AtStays ==
    ASSUME TypeOK, [Next]_vars, NEW k \in Key, NEW v, NEW n \in 1 .. Len(cat[k]),
           At(k, v, n)
    PROVE  At(k, v, n)'
  <1>1. PICK i \in n .. Len(cat[k]) : cat[k][i].val = v
    BY DEF At
  <1>2. i \in DOMAIN cat[k] /\ i \in n .. Len(cat'[k])
    BY <1>1, Grows
  <1>3. cat'[k][i] = cat[k][i]
    BY <1>2, Grows
  <1> QED BY <1>1, <1>2, <1>3 DEF At

(* Nothing is fresher than the current value.                              *)
LEMMA CurrentAt ==
    ASSUME TypeOK, NEW k \in Key, NEW n \in 1 .. Len(cat[k])
    PROVE  At(k, Current(k), n)
  <1>1. /\ Len(cat[k]) \in Nat /\ Len(cat[k]) > 0
        /\ cat[k][Len(cat[k])].val = Current(k)
    BY CurrentIsLast
  <1>2. Len(cat[k]) \in n .. Len(cat[k])
    BY <1>1
  <1> QED BY <1>1, <1>2 DEF At

(* A step of the DM, and steps that touch neither cache nor reads.         *)
LEMMA QuietFresh ==
    ASSUME TypeOK, [Next]_vars, FInv, UNCHANGED <<cache, read, acked, torn>>,
           NEW k \in Key
    PROVE  FreshEntry(k)' /\ \A r \in Reader : FreshRead(r, k)'
  <1>1. 1 .. Len(cat[k]) \subseteq 1 .. Len(cat'[k])
    BY Grows
  <1>2. FreshEntry(k)'
    <2>1. FreshEntry(k) /\ acked[k] \in 1 .. Len(cat[k])
      BY DEF FInv, FreshEntry
    <2>2. ASSUME At(k, cache[k].val, acked[k]) PROVE At(k, cache[k].val, acked[k])'
      <3>1. PICK v, n : v = cache[k].val /\ n = acked[k]
        OBVIOUS
      <3>2. At(k, v, n)'
        BY <2>1, <2>2, <3>1, AtStays
      <3> QED BY <3>1, <3>2 DEF At
    <2> QED BY <1>1, <2>1, <2>2 DEF FreshEntry
  <1>3. ASSUME NEW r \in Reader PROVE FreshRead(r, k)'
    <2>1. FreshRead(r, k) /\ read[r].floor[k] \in 1 .. Len(cat[k]) /\ acked[k] \in 1 .. Len(cat[k])
      BY DEF FInv, FreshEntry, FreshRead
    <2>2. ASSUME NEW v, NEW n \in 1 .. Len(cat[k]), At(k, v, n) PROVE At(k, v, n)'
      BY <2>2, AtStays
    <2>3. ASSUME At(k, read[r].ids[k], acked[k]) PROVE At(k, read[r].ids[k], acked[k])'
      <3>1. PICK v, n : v = read[r].ids[k] /\ n = acked[k]
        OBVIOUS
      <3>2. At(k, v, n)'
        BY <2>1, <2>2, <2>3, <3>1
      <3> QED BY <3>1, <3>2 DEF At
    <2>4. ASSUME At(k, read[r].ids[k], read[r].floor[k])
          PROVE  At(k, read[r].ids[k], read[r].floor[k])'
      <3>1. PICK v, n : v = read[r].ids[k] /\ n = read[r].floor[k]
        OBVIOUS
      <3>2. At(k, v, n)'
        BY <2>1, <2>2, <2>4, <3>1
      <3> QED BY <3>1, <3>2 DEF At
    <2>5. Carries(r, k)' <=> Carries(r, k)
      BY DEF Carries
    <2> QED BY <1>1, <2>1, <2>3, <2>4, <2>5 DEF FreshRead
  <1> QED BY <1>2, <1>3

(* The answer to a write: what it puts into the cache is the newest that   *)
(* was acknowledged, or the key is marked as one that lost a race.         *)
LEMMA AnswerFresh ==
    ASSUME TypeOK, IInv, LInv, Owned, FInv, DmAnswer, NEW k \in Key
    PROVE  FreshEntry(k)' /\ \A r \in Reader : FreshRead(r, k)'
  <1>1. UNCHANGED <<read, cat>>
    BY AnswerCaches
  <1>2. FreshEntry(k) /\ \A r \in Reader : FreshRead(r, k)
    BY DEF FInv
  <1>3. ASSUME NEW r \in Reader PROVE Carries(r, k)' <=> Carries(r, k)
    BY <1>1 DEF Carries
  <1>4. /\ DOMAIN cat[k] = 1 .. Len(cat[k]) /\ Len(cat[k]) \in Nat
        /\ acked[k] \in 1 .. Len(cat[k])
    BY <1>2, CurrentIsLast DEF FreshEntry
  <1>5. ASSUME NEW v, NEW n PROVE At(k, v, n)' <=> At(k, v, n)
    BY <1>1 DEF At
  <1>6. CASE /\ cache'[k] = cache[k] /\ (k \in torn => k \in torn')
             /\ \/ acked'[k] = acked[k]
                \/ /\ acked'[k] \in DOMAIN cat[k]
                   /\ \/ k \in torn'
                      \/ cache[k] = NoEntry /\ \A r \in Reader : ~Carries(r, k)
    <2>1. FreshEntry(k)'
      BY <1>1, <1>2, <1>4, <1>6 DEF FreshEntry, At
    <2>2. ASSUME NEW r \in Reader PROVE FreshRead(r, k)'
      BY <1>1, <1>2, <1>3, <1>6 DEF FreshRead, At
    <2> QED BY <2>1, <2>2
  <1>7. ASSUME NEW t \in Tx, NEW n \in DOMAIN cat[k],
               cache'[k] = [val |-> t, state |-> "clean"], cat[k][n].val = t,
               k \in torn' <=> n < acked[k],
               acked'[k] = IF n > acked[k] THEN n ELSE acked[k]
        PROVE  FreshEntry(k)' /\ \A r \in Reader : FreshRead(r, k)'
    <2>1. cache'[k].val = t /\ cache'[k].state = "clean"
      BY <1>7
    <2>2. acked'[k] \in 1 .. Len(cat'[k])
      BY <1>1, <1>4, <1>7
    <2>3. k \notin torn' => n \in acked'[k] .. Len(cat'[k])
      BY <1>1, <1>4, <1>7
    <2>4. FreshEntry(k)'
      BY <1>1, <1>7, <2>1, <2>2, <2>3 DEF FreshEntry, At
    <2>5. ASSUME NEW r \in Reader PROVE FreshRead(r, k)'
      BY <1>1, <1>2, <2>1 DEF FreshRead, At
    <2> QED BY <2>4, <2>5
  <1>8. CASE /\ cache'[k] = NoEntry
             /\ \A r \in Reader : Carries(r, k) => k \in torn'
             /\ acked'[k] = acked[k] \/ acked'[k] \in DOMAIN cat[k]
    <2>1. FreshEntry(k)'
      BY <1>1, <1>4, <1>8 DEF FreshEntry
    <2>2. ASSUME NEW r \in Reader PROVE FreshRead(r, k)'
      BY <1>1, <1>2, <1>3, <1>8 DEF FreshRead, At
    <2> QED BY <2>1, <2>2
  <1> QED BY <1>6, <1>7, <1>8, AnswerCaches

(* An eviction takes an entry away; if a read carries a value of the key,  *)
(* the key is marked.                                                      *)
LEMMA EvictFresh ==
    ASSUME TypeOK, FInv, NEW q \in Key, Evict(q), NEW k \in Key
    PROVE  FreshEntry(k)' /\ \A r \in Reader : FreshRead(r, k)'
  <1>1. UNCHANGED <<read, cat, acked>> /\ CacheRemove({q})
    BY DEF Evict, dmVars
  <1>2. FreshEntry(k) /\ \A r \in Reader : FreshRead(r, k)
    BY DEF FInv
  <1>3. \/ cache'[k] = cache[k] /\ (k \in torn' <=> k \in torn)
        \/ /\ cache'[k] = NoEntry
           /\ \A r \in Reader : Carries(r, k) => k \in torn'
    BY <1>1, CacheAfterRemove
  <1>4. FreshEntry(k)'
    BY <1>1, <1>2, <1>3 DEF FreshEntry, At
  <1>5. ASSUME NEW r \in Reader PROVE FreshRead(r, k)'
    <2>1. Carries(r, k)' <=> Carries(r, k)
      BY <1>1 DEF Carries
    <2> QED BY <1>1, <1>2, <1>3, <2>1 DEF FreshRead, At
  <1> QED BY <1>4, <1>5

(* A read ends and fills the cache: only with what is fresh, and never     *)
(* over an entry another read relies on as written.                        *)
LEMMA EndFresh ==
    ASSUME TypeOK, FInv, NEW r \in Reader, GetBlobCb(r), NEW k \in Key
    PROVE  FreshEntry(k)' /\ \A q \in Reader : FreshRead(q, k)'
  <1>1. UNCHANGED <<cat, acked, torn>>
    BY DEF GetBlobCb, dmVars, ghosts
  <1>2. FreshEntry(k) /\ \A q \in Reader : FreshRead(q, k)
    BY DEF FInv
  <1>3. /\ cache[k].state = "clean" => cache'[k] = cache[k]
        /\ \/ cache'[k] = cache[k]
           \/ /\ cache'[k] = [val |-> read[r].ids[k], state |-> "dirty"]
              /\ Carries(r, k) /\ cache[k].state # "clean"
        /\ read'[r] = NoRead /\ \A q \in Reader : q # r => read'[q] = read[q]
    BY CacheAfterRead
  <1>4. FreshEntry(k)'
    <2>1. CASE cache'[k] = cache[k]
      BY <1>1, <1>2, <2>1 DEF FreshEntry, At
    <2>2. CASE /\ cache'[k] = [val |-> read[r].ids[k], state |-> "dirty"]
               /\ Carries(r, k) /\ cache[k].state # "clean"
      <3>1. cache'[k].val = read[r].ids[k]
        BY <2>2
      <3>2. k \in torn \/ At(k, read[r].ids[k], acked[k])
        BY <1>2, <2>2 DEF FreshRead
      <3> QED BY <1>1, <1>2, <3>1, <3>2 DEF FreshEntry, At
    <2> QED BY <1>3, <2>1, <2>2
  <1>5. FreshRead(r, k)'
    <2>1. /\ read'[r].floor[k] = 1 /\ ~read'[r].fromDm
          /\ read'[r].want = {} /\ read'[r].st = "idle"
      BY <1>3 DEF NoRead
    <2>2. 1 \in 1 .. Len(cat'[k])
      BY <1>1, CurrentIsLast
    <2> QED BY <2>1, <2>2 DEF FreshRead, Carries, Cacheable
  <1>6. ASSUME NEW q \in Reader, q # r PROVE FreshRead(q, k)'
    <2>1. read'[q] = read[q] /\ FreshRead(q, k)
      BY <1>2, <1>3, <1>6
    <2>2. Carries(q, k)' <=> Carries(q, k)
      BY <2>1 DEF Carries
    <2>3. cache[k].state = "clean" => cache'[k].state = "clean"
      BY <1>3
    <2> QED BY <1>1, <2>1, <2>2, <2>3 DEF FreshRead, At
  <1> QED BY <1>4, <1>5, <1>6

(* A read begins with entries that are fresh, or marked.                   *)
LEMMA BeginFresh ==
    ASSUME TypeOK, FInv, NEW r \in Reader, NEW want \in SUBSET Key, GetBlob(r, want),
           NEW k \in Key
    PROVE  FreshEntry(k)' /\ \A q \in Reader : FreshRead(q, k)'
  <1>1. UNCHANGED <<cache, cat, acked, torn>>
    BY DEF GetBlob, amVars, dmVars, ghosts
  <1>2. FreshEntry(k) /\ \A q \in Reader : FreshRead(q, k)
    BY DEF FInv
  <1>3. /\ \A q \in Reader : q # r => read'[q] = read[q]
        /\ read'[r].want = want /\ read'[r].exempt = torn \cap want
        /\ read'[r].floor[k] = IF k \in want THEN acked[k] ELSE 1
        /\ \/ /\ read'[r].st = "obj" /\ ~read'[r].fromDm
              /\ \A q \in want : cache[q] # NoEntry
              /\ read'[r].ids[k] = IF k \in want THEN cache[k].val ELSE Null
           \/ /\ read'[r].st = "dm"
              /\ read'[r].ids[k] = IF k \in want \cup {Desc} THEN cache[k].val ELSE Null
    BY ReadBegins
  <1>4. FreshEntry(k)'
    BY <1>1, <1>2 DEF FreshEntry, At
  <1>5. FreshRead(r, k)'
    <2>1. read'[r].floor[k] \in 1 .. Len(cat'[k])
      BY <1>1, <1>2, <1>3, CurrentIsLast DEF FreshEntry
    <2>2. cache[k].val # Null => cache[k] # NoEntry
      BY DEF NoEntry
    <2>3. cache[k] # NoEntry /\ k \notin torn => At(k, cache[k].val, acked[k])
      BY <1>2 DEF FreshEntry
    <2>4. CASE /\ read'[r].st = "obj" /\ ~read'[r].fromDm
               /\ \A q \in want : cache[q] # NoEntry
               /\ read'[r].ids[k] = IF k \in want THEN cache[k].val ELSE Null
      BY <1>1, <1>3, <2>1, <2>3, <2>4 DEF FreshRead, Carries, Cacheable, At
    <2>5. CASE /\ read'[r].st = "dm"
               /\ read'[r].ids[k] = IF k \in want \cup {Desc} THEN cache[k].val ELSE Null
      <3>1. Carries(r, k)' => read'[r].ids[k] = cache[k].val /\ cache[k] # NoEntry
        BY <1>3, <2>2, <2>5 DEF Carries
      <3>2. k \in want \ (torn \cap want) =>
               read'[r].ids[k] = Null \/ At(k, cache[k].val, acked[k])
        BY <2>2, <2>3, <2>5
      <3> QED BY <1>1, <1>3, <2>1, <2>3, <2>5, <3>1, <3>2 DEF FreshRead, At
    <2> QED BY <1>3, <2>4, <2>5
  <1>6. ASSUME NEW q \in Reader, q # r PROVE FreshRead(q, k)'
    <2>1. read'[q] = read[q] /\ FreshRead(q, k)
      BY <1>2, <1>3, <1>6
    <2> QED BY <1>1, <2>1 DEF FreshRead, Carries, At
  <1> QED BY <1>4, <1>5, <1>6

(* The DM answers with its current values, or the query fails and what the *)
(* read will put into the cache without knowing it is marked.              *)
LEMMA QueryFresh ==
    ASSUME TypeOK, FInv, NEW r \in Reader, DmQuery(r), NEW k \in Key
    PROVE  FreshEntry(k)' /\ \A q \in Reader : FreshRead(q, k)'
  <1>1. UNCHANGED <<cache, cat, acked>>
    BY DEF DmQuery, amVars, dmVars
  <1>2. FreshEntry(k) /\ \A q \in Reader : FreshRead(q, k)
    BY DEF FInv
  <1>3. /\ \A q \in Reader : q # r => read'[q] = read[q]
        /\ read[r].st = "dm" /\ read'[r].st = "answered"
        /\ read'[r].want = read[r].want /\ read'[r].exempt = read[r].exempt
        /\ read'[r].floor = read[r].floor /\ read'[r].fromDm = read[r].fromDm
        /\ \/ /\ UNCHANGED torn
              /\ read'[r].ids[k] = IF k \in read[r].want \cup {Desc} /\ Current(k) # Null
                                   THEN Current(k) ELSE read[r].ids[k]
           \/ /\ torn' = torn \cup NotLearnt(r)
              /\ read'[r].ids = read[r].ids /\ read'[r].err
              /\ Cacheable(read'[r]) = Cacheable([read[r] EXCEPT !.err = TRUE])
    BY ReadAnswered
  <1>4. torn \subseteq torn'
    BY <1>3
  <1>5. FreshEntry(k)'
    BY <1>1, <1>2, <1>4 DEF FreshEntry, At
  <1>6. ASSUME NEW n \in 1 .. Len(cat[k]) PROVE At(k, Current(k), n)
    BY CurrentAt
  <1>7. FreshRead(r, k)'
    <2>1. acked[k] \in 1 .. Len(cat[k]) /\ read[r].floor[k] \in 1 .. Len(cat[k])
      BY <1>2 DEF FreshEntry, FreshRead
    <2>2. ASSUME Carries(r, k)'
          PROVE  /\ read[r].fromDm /\ k \in read[r].want \cup {Desc}
                 /\ k \in Cacheable(read'[r])
                 /\ read[r].ids[k] # Null => Carries(r, k)
      BY <1>3, <2>2 DEF Carries, Cacheable
    <2>3. CASE /\ UNCHANGED torn
               /\ read'[r].ids[k] = IF k \in read[r].want \cup {Desc} /\ Current(k) # Null
                                    THEN Current(k) ELSE read[r].ids[k]
      <3>1. ASSUME Carries(r, k)'
            PROVE  cache[k].state = "clean" \/ k \in torn \/ At(k, read'[r].ids[k], acked[k])
        <4>1. CASE Current(k) # Null \/ read[r].ids[k] = Null
          <5>1. read'[r].ids[k] = Current(k)
            BY <2>2, <2>3, <3>1, <4>1
          <5> QED BY <1>6, <2>1, <5>1 DEF At
        <4>2. CASE Current(k) = Null /\ read[r].ids[k] # Null
          <5>1. Carries(r, k) /\ read'[r].ids[k] = read[r].ids[k]
            BY <2>2, <2>3, <3>1, <4>2
          <5> QED BY <1>2, <5>1 DEF FreshRead, At
        <4> QED BY <4>1, <4>2
      <3>2. ASSUME k \in read[r].want \ read[r].exempt
            PROVE  At(k, read'[r].ids[k], read[r].floor[k])
        <4>1. CASE Current(k) # Null \/ read[r].ids[k] = Null
          <5>1. read'[r].ids[k] = Current(k)
            BY <2>3, <3>2, <4>1
          <5> QED BY <1>6, <2>1, <5>1 DEF At
        <4>2. CASE Current(k) = Null /\ read[r].ids[k] # Null
          <5>1. read'[r].ids[k] = read[r].ids[k]
            BY <2>3, <4>2
          <5> QED BY <1>2, <1>3, <3>2, <4>2, <5>1 DEF FreshRead, At
        <4> QED BY <4>1, <4>2
      <3> QED BY <1>1, <1>3, <2>1, <2>3, <3>1, <3>2 DEF FreshRead, At
    <2>4. CASE /\ torn' = torn \cup NotLearnt(r)
               /\ read'[r].ids = read[r].ids /\ read'[r].err
               /\ Cacheable(read'[r]) = Cacheable([read[r] EXCEPT !.err = TRUE])
      <3>1. ASSUME Carries(r, k)'
            PROVE  \/ cache[k].state = "clean" \/ k \in torn'
                   \/ At(k, read[r].ids[k], acked[k])
        <4>1. CASE read[r].ids[k] # Null
          BY <1>2, <1>4, <2>2, <3>1, <4>1 DEF FreshRead
        <4>2. CASE read[r].ids[k] = Null /\ Current(k) = Null
          BY <1>6, <2>1, <4>2
        <4>3. CASE read[r].ids[k] = Null /\ Current(k) # Null
          BY <2>2, <2>4, <3>1, <4>3 DEF NotLearnt
        <4> QED BY <4>1, <4>2, <4>3
      <3> QED BY <1>1, <1>3, <2>1, <2>4, <3>1 DEF FreshRead, At
    <2> QED BY <1>3, <2>3, <2>4
  <1>8. ASSUME NEW q \in Reader, q # r PROVE FreshRead(q, k)'
    <2>1. read'[q] = read[q] /\ FreshRead(q, k)
      BY <1>2, <1>3, <1>8
    <2>2. Carries(q, k)' <=> Carries(q, k)
      BY <2>1 DEF Carries
    <2> QED BY <1>1, <1>4, <2>1, <2>2 DEF FreshRead, At
  <1> QED BY <1>5, <1>7, <1>8

(* A read fetches its objects.                                             *)
LEMMA GoOnFresh ==
    ASSUME TypeOK, FInv, NEW k \in Key,
           (\E q \in Reader : GetOffsetsCb(q)) \/ (\E x \in Object : GetObjectCb(x))
    PROVE  FreshEntry(k)' /\ \A r \in Reader : FreshRead(r, k)'
  <1>1. UNCHANGED <<cache, cat, acked, torn>>
    BY DEF GetOffsetsCb, GetObjectCb, amVars, dmVars, ghosts
  <1>2. FreshEntry(k) /\ \A r \in Reader : FreshRead(r, k)
    BY DEF FInv
  <1>3. FreshEntry(k)'
    BY <1>1, <1>2 DEF FreshEntry, At
  <1>4. ASSUME NEW r \in Reader PROVE FreshRead(r, k)'
    <2>1. /\ read'[r].want = read[r].want /\ read'[r].exempt = read[r].exempt
          /\ read'[r].floor = read[r].floor /\ read'[r].fromDm = read[r].fromDm
          /\ read'[r].ids = read[r].ids /\ read'[r].found = read[r].found
          /\ read[r].err => read'[r].err
          /\ \/ read'[r].st = read[r].st
             \/ read[r].st = "answered" /\ read'[r].st = "obj"
      BY ReadGoesOn
    <2>2. Carries(r, k)' => Carries(r, k)
      BY <2>1 DEF Carries, Cacheable
    <2> QED BY <1>1, <1>2, <2>1, <2>2 DEF FreshRead, At
  <1> QED BY <1>3, <1>4

(* A read returns, of every key it asks for, a value the catalogue had at  *)
(* or after the last write of that key that was acknowledged before the    *)
(* read began (AmCache::getBlob, SharedKvCache::add): for any number of    *)
(* transactions, offsets and readers, any staging limit, any failures of   *)
(* writes and queries and any evictions.  Only the keys FreshReads names   *)
(* are exempt, each from the step at which the code lets its entry go old. *)
THEOREM ReadsAreFresh == Spec => []FreshReads
  <1>1. Init => FInv
    <2> SUFFICES ASSUME Init, NEW k \in Key
                 PROVE  FreshEntry(k) /\ \A r \in Reader : FreshRead(r, k)
      BY DEF FInv
    <2>1. 1 \in 1 .. Len(cat[k])
      <3>1. cat[k] = <<[tx |-> Old, val |-> Old]>>
        BY DEF Init
      <3> QED BY <3>1
    <2>2. FreshEntry(k)
      BY <2>1 DEF Init, FreshEntry
    <2>3. ASSUME NEW r \in Reader PROVE FreshRead(r, k)
      <3>1. /\ read[r].floor[k] = 1 /\ ~read[r].fromDm
            /\ read[r].want = {} /\ read[r].st = "idle"
        BY DEF Init, NoRead
      <3> QED BY <2>1, <3>1 DEF FreshRead, Carries, Cacheable
    <2> QED BY <2>2, <2>3
  <1>2. TypeOK /\ IInv /\ LInv /\ CInv /\ FInv /\ [Next]_vars => FInv'
    <2> SUFFICES ASSUME TypeOK, IInv, LInv, CInv, FInv, [Next]_vars, NEW k \in Key
                 PROVE  FreshEntry(k)' /\ \A r \in Reader : FreshRead(r, k)'
      BY DEF FInv
    <2>1. CASE UNCHANGED <<cache, read, acked, torn>>
      BY <2>1, QuietFresh
    <2>2. CASE DmAnswer
      BY <2>2, AnswerFresh DEF CInv
    <2>3. ASSUME NEW q \in Key, Evict(q)
          PROVE  FreshEntry(k)' /\ \A r \in Reader : FreshRead(r, k)'
      BY <2>3, EvictFresh
    <2>4. ASSUME NEW q \in Reader, GetBlobCb(q)
          PROVE  FreshEntry(k)' /\ \A r \in Reader : FreshRead(r, k)'
      BY <2>4, EndFresh
    <2>5. ASSUME NEW q \in Reader, NEW want \in SUBSET Key, GetBlob(q, want)
          PROVE  FreshEntry(k)' /\ \A r \in Reader : FreshRead(r, k)'
      BY <2>5, BeginFresh
    <2>6. ASSUME NEW q \in Reader, DmQuery(q)
          PROVE  FreshEntry(k)' /\ \A r \in Reader : FreshRead(r, k)'
      BY <2>6, QueryFresh
    <2>7. CASE (\E r \in Reader : GetOffsetsCb(r)) \/ (\E x \in Object : GetObjectCb(x))
      BY <2>7, GoOnFresh
    <2> QED BY <2>1, <2>2, <2>3, <2>4, <2>5, <2>6, <2>7, StepKinds
  <1>3. TypeOK /\ FInv => FreshReads
    <2> SUFFICES ASSUME FInv, NEW r \in Reader, read[r].st = "obj", ~read[r].err,
                        NEW k \in read[r].want \ read[r].exempt, TypeOK
                 PROVE  \E i \in read[r].floor[k] .. Len(cat[k]) :
                            cat[k][i].val = read[r].ids[k]
      BY DEF FreshReads
    <2>1. k \in Key
      BY DEF TypeOK, Read
    <2> QED BY <2>1 DEF FInv, FreshRead, At
  <1> QED BY <1>1, <1>2, <1>3, TypeCorrect, Invariance, LogInvariance, CInvariance, PTL DEF Spec

-----------------------------------------------------------------------------
(* NOTHING IS FORGOTTEN                                                    *)

Req(op, t, o) == [op |-> op, tx |-> t, off |-> o]

(* What the client of a transaction waits for is under way                 *)
Served(t) ==
    /\ phase[t] = "starting" => Req("start", t, Null) \in Flying
    /\ phase[t] = "deleting" => Req("delete", t, Null) \in Flying
    /\ phase[t] = "committing" => Req("commit", t, Null) \in Flying
    /\ phase[t] = "once" =>
         \E o \in Offset : put[t][o].sm = "wait" \/ Req("once", t, o) \in Flying
    /\ \A o \in Offset : put[t][o].dm = "wait" => Req("update", t, o) \in Flying

ReadsServed == \A r \in Reader : read[r].wait \subseteq smGets

(* The two parts are what the run checks as NothingForgotten.              *)
LEMMA ServedMeans ==
    NothingForgotten <=> ReadsServed /\ \A t \in Tx : Served(t)
  <1>1. ASSUME NEW op, NEW t, NEW o PROVE InFlight(op, t, o) <=> Req(op, t, o) \in Flying
    BY DEF InFlight, Flying, Ask, Req
  <1> QED BY <1>1 DEF NothingForgotten, ReadsServed, Served

(* A request that is sent is under way.                                    *)
LEMMA SentFlies ==
    ASSUME TypeOK, NEW op, NEW t, NEW o, Send(op, t, o), answers' = answers,
           Req(op, t, o) \in Write
    PROVE  Req(op, t, o) \in Flying' /\ Flying \subseteq Flying'
  <1> DEFINE m == Req(op, t, o)
  <1>1. queue \in Seq(Write) /\ m \in Write /\ queue' = Append(queue, m)
    BY DEF TypeOK, Send, Req
  <1> HIDE DEF m
  <1>2. /\ Len(queue) \in Nat /\ DOMAIN queue = 1 .. Len(queue)
        /\ DOMAIN queue' = 1 .. (Len(queue) + 1)
        /\ \A i \in 1 .. Len(queue) : queue'[i] = queue[i]
        /\ queue'[Len(queue) + 1] = m
    BY <1>1
  <1>3. /\ \A i \in DOMAIN queue : i \in DOMAIN queue' /\ queue'[i] = queue[i]
        /\ Len(queue) + 1 \in DOMAIN queue'
    BY <1>2
  <1>4. m \in Flying' /\ Flying \subseteq Flying'
    BY <1>2, <1>3 DEF Flying, Ask
  <1> QED BY <1>4 DEF m

(* The other transactions do not notice.                                   *)
LEMMA OneServed ==
    ASSUME NEW t \in Tx, \A u \in Tx : Served(u), Served(t)',
           \A u \in Tx : u # t => phase'[u] = phase[u] /\ put'[u] = put[u],
           \A m \in Flying : m.tx # t => m \in Flying'
    PROVE  \A u \in Tx : Served(u)'
  <1> SUFFICES ASSUME NEW u \in Tx, u # t PROVE Served(u)'
    OBVIOUS
  <1>1. \A op, o : Req(op, u, o) \in Flying => Req(op, u, o) \in Flying'
    BY DEF Req
  <1>2. phase'[u] = phase[u] /\ put'[u] = put[u] /\ Served(u)
    OBVIOUS
  <1> QED BY <1>1, <1>2 DEF Served, Req

(* What a client asks for is on its way.                                   *)
LEMMA ClientServed ==
    ASSUME TypeOK, IInv, \A u \in Tx : Served(u), NEW t \in Tx,
           \/ StartBlobTx(t) \/ DeleteBlob(t) \/ CommitBlobTx(t) \/ AbortBlobTx(t)
           \/ \E o \in Offset : PutBlob(t, o) \/ PutBlobOnce(t, o)
    PROVE  \A u \in Tx : Served(u)'
  <1>1. Served(t) /\ UNCHANGED answers
    BY DEF StartBlobTx, DeleteBlob, CommitBlobTx, AbortBlobTx, PutBlob, PutBlobOnce
  <1>2. ASSUME UNCHANGED queue PROVE Flying' = Flying
    BY <1>1, <1>2 DEF Flying, Ask
  <1>3. CASE StartBlobTx(t)
    <2>1. /\ phase'[t] = "starting" /\ Send("start", t, Null) /\ UNCHANGED put
          /\ \A u \in Tx : u # t => phase'[u] = phase[u]
      BY <1>3 DEF StartBlobTx, TypeOK
    <2>2. Req("start", t, Null) \in Write
      BY DEF Req, Write
    <2>3. Req("start", t, Null) \in Flying' /\ Flying \subseteq Flying'
      BY <1>1, <2>1, <2>2, SentFlies
    <2>4. Served(t)'
      BY <1>1, <2>1, <2>3 DEF Served, Req
    <2> QED BY <2>1, <2>3, <2>4, OneServed
  <1>4. CASE DeleteBlob(t)
    <2>1. /\ phase'[t] = "deleting" /\ Send("delete", t, Null) /\ UNCHANGED put
          /\ \A u \in Tx : u # t => phase'[u] = phase[u]
      BY <1>4 DEF DeleteBlob, TypeOK
    <2>2. Req("delete", t, Null) \in Write
      BY DEF Req, Write
    <2>3. Req("delete", t, Null) \in Flying' /\ Flying \subseteq Flying'
      BY <1>1, <2>1, <2>2, SentFlies
    <2>4. Served(t)'
      BY <1>1, <2>1, <2>3 DEF Served, Req
    <2> QED BY <2>1, <2>3, <2>4, OneServed
  <1>5. CASE CommitBlobTx(t)
    <2>1. UNCHANGED put /\ \A u \in Tx : u # t => phase'[u] = phase[u]
      BY <1>5 DEF CommitBlobTx, TypeOK
    <2>2. CASE Open(t)
      <3>1. phase'[t] = "committing" /\ Send("commit", t, Null)
        BY <1>5, <2>2 DEF CommitBlobTx, TypeOK
      <3>2. Req("commit", t, Null) \in Write
        BY DEF Req, Write
      <3>3. Req("commit", t, Null) \in Flying' /\ Flying \subseteq Flying'
        BY <1>1, <3>1, <3>2, SentFlies
      <3>4. Served(t)'
        BY <1>1, <2>1, <3>1, <3>3 DEF Served, Req
      <3> QED BY <2>1, <3>3, <3>4, OneServed
    <2>3. CASE ~Open(t)
      <3>1. phase'[t] = "ended" /\ UNCHANGED queue
        BY <1>5, <2>3 DEF CommitBlobTx, TypeOK
      <3>2. Served(t)'
        BY <1>1, <1>2, <2>1, <3>1 DEF Served, Req
      <3> QED BY <1>2, <2>1, <3>1, <3>2, OneServed
    <2> QED BY <2>2, <2>3
  <1>6. CASE AbortBlobTx(t)
    <2>1. /\ phase'[t] = "ended" /\ UNCHANGED <<put, queue>>
          /\ \A u \in Tx : u # t => phase'[u] = phase[u]
      BY <1>6 DEF AbortBlobTx, TypeOK
    <2>2. Served(t)'
      BY <1>1, <1>2, <2>1 DEF Served, Req
    <2> QED BY <1>2, <2>1, <2>2, OneServed
  <1>7. ASSUME NEW o \in Offset, PutBlob(t, o) PROVE \A u \in Tx : Served(u)'
    <2>1. phase[t] = "open" /\ put[t][o] = NoPut /\ UNCHANGED phase
      BY <1>7 DEF PutBlob
    <2>2. CASE Open(t)
      <3> DEFINE w == [dm |-> "wait", sm |-> "wait", told |-> "no"]
      <3>1. put' = [put EXCEPT ![t][o] = w] /\ Send("update", t, o)
        BY <1>7, <2>2 DEF PutBlob
      <3> HIDE DEF w
      <3>2. /\ \A p \in Offset : p # o => put'[t][p] = put[t][p]
            /\ \A u \in Tx : u # t => put'[u] = put[u]
        BY <3>1, PutChange
      <3>3. Req("update", t, o) \in Write
        BY DEF Req, Write
      <3>4. Req("update", t, o) \in Flying' /\ Flying \subseteq Flying'
        BY <1>1, <3>1, <3>3, SentFlies
      <3>5. Served(t)'
        BY <1>1, <2>1, <3>2, <3>4 DEF Served, Req
      <3> QED BY <2>1, <3>2, <3>4, <3>5, OneServed
    <2>3. CASE ~Open(t)
      <3> DEFINE e == [put[t][o] EXCEPT !.told = "err"]
      <3>1. put' = [put EXCEPT ![t][o] = e] /\ UNCHANGED queue
        BY <1>7, <2>3 DEF PutBlob
      <3>2. e.dm = "no"
        BY <2>1 DEF NoPut
      <3> HIDE DEF e
      <3>3. /\ put'[t][o] = e
            /\ \A p \in Offset : p # o => put'[t][p] = put[t][p]
            /\ \A u \in Tx : u # t => put'[u] = put[u]
        BY <3>1, PutChange
      <3>4. Served(t)'
        BY <1>1, <1>2, <2>1, <3>1, <3>2, <3>3 DEF Served, Req
      <3> QED BY <1>2, <2>1, <3>1, <3>3, <3>4, OneServed
    <2> QED BY <2>2, <2>3
  <1>8. ASSUME NEW o \in Offset, PutBlobOnce(t, o) PROVE \A u \in Tx : Served(u)'
    <2> DEFINE w == [put[t][o] EXCEPT !.sm = "wait"]
    <2>1. /\ phase'[t] = "once" /\ UNCHANGED queue
          /\ \A u \in Tx : u # t => phase'[u] = phase[u]
          /\ put' = [put EXCEPT ![t][o] = w]
      BY <1>8 DEF PutBlobOnce, TypeOK
    <2>2. w.sm = "wait" /\ w.dm = put[t][o].dm
      <3>1. put[t][o] \in Put
        BY DEF TypeOK
      <3> QED BY <3>1 DEF Put
    <2> HIDE DEF w
    <2>3. /\ put'[t][o] = w
          /\ \A p \in Offset : p # o => put'[t][p] = put[t][p]
          /\ \A u \in Tx : u # t => put'[u] = put[u]
      BY <2>1, PutChange
    <2>4. Served(t)'
      BY <1>1, <1>2, <2>1, <2>2, <2>3 DEF Served, Req
    <2> QED BY <1>2, <2>1, <2>3, <2>4, OneServed
  <1> QED BY <1>3, <1>4, <1>5, <1>6, <1>7, <1>8

(* The answer of an SM to a put; putBlobOnce goes on to the DM.            *)
LEMMA PutObjectCbServed ==
    ASSUME TypeOK, IInv, \A u \in Tx : Served(u), NEW t \in Tx, NEW o \in Offset,
           PutObjectCb(t, o)
    PROVE  \A u \in Tx : Served(u)'
  <1>1. PICK res \in {"ok", "err"} : PutObjectCb(t, o)!2!(res)
    BY DEF PutObjectCb
  <1> DEFINE p == [put[t][o] EXCEPT !.sm = res]
  <1>2. /\ put[t][o].sm = "wait" /\ p \in Put
        /\ p.told = put[t][o].told /\ p.dm = put[t][o].dm /\ p.sm = res
    <2>1. put[t][o] \in Put
      BY DEF TypeOK
    <2> QED BY <2>1 DEF PutObjectCb, Put, Result
  <1>3. UNCHANGED answers
    BY DEF PutObjectCb
  <1>4. Served(t)
    OBVIOUS
  <1>5. ASSUME UNCHANGED queue PROVE Flying' = Flying
    BY <1>3, <1>5 DEF Flying, Ask
  <1> HIDE DEF p
  <1>6. CASE phase[t] # "once"
    <2>1. t \notin Once
      BY <1>2, <1>6 DEF IInv, Single
    <2>2. PutBlobCb(t, o, p, res) /\ UNCHANGED <<phase, queue>>
      BY <1>1, <1>6 DEF p
    <2>3. /\ \A u \in Tx : u # t => put'[u] = put[u]
          /\ \A q \in Offset : q # o => put'[t][q] = put[t][q]
          /\ put'[t][o].dm = p.dm
      BY <1>2, <2>1, <2>2, PutAnswered
    <2>4. Served(t)'
      BY <1>2, <1>4, <1>5, <1>6, <2>2, <2>3 DEF Served, Req
    <2> QED BY <1>5, <2>2, <2>3, <2>4, OneServed
  <1>7. CASE phase[t] = "once"
    <2>1. put' = [put EXCEPT ![t][o] = p]
      BY <1>1, <1>7 DEF p
    <2>2. /\ put'[t][o] = p
          /\ \A q \in Offset : q # o => put'[t][q] = put[t][q]
          /\ \A u \in Tx : u # t => put'[u] = put[u]
      BY <2>1, PutChange
    <2>3. CASE res = "ok"
      <3>1. UNCHANGED phase /\ Send("once", t, o)
        BY <1>1, <1>7, <2>3
      <3>2. Req("once", t, o) \in Write
        BY DEF Req, Write
      <3>3. Req("once", t, o) \in Flying' /\ Flying \subseteq Flying'
        BY <1>3, <3>1, <3>2, SentFlies
      <3>4. Served(t)'
        BY <1>2, <1>4, <1>7, <2>2, <3>1, <3>3 DEF Served, Req
      <3> QED BY <2>2, <3>1, <3>3, <3>4, OneServed
    <2>4. CASE res = "err"
      <3>1. /\ phase'[t] = "ended" /\ UNCHANGED queue
            /\ \A u \in Tx : u # t => phase'[u] = phase[u]
        BY <1>1, <1>7, <2>4 DEF TypeOK
      <3>2. Served(t)'
        BY <1>2, <1>4, <1>5, <2>2, <3>1 DEF Served, Req
      <3> QED BY <1>5, <2>2, <3>1, <3>2, OneServed
    <2> QED BY <2>3, <2>4
  <1> QED BY <1>6, <1>7

(* An answer of the DM ends the waiting for it, and no other.              *)
LEMMA DmAnswerServed ==
    ASSUME TypeOK, IInv, \A u \in Tx : Served(u), DmAnswer
    PROVE  \A u \in Tx : Served(u)'
  <1>1. PICK a \in answers : DmAnswer!(a)
    BY DEF DmAnswer
  <1> DEFINE t == a.tx
  <1>2. /\ t \in Tx /\ (a.op \in {"update", "once"} => a.off \in Offset)
        /\ a.op \in {"start", "update", "delete", "commit", "once"}
    <2>1. a \in WriteAnswer
      BY DEF TypeOK
    <2> QED BY <2>1 DEF WriteAnswer
  <1>3. answers' = answers \ {a} /\ UNCHANGED queue
    BY <1>1 DEF StartBlobTxCb, UpdateCatalogCb, DeleteBlobCb, CommitBlobTxCb, PutBlobOnceCb
  <1>4. /\ Ask(a) \in Flying /\ Awaited(Ask(a)) /\ Flying' = Flying \ {Ask(a)}
        /\ Ask(a) = Req(a.op, t, a.off)
        /\ Ask(a).op = a.op /\ Ask(a).tx = t /\ Ask(a).off = a.off
    <2>1. Ask(a) \in Flying /\ Flying' = Flying \ {Ask(a)}
      BY <1>3, AnswerFlying DEF IInv
    <2>2. Awaited(Ask(a))
      BY <2>1 DEF IInv
    <2> QED BY <2>1, <2>2 DEF Ask, Req
  <1>5. /\ t \in Once => Single(t)
        /\ t \notin Once => Regular(t)
        /\ Served(t)
    BY <1>2 DEF IInv
  <1>6. \A m \in Flying : m.tx # t => m \in Flying'
    BY <1>4
  <1>7. \A op, o : /\ op # a.op \/ o # a.off => Req(op, t, o) # Ask(a)
    BY <1>4 DEF Req
  <1>8. \A op, o : Req(op, t, o) \in Flying /\ (op # a.op \/ o # a.off) =>
                      Req(op, t, o) \in Flying'
    BY <1>4, <1>7
  <1>9. CASE StartBlobTxCb(a)
    <2>1. /\ UNCHANGED put /\ phase'[t] \in {"open", "ended"} /\ a.op = "start"
          /\ \A u \in Tx : u # t => phase'[u] = phase[u]
      BY <1>2, <1>9 DEF StartBlobTxCb, TypeOK
    <2> HIDE DEF t
    <2>2. Served(t)'
      BY <1>5, <1>8, <2>1 DEF Served, Req
    <2> QED BY <1>2, <1>6, <2>1, <2>2, OneServed
  <1>10. CASE UpdateCatalogCb(a)
    <2> DEFINE o == a.off
               res == IF a.res = "ok" THEN "ok" ELSE "err"
               p == [put[t][o] EXCEPT !.dm = res]
    <2>1. /\ o \in Offset /\ put[t][o].dm = "wait" /\ a.op = "update"
          /\ PutBlobCb(t, o, p, res) /\ UNCHANGED phase
          /\ res \in {"ok", "err"}
      BY <1>2, <1>4, <1>10 DEF UpdateCatalogCb, Awaited
    <2>2. p \in Put /\ p.told = put[t][o].told /\ p.sm = put[t][o].sm /\ p.dm = res
      <3>1. put[t][o] \in Put
        BY <1>2, <2>1 DEF TypeOK
      <3> HIDE DEF res
      <3> QED BY <2>1, <3>1 DEF Put, Result
    <2>3. t \in Tx \ Once
      BY <1>2, <1>5, <2>1 DEF Single
    <2> HIDE DEF t, p, res
    <2>4. /\ \A u \in Tx : u # t => put'[u] = put[u]
          /\ \A q \in Offset : q # o => put'[t][q] = put[t][q]
          /\ put'[t][o].dm # "wait" /\ phase[t] = "open"
      BY <2>1, <2>2, <2>3, PutAnswered
    <2>5. Served(t)'
      BY <1>5, <1>8, <2>1, <2>4 DEF Served, Req
    <2> QED BY <1>2, <1>6, <2>1, <2>4, <2>5, OneServed
  <1>11. CASE DeleteBlobCb(a)
    <2>1. /\ UNCHANGED put /\ phase'[t] = "deleted" /\ a.op = "delete"
          /\ \A u \in Tx : u # t => phase'[u] = phase[u]
      BY <1>2, <1>11 DEF DeleteBlobCb, TypeOK
    <2> HIDE DEF t
    <2>2. Served(t)'
      BY <1>5, <1>8, <2>1 DEF Served, Req
    <2> QED BY <1>2, <1>6, <2>1, <2>2, OneServed
  <1>12. CASE CommitBlobTxCb(a)
    <2>1. /\ UNCHANGED put /\ phase'[t] = "ended" /\ a.op = "commit"
          /\ \A u \in Tx : u # t => phase'[u] = phase[u]
      BY <1>2, <1>12 DEF CommitBlobTxCb, TypeOK
    <2> HIDE DEF t
    <2>2. Served(t)'
      BY <1>5, <1>8, <2>1 DEF Served, Req
    <2> QED BY <1>2, <1>6, <2>1, <2>2, OneServed
  <1>13. CASE PutBlobOnceCb(a)
    <2>1. /\ UNCHANGED put /\ phase'[t] = "ended" /\ a.op = "once"
          /\ \A u \in Tx : u # t => phase'[u] = phase[u]
      BY <1>2, <1>13 DEF PutBlobOnceCb, TypeOK
    <2> HIDE DEF t
    <2>2. Served(t)'
      BY <1>5, <1>8, <2>1 DEF Served, Req
    <2> QED BY <1>2, <1>6, <2>1, <2>2, OneServed
  <1> QED BY <1>1, <1>9, <1>10, <1>11, <1>12, <1>13

(* Reads that wait for an object: one request serves them all.             *)
LEMMA GetObjectsServed ==
    ASSUME TypeOK, ReadsServed, NEW r \in Reader, NEW rd \in Read, GetObjects(r, rd)
    PROVE  ReadsServed'
  <1>1. PICK miss : /\ read' = [read EXCEPT ![r] = [rd EXCEPT !.st = "obj", !.wait = miss]]
                    /\ smGets' = smGets \cup {x \in miss : \A q \in Reader : x \notin read[q].wait}
    BY DEF GetObjects
  <1> DEFINE ob == [rd EXCEPT !.st = "obj", !.wait = miss]
  <1>2. ob.wait = miss
    BY DEF Read
  <1> HIDE DEF ob
  <1>3. read'[r] = ob /\ \A q \in Reader : q # r => read'[q] = read[q]
    BY <1>1 DEF TypeOK, ob
  <1>4. read'[r].wait \subseteq smGets'
    BY <1>1, <1>2, <1>3 DEF ReadsServed
  <1>5. ASSUME NEW q \in Reader, q # r PROVE read'[q].wait \subseteq smGets'
    BY <1>1, <1>3, <1>5 DEF ReadsServed
  <1> QED BY <1>4, <1>5 DEF ReadsServed

(* Whatever step is taken, the objects a read waits for are being fetched. *)
LEMMA ReadersServed ==
    ASSUME TypeOK, ReadsServed, [Next]_vars
    PROVE  ReadsServed'
  <1>1. ASSUME NEW r \in Reader, NEW want \in SUBSET Key, GetBlob(r, want)
        PROVE  ReadsServed'
    <2> DEFINE Cached(keys) == [k \in Key |-> IF k \in keys THEN cache[k].val ELSE Null]
               rd == [NoRead EXCEPT !.want = want, !.ids = Cached(want),
                                !.floor = [k \in Key |-> IF k \in want THEN acked[k] ELSE 1],
                                !.exempt = torn \cap want]
               dm == [rd EXCEPT !.st = "dm", !.fromDm = TRUE,
                                !.ids = Cached(want \cup {Desc}),
                                !.found = cache[Desc] # NoEntry]
    <2>1. \A keys : Cached(keys) \in [Key -> Value]
      BY DEF TypeOK, Entry, Value
    <2>2. [k \in Key |-> IF k \in want THEN acked[k] ELSE 1] \in [Key -> Nat]
      BY DEF TypeOK
    <2>3. rd \in Read /\ dm.wait = {}
      BY <2>1, <2>2 DEF NoRead, Read, TypeOK
    <2>4. CASE GetObjects(r, rd)
      <3> HIDE DEF rd
      <3> QED BY <2>3, <2>4, GetObjectsServed
    <2>5. CASE read' = [read EXCEPT ![r] = dm] /\ UNCHANGED smGets
      <3> HIDE DEF dm
      <3>1. read'[r] = dm /\ \A q \in Reader : q # r => read'[q] = read[q]
        BY <2>5 DEF TypeOK
      <3> QED BY <2>3, <2>5, <3>1 DEF ReadsServed
    <2> HIDE DEF rd, dm
    <2> QED BY <1>1, <2>4, <2>5 DEF GetBlob, rd, dm
  <1>2. ASSUME NEW r \in Reader, GetOffsetsCb(r) PROVE ReadsServed'
    <2>1. read[r] \in Read
      BY DEF TypeOK
    <2>2. CASE read' = [read EXCEPT ![r].st = "obj"] /\ UNCHANGED smGets
      <3>1. \A q \in Reader : read'[q].wait = read[q].wait
        BY <2>1, <2>2 DEF TypeOK, Read
      <3> QED BY <2>2, <3>1 DEF ReadsServed
    <2> QED BY <1>2, <2>1, <2>2, GetObjectsServed DEF GetOffsetsCb
  <1>3. ASSUME NEW r \in Reader, DmQuery(r) PROVE ReadsServed'
    <2>1. Desc \in Key
      BY DEF Key
    <2>2. /\ \A q \in Reader : q # r => read'[q] = read[q]
          /\ read'[r].wait = read[r].wait
      BY <1>3, <2>1, ReadAnswered
    <2>3. \A q \in Reader : read'[q].wait = read[q].wait
      BY <2>2
    <2>4. UNCHANGED smGets
      BY <1>3 DEF DmQuery
    <2> QED BY <2>3, <2>4 DEF ReadsServed
  <1>4. ASSUME NEW r \in Reader, GetBlobCb(r) PROVE ReadsServed'
    <2>1. read'[r] = NoRead /\ \A q \in Reader : q # r => read'[q] = read[q]
      <3>1. read \in [Reader -> Read] /\ read' = [read EXCEPT ![r] = NoRead]
        BY <1>4 DEF GetBlobCb, TypeOK
      <3> QED BY <3>1
    <2>2. NoRead.wait = {} /\ UNCHANGED smGets
      BY <1>4 DEF NoRead, GetBlobCb
    <2> QED BY <2>1, <2>2 DEF ReadsServed
  <1>5. ASSUME NEW x \in Object, GetObjectCb(x) PROVE ReadsServed'
    <2>1. PICK ok \in BOOLEAN : GetObjectCb(x)!3!(ok)
      BY <1>5 DEF GetObjectCb
    <2>2. smGets' = smGets \ {x}
      BY <1>5 DEF GetObjectCb
    <2>3. ASSUME NEW r \in Reader PROVE read'[r].wait = read[r].wait \ {x}
      <3>1. read[r] \in Read
        BY DEF TypeOK
      <3> DEFINE e == read[r].err \/ ~ok
      <3>2. read'[r] = IF x \in read[r].wait
                       THEN [read[r] EXCEPT !.wait = @ \ {x}, !.err = e] ELSE read[r]
        BY <2>1
      <3> HIDE DEF e
      <3> QED BY <3>1, <3>2 DEF Read
    <2> QED BY <2>2, <2>3 DEF ReadsServed
  <1>6. CASE UNCHANGED <<read, smGets>>
    BY <1>6 DEF ReadsServed
  <1>7. ASSUME NEW t \in Tx,
               StartBlobTx(t) \/ DeleteBlob(t) \/ CommitBlobTx(t) \/ AbortBlobTx(t)
        PROVE  UNCHANGED <<read, smGets>>
    BY <1>7 DEF StartBlobTx, DeleteBlob, CommitBlobTx, AbortBlobTx
  <1>8. ASSUME NEW t \in Tx, NEW o \in Offset,
               PutBlob(t, o) \/ PutBlobOnce(t, o) \/ PutObjectCb(t, o)
        PROVE  UNCHANGED <<read, smGets>>
    BY <1>8 DEF PutBlob, PutBlobOnce, PutObjectCb
  <1>9. DmExecute \/ DmAnswer \/ (\E k \in Key : Evict(k)) \/ UNCHANGED vars =>
            UNCHANGED <<read, smGets>>
    BY DEF DmExecute, DmAnswer, Evict, vars
  <1> QED BY <1>1, <1>2, <1>3, <1>4, <1>5, <1>6, <1>7, <1>8, <1>9 DEF Next

(* Whatever a client waits for, something is under way that will answer    *)
(* it, in any number of transactions and reads and whatever fails; reads   *)
(* that share a GetObject are all served by its answer                     *)
(* (AmCache::getObject, getObjectCb).                                      *)
THEOREM NobodyForgotten == Spec => []NothingForgotten
  <1> DEFINE N == ReadsServed /\ \A t \in Tx : Served(t)
  <1>1. Init => N
    <2> SUFFICES ASSUME Init PROVE N
      OBVIOUS
    <2>1. ReadsServed
      BY DEF Init, ReadsServed, NoRead
    <2>2. ASSUME NEW t \in Tx PROVE Served(t)
      BY DEF Init, Served, NoPut
    <2> QED BY <2>1, <2>2
  <1>2. TypeOK /\ IInv /\ N /\ [Next]_vars => N'
    <2> SUFFICES ASSUME TypeOK, IInv, ReadsServed, \A t \in Tx : Served(t), [Next]_vars
                 PROVE  ReadsServed' /\ \A t \in Tx : Served(t)'
      OBVIOUS
    <2>1. ReadsServed'
      BY ReadersServed
    <2>2. ASSUME UNCHANGED <<phase, put>>, Flying' = Flying
          PROVE  \A t \in Tx : Served(t)'
      BY <2>2 DEF Served, Req
    <2>3. ASSUME NEW t \in Tx,
                 \/ StartBlobTx(t) \/ DeleteBlob(t) \/ CommitBlobTx(t) \/ AbortBlobTx(t)
                 \/ \E o \in Offset : PutBlob(t, o) \/ PutBlobOnce(t, o)
          PROVE  \A u \in Tx : Served(u)'
      BY <2>3, ClientServed
    <2>4. ASSUME NEW t \in Tx, NEW o \in Offset, PutObjectCb(t, o)
          PROVE  \A u \in Tx : Served(u)'
      BY <2>4, PutObjectCbServed
    <2>5. CASE DmExecute
      <3>1. Flying' = Flying
        BY <2>5, ExecuteFlying DEF IInv
      <3>2. UNCHANGED <<phase, put>>
        BY <2>5 DEF DmExecute, amVars
      <3> QED BY <2>1, <2>2, <3>1, <3>2
    <2>6. CASE DmAnswer
      BY <2>1, <2>6, DmAnswerServed
    <2>7. ASSUME UNCHANGED <<phase, put, queue, answers>>
          PROVE  \A t \in Tx : Served(t)'
      <3>1. Flying' = Flying
        BY <2>7 DEF Flying, Ask
      <3> QED BY <2>2, <2>7, <3>1
    <2>8. ASSUME NEW r \in Reader,
                 \/ \E want \in SUBSET Key : GetBlob(r, want)
                 \/ DmQuery(r) \/ GetOffsetsCb(r) \/ GetBlobCb(r)
          PROVE  UNCHANGED <<phase, put, queue, answers>>
      BY <2>8 DEF GetBlob, DmQuery, GetOffsetsCb, GetBlobCb, amVars
    <2>9. ASSUME NEW x \in Object, GetObjectCb(x)
          PROVE  UNCHANGED <<phase, put, queue, answers>>
      BY <2>9 DEF GetObjectCb, amVars
    <2>10. ASSUME NEW k \in Key, Evict(k)
           PROVE  UNCHANGED <<phase, put, queue, answers>>
      BY <2>10 DEF Evict
    <2>11. UNCHANGED vars => UNCHANGED <<phase, put, queue, answers>>
      BY DEF vars
    <2>12. \A t \in Tx : Served(t)'
      BY <2>3, <2>4, <2>5, <2>6, <2>7, <2>8, <2>9, <2>10, <2>11 DEF Next
    <2> QED BY <2>1, <2>12
  <1>3. N => NothingForgotten
    BY ServedMeans
  <1> HIDE DEF N
  <1> QED BY <1>1, <1>2, <1>3, TypeCorrect, Invariance, PTL DEF Spec
=============================================================================
