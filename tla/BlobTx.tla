------------------------------- MODULE BlobTx -------------------------------
(***************************************************************************)
(* Transactions on one blob, and reads of it, as an access manager (AM)    *)
(* runs them: AmTxManager (open transactions and what they staged),        *)
(* AmCache (blob descriptor, offset to object id, object data),            *)
(* AmDispatcher (requests to the data managers and to the storage          *)
(* managers), and on the other side the commit log and the catalogue of a  *)
(* DM and the object store of an SM.  The volume group is one DM that      *)
(* executes writes in the order of their operation ids (module VolumeGroup *)
(* is about how several replicas do that); its answers, and the ones of    *)
(* the SMs, reach the AM in any order.  A write may be answered with an    *)
(* error whether it was executed or not.                                   *)
(*                                                                         *)
(* The default configuration is modelled: volume grouping on, cacheable    *)
(* volume, all_atomic_ops and cache_missing_cat off.  An object is named   *)
(* by the transaction and the offset that wrote it, so two objects never   *)
(* have the same content.  Truncating transactions, setBlobMetadata and    *)
(* renameBlob are left out.                                                *)
(***************************************************************************)
EXTENDS Naturals, Sequences, FiniteSets

CONSTANTS Tx,           \* transactions
          Once,         \* those that are a putBlobOnce
          Offset,       \* the offsets of the blob
          Desc, Null,   \* key of the descriptor; "nothing there"
          Old,          \* the transaction of an earlier client
          Reader,       \* reads that may be under way together
          MaxStaged,    \* cache.tx_max_staged_entries
          FaultKinds,   \* operations that may be answered with an error
          MaxFaults,    \* bound: such answers
          Evictable,    \* bound: keys whose entry the cache may evict
          MaxEvictions  \* bound: how often

ASSUME BlobTxAssumption ==
    /\ IsFiniteSet(Tx) /\ IsFiniteSet(Offset) /\ IsFiniteSet(Reader)
    /\ Once \subseteq Tx
    /\ Desc \notin Offset /\ Null \notin Tx \cup {Old} /\ Old \notin Tx
    /\ Evictable \subseteq Offset \cup {Desc}
    /\ {MaxStaged, MaxFaults, MaxEvictions} \subseteq Nat
    /\ FaultKinds \subseteq {"start", "update", "delete", "commit", "once",
                             "smPut", "smGet", "query"}

Key == Offset \cup {Desc}
Value == Tx \cup {Old, Null}
Object == (Tx \cup {Old}) \X Offset

VARIABLES
    phase,   \* per transaction: what its client waits for
    told,    \* per transaction: what the client was told of the commit
    put,     \* per transaction and offset: the two halves of a put
    txMap,   \* AmTxManager::txMap
    cache,   \* descriptor_cache and offset_cache
    objects, \* object_cache: what was added to it
    read,    \* per reader: the request
    smGets,  \* objects a GetObject request to an SM is in flight for
    queue,   \* writes the DM has not executed, in the order of their opId
    answers, \* answers of the DM the AM has not handled
    log,     \* DmCommitLog::txMap_
    cat,     \* per key: the values the catalogue had, the last is current
    sm,      \* objects an SM holds
    acked,   \* per key: where in cat the last acknowledged write is
    torn,    \* keys whose entry may be old: Overtaken, Carries, Unstaged, NotLearnt
    faults, evictions

amVars == <<phase, told, put, txMap, cache, objects>>
dmVars == <<log, cat>>
ghosts == <<acked, torn>>
vars == <<phase, told, put, txMap, cache, objects, read, smGets, queue,
          answers, log, cat, sm, acked, torn, faults, evictions>>

NoTx == [op |-> "none", staged |-> {}]
NoEntry == [val |-> Null, state |-> "none"]
NoPut == [dm |-> "no", sm |-> "no", told |-> "no"]
NoRead == [st |-> "idle", want |-> {}, ids |-> [k \in Key |-> Null],
           found |-> FALSE, fromDm |-> FALSE, wait |-> {}, err |-> FALSE,
           floor |-> [k \in Key |-> 1], exempt |-> {}]
NoLog == [open |-> FALSE, offs |-> {}, del |-> FALSE]

(* The AM has just opened a volume that holds the blob                     *)
Init ==
    /\ phase = [t \in Tx |-> "idle"]
    /\ told = [t \in Tx |-> "none"]
    /\ put = [t \in Tx |-> [o \in Offset |-> NoPut]]
    /\ txMap = [t \in Tx |-> NoTx]
    /\ cache = [k \in Key |-> NoEntry]
    /\ objects = {} /\ smGets = {}
    /\ read = [r \in Reader |-> NoRead]
    /\ queue = <<>> /\ answers = {}
    /\ log = [t \in Tx |-> NoLog]
    /\ cat = [k \in Key |-> <<[tx |-> Old, val |-> Old]>>]
    /\ sm = {Old} \X Offset
    /\ acked = [k \in Key |-> 1] /\ torn = {}
    /\ faults = 0 /\ evictions = 0

Open(t) == txMap[t] # NoTx
Send(op, t, o) == queue' = Append(queue, [op |-> op, tx |-> t, off |-> o])
MayFail(kind) == kind \in FaultKinds /\ faults < MaxFaults

-----------------------------------------------------------------------------
(* THE DATA MANAGER                                                        *)

Current(k) == cat[k][Len(cat[k])].val
BlobExists == Current(Desc) # Null

(* The catalogue after transaction t was committed *)
Written(t, keys, val) ==
    [k \in Key |-> IF k \in keys THEN Append(cat[k], [tx |-> t, val |-> val])
                                 ELSE cat[k]]

(* What a write does to the commit log and the catalogue: the result, and  *)
(* both of them afterwards                                                 *)
StartTx(t) ==
    IF log[t].open
    THEN [res |-> "exists", log |-> log, cat |-> cat]
    ELSE [res |-> "ok", log |-> [log EXCEPT ![t].open = TRUE], cat |-> cat]

UpdateTx(t, o) ==
    IF ~log[t].open
    THEN [res |-> "notStarted", log |-> log, cat |-> cat]
    ELSE [res |-> "ok", log |-> [log EXCEPT ![t].offs = @ \cup {o}], cat |-> cat]

DeleteTx(t) ==
    IF ~log[t].open
    THEN [res |-> "notStarted", log |-> log, cat |-> cat]
    ELSE [res |-> "ok", log |-> [log EXCEPT ![t].del = TRUE], cat |-> cat]

CommitTx(t) ==
    IF ~log[t].open
    THEN [res |-> "notStarted", log |-> log, cat |-> cat]
    ELSE [res |-> IF log[t].del /\ ~BlobExists THEN "notFound" ELSE "ok",
          log |-> [log EXCEPT ![t] = NoLog],
          cat |-> IF ~log[t].del THEN Written(t, log[t].offs \cup {Desc}, t)
                  ELSE IF BlobExists THEN Written(t, Key, Null)
                  ELSE cat]

(* UpdateCatalogOnce: start, update and commit in one                      *)
UpdateOnce(t, o) ==
    IF log[t].open
    THEN [res |-> "exists", log |-> log, cat |-> cat]
    ELSE [res |-> "ok", log |-> log, cat |-> Written(t, {o, Desc}, t)]

Execute(m) ==
    CASE m.op = "start"  -> StartTx(m.tx)
      [] m.op = "update" -> UpdateTx(m.tx, m.off)
      [] m.op = "delete" -> DeleteTx(m.tx)
      [] m.op = "commit" -> CommitTx(m.tx)
      [] m.op = "once"   -> UpdateOnce(m.tx, m.off)

Answer(m, res) == 
    answers' = answers \cup {[op |-> m.op, tx |-> m.tx, off |-> m.off, res |-> res]}

(* The DM executes the next write; the volume group may still answer with  *)
(* an error, or not have executed it                                       *)
DmExecute ==
    /\ queue # <<>>
    /\ queue' = Tail(queue)
    /\ LET m == Head(queue)  e == Execute(m) IN
        \/ /\ log' = e.log /\ cat' = e.cat
           /\ Answer(m, e.res)
           /\ UNCHANGED faults
        \/ /\ MayFail(m.op)
           /\ \/ log' = e.log /\ cat' = e.cat
              \/ UNCHANGED dmVars
           /\ Answer(m, "failed")
           /\ faults' = faults + 1
    /\ UNCHANGED <<amVars, read, smGets, sm, ghosts, evictions>>

(* What a read that asked the DM leaves in the cache: a stat that went     *)
(* well its descriptor; a get all its keys as soon as it has a descriptor, *)
(* be it the one it found in the cache before it asked                     *)
Cacheable(rd) ==
    IF rd.fromDm /\ (IF rd.want = {Desc} THEN ~rd.err ELSE rd.found)
    THEN rd.want \cup {Desc} ELSE {}

(* What r will put into the cache as missing although it is there, when    *)
(* its query fails                                                         *)
NotLearnt(r) ==
    {k \in Cacheable([read[r] EXCEPT !.err = TRUE]) :
        read[r].ids[k] = Null /\ Current(k) # Null /\ cache[k].state # "clean"}

(* QueryCatalog and GetBlobMetaData: the keys of the blob that are there   *)
DmQuery(r) ==
    /\ read[r].st = "dm"
    /\ \/ /\ read' = [read EXCEPT ![r].st = "answered",
                                  ![r].err = ~BlobExists,
                                  ![r].found = @ \/ BlobExists,
                                  ![r].ids = [k \in Key |->
                                     IF k \in read[r].want \cup {Desc}
                                        /\ Current(k) # Null
                                     THEN Current(k) ELSE @[k]]]
          /\ UNCHANGED <<torn, faults>>
       \/ /\ MayFail("query")
          /\ read' = [read EXCEPT ![r].st = "answered", ![r].err = TRUE]
          /\ torn' = torn \cup NotLearnt(r)
          /\ faults' = faults + 1
    /\ UNCHANGED <<amVars, smGets, queue, answers, dmVars, sm, acked, evictions>>

-----------------------------------------------------------------------------
(* THE CLIENT'S REQUESTS                                                   *)
(* A client ends a transaction only when its puts and its delete were      *)
(* answered; it does not mix puts and a delete, nor put an offset twice    *)
(* (AmTxManager asserts both).                                             *)

Answered(t) == \A o \in Offset : put[t][o] = NoPut \/ put[t][o].told # "no"

StartBlobTx(t) ==
    /\ phase[t] = "idle" /\ t \notin Once
    /\ phase' = [phase EXCEPT ![t] = "starting"]
    /\ Send("start", t, Null)
    /\ UNCHANGED <<told, put, txMap, cache, objects, read, smGets, answers,
                   dmVars, sm, ghosts, faults, evictions>>

(* putBlob: the update of the catalogue goes to the DM and the object to   *)
(* an SM at the same time, if the AM still knows the transaction           *)
PutBlob(t, o) ==
    /\ phase[t] = "open" /\ put[t][o] = NoPut
    /\ IF Open(t)
       THEN /\ put' = [put EXCEPT ![t][o] = [dm |-> "wait", sm |-> "wait", told |-> "no"]]
            /\ Send("update", t, o)
       ELSE /\ put' = [put EXCEPT ![t][o].told = "err"]
            /\ UNCHANGED queue
    /\ UNCHANGED <<phase, told, txMap, cache, objects, read, smGets, answers,
                   dmVars, sm, ghosts, faults, evictions>>

DeleteBlob(t) ==
    /\ phase[t] = "open" /\ \A o \in Offset : put[t][o] = NoPut
    /\ Open(t)
    /\ phase' = [phase EXCEPT ![t] = "deleting"]
    /\ txMap' = [txMap EXCEPT ![t].op = "delete"]
    /\ Send("delete", t, Null)
    /\ UNCHANGED <<told, put, cache, objects, read, smGets, answers, dmVars,
                   sm, ghosts, faults, evictions>>

(* commitBlobTx: a transaction the AM does not know is refused             *)
CommitBlobTx(t) ==
    /\ phase[t] \in {"open", "deleted"} /\ Answered(t)
    /\ IF Open(t)
       THEN /\ phase' = [phase EXCEPT ![t] = "committing"]
            /\ Send("commit", t, Null)
            /\ UNCHANGED told
       ELSE /\ phase' = [phase EXCEPT ![t] = "ended"]
            /\ told' = [told EXCEPT ![t] = "err"]
            /\ UNCHANGED queue
    /\ UNCHANGED <<put, txMap, cache, objects, read, smGets, answers, dmVars,
                   sm, ghosts, faults, evictions>>

(* abortBlobTx removes the descriptor and then looks for its DMT version   *)
(* in the same map: it never finds it, and the DM is not told              *)
AbortBlobTx(t) ==
    /\ phase[t] \in {"open", "deleted"} /\ Answered(t)
    /\ phase' = [phase EXCEPT ![t] = "ended"]
    /\ told' = [told EXCEPT ![t] = "err"]
    /\ txMap' = [txMap EXCEPT ![t] = NoTx]
    /\ UNCHANGED <<put, cache, objects, read, smGets, queue, answers, dmVars,
                   sm, ghosts, faults, evictions>>

(* putBlobOnce: the object first, the catalogue once it is stored          *)
PutBlobOnce(t, o) ==
    /\ phase[t] = "idle" /\ t \in Once
    /\ phase' = [phase EXCEPT ![t] = "once"]
    /\ put' = [put EXCEPT ![t][o].sm = "wait"]
    /\ UNCHANGED <<told, txMap, cache, objects, read, smGets, queue, answers,
                   dmVars, sm, ghosts, faults, evictions>>

-----------------------------------------------------------------------------
(* THE CACHE                                                               *)

(* Fault: what was read replaces what was written *)
AddAlways(c, k, val, state) == [c EXCEPT ![k] = [val |-> val, state |-> state]]

(* SharedKvCache::add: a dirty value (one that was read) never replaces a  *)
(* clean one (one that was written through this AM)                        *)
Add(c, k, val, state) ==
    IF state = "dirty" /\ c[k].state = "clean" THEN c
    ELSE [c EXCEPT ![k] = [val |-> val, state |-> state]]

AddAll(c, keys, vals, state) ==
    [k \in Key |-> IF k \in keys THEN Add(c, k, vals[k], state)[k] ELSE c[k]]

(* Read r may still put a value of key k into the cache that it already    *)
(* has: from the DM, or from the cache if the DM does not return the key   *)
Carries(r, k) ==
    IF read[r].st = "dm"
    THEN read[r].fromDm /\ k \in read[r].want \cup {Desc} /\ read[r].ids[k] # Null
    ELSE k \in Cacheable(read[r])

(* Where transaction t is in the history of key k (0: nowhere)             *)
Position(t, k) ==
    IF \E i \in DOMAIN cat[k] : cat[k][i].tx = t
    THEN CHOOSE i \in DOMAIN cat[k] : cat[k][i].tx = t ELSE 0

(* A later write of the key was acknowledged before the one of t           *)
Overtaken(t, k) == Position(t, k) < acked[k]

(* The keys a client may count on once the commit of t is acknowledged     *)
Whole(t) == {Desc} \cup {o \in Offset : put[t][o].dm = "ok" /\ put[t][o].sm = "ok"}

Acknowledge(t, keys) ==
    acked' = [k \in Key |-> IF k \in keys /\ Position(t, k) > acked[k]
                            THEN Position(t, k) ELSE acked[k]]

(* What t wrote beyond the staging limit is acknowledged with the rest but *)
(* not put into the cache: an older value that is there, or that a read is *)
(* about to put there, stays                                               *)
Unstaged(t, keys) ==
    {k \in Whole(t) \ keys : cache[k] # NoEntry \/ \E r \in Reader : Carries(r, k)}

(* putTxDescriptor, and updateCatalogCb after putBlobOnce                  *)
CachePut(t, keys) ==
    /\ cache' = AddAll(cache, keys, [k \in Key |-> t], "clean")
    /\ torn' = {k \in torn : k \notin keys} \cup {k \in keys : Overtaken(t, k)}
                 \cup Unstaged(t, keys)

(* Fault: the entry stays and says that the blob is missing *)
CacheRemoveMissing(keys) ==
    /\ cache' = [k \in Key |-> IF k \in keys THEN [val |-> Null, state |-> "missing"]
                                            ELSE cache[k]]
    /\ torn' = {k \in torn : k \notin keys}

(* putTxDescriptor of a delete; eviction                                   *)
CacheRemove(keys) ==
    /\ cache' = [k \in Key |-> IF k \in keys THEN NoEntry ELSE cache[k]]
    /\ torn' = {k \in torn : k \notin keys}
                 \cup {k \in keys : \E r \in Reader : Carries(r, k)}

Evict(k) ==
    /\ k \in Evictable /\ cache[k] # NoEntry /\ evictions < MaxEvictions
    /\ CacheRemove({k})
    /\ evictions' = evictions + 1
    /\ UNCHANGED <<phase, told, put, txMap, objects, read, smGets, queue,
                   answers, dmVars, sm, acked, faults>>

-----------------------------------------------------------------------------
(* ANSWERS OF WRITES                                                       *)

StartBlobTxCb(a) ==
    /\ a.op = "start"
    /\ IF a.res = "ok"
       THEN /\ phase' = [phase EXCEPT ![a.tx] = "open"]
            /\ txMap' = [txMap EXCEPT ![a.tx] = [op |-> "put", staged |-> {}]]
            /\ UNCHANGED told
       ELSE /\ phase' = [phase EXCEPT ![a.tx] = "ended"]
            /\ told' = [told EXCEPT ![a.tx] = "err"]
            /\ UNCHANGED txMap
    /\ UNCHANGED <<put, cache, objects, queue, sm, ghosts, faults>>

(* applyPut: nothing if the transaction is gone, nor beyond the limit      *)
ApplyPut(t, o) ==
    IF Open(t) /\ Cardinality(txMap[t].staged) < MaxStaged
    THEN [txMap EXCEPT ![t].staged = @ \cup {o}] ELSE txMap

(* Fault: the transaction goes on after a failed put *)
PutBlobCbNoAbort(t, o, p, res) ==
    IF "wait" \in {p.dm, p.sm}
    THEN put' = [put EXCEPT ![t][o] = p] /\ UNCHANGED txMap
    ELSE /\ put' = [put EXCEPT ![t][o] = [p EXCEPT !.told = res]]
         /\ txMap' = IF p.dm = "ok" /\ p.sm = "ok" THEN ApplyPut(t, o) ELSE txMap

(* _putBlobCb: p is the put after the answer res of one of its halves.     *)
(* Both answers decide what becomes of the transaction if the last one is  *)
(* an error, but the last one alone is what the client is told             *)
PutBlobCb(t, o, p, res) ==
    IF "wait" \in {p.dm, p.sm}
    THEN put' = [put EXCEPT ![t][o] = p] /\ UNCHANGED txMap
    ELSE /\ put' = [put EXCEPT ![t][o] = [p EXCEPT !.told = res]]
         /\ txMap' = IF p.dm = "ok" /\ p.sm = "ok" THEN ApplyPut(t, o)
                     ELSE IF res # "ok" THEN [txMap EXCEPT ![t] = NoTx]
                     ELSE txMap

(* Fault: the update of an open transaction goes to the cache as well *)
UpdateCatalogCbCached(a) ==
    /\ a.op = "update"
    /\ LET res == IF a.res = "ok" THEN "ok" ELSE "err" IN
        PutBlobCb(a.tx, a.off, [put[a.tx][a.off] EXCEPT !.dm = res], res)
    /\ cache' = IF a.res = "ok" THEN Add(cache, a.off, a.tx, "clean") ELSE cache
    /\ UNCHANGED <<phase, told, objects, queue, sm, ghosts, faults>>

(* updateCatalogCb: the DM's half of a put *)
UpdateCatalogCb(a) ==
    /\ a.op = "update"
    /\ LET res == IF a.res = "ok" THEN "ok" ELSE "err" IN
        PutBlobCb(a.tx, a.off, [put[a.tx][a.off] EXCEPT !.dm = res], res)
    /\ UNCHANGED <<phase, told, cache, objects, queue, sm, ghosts, faults>>

DeleteBlobCb(a) ==
    /\ a.op = "delete"
    /\ phase' = [phase EXCEPT ![a.tx] = "deleted"]
    /\ txMap' = IF a.res = "ok" THEN txMap ELSE [txMap EXCEPT ![a.tx] = NoTx]
    /\ UNCHANGED <<told, put, cache, objects, queue, sm, ghosts, faults>>

(* commitBlobTxCb: the descriptor leaves the map and, if the commit went   *)
(* well or there was nothing to delete, goes to the cache                  *)
CommitBlobTxCb(a) ==
    /\ a.op = "commit"
    /\ LET tx == txMap[a.tx]
           ok == a.res = "ok" \/ (a.res = "notFound" /\ tx.op = "delete") IN
        /\ phase' = [phase EXCEPT ![a.tx] = "ended"]
        /\ told' = [told EXCEPT ![a.tx] = IF ok THEN "ok" ELSE "err"]
        /\ txMap' = [txMap EXCEPT ![a.tx] = NoTx]
        /\ \/ /\ ok /\ tx.op = "put"
              /\ CachePut(a.tx, tx.staged \cup {Desc})
              /\ objects' = objects \cup ({a.tx} \X tx.staged)
              /\ Acknowledge(a.tx, Whole(a.tx))
           \/ /\ ok /\ tx.op = "delete"
              /\ CacheRemove(Key)
              /\ Acknowledge(a.tx, Key)
              /\ UNCHANGED objects
           \/ ~ok /\ UNCHANGED <<cache, objects, ghosts>>
    /\ UNCHANGED <<put, queue, sm, faults>>

PutBlobOnceCb(a) ==
    /\ a.op = "once"
    /\ phase' = [phase EXCEPT ![a.tx] = "ended"]
    /\ IF a.res = "ok"
       THEN /\ told' = [told EXCEPT ![a.tx] = "ok"]
            /\ CachePut(a.tx, {a.off, Desc})
            /\ Acknowledge(a.tx, {a.off, Desc})
       ELSE /\ told' = [told EXCEPT ![a.tx] = "err"]
            /\ UNCHANGED <<cache, ghosts>>
    /\ UNCHANGED <<put, txMap, objects, queue, sm, faults>>

DmAnswer ==
    \E a \in answers :
        /\ answers' = answers \ {a}
        /\ \/ StartBlobTxCb(a) \/ UpdateCatalogCb(a) \/ DeleteBlobCb(a)
           \/ CommitBlobTxCb(a) \/ PutBlobOnceCb(a)
        /\ UNCHANGED <<read, smGets, dmVars, evictions>>

(* The answer of a PutObject; an error may hide that the object is stored  *)
PutObjectCb(t, o) ==
    /\ put[t][o].sm = "wait"
    /\ \E res \in {"ok", "err"} :
        /\ \/ /\ res = "ok"
              /\ sm' = sm \cup {<<t, o>>} /\ objects' = objects \cup {<<t, o>>}
              /\ UNCHANGED faults
           \/ /\ res = "err" /\ MayFail("smPut")
              /\ sm' \in {sm, sm \cup {<<t, o>>}}
              /\ faults' = faults + 1 /\ UNCHANGED objects
        /\ LET p == [put[t][o] EXCEPT !.sm = res] IN
            \/ /\ phase[t] # "once"
               /\ PutBlobCb(t, o, p, res)
               /\ UNCHANGED <<phase, told, queue>>
            \/ /\ phase[t] = "once"
               /\ put' = [put EXCEPT ![t][o] = p]
               /\ UNCHANGED txMap
               /\ IF res = "ok"
                  THEN Send("once", t, o) /\ UNCHANGED <<phase, told>>
                  ELSE /\ phase' = [phase EXCEPT ![t] = "ended"]
                       /\ told' = [told EXCEPT ![t] = "err"]
                       /\ UNCHANGED queue
    /\ UNCHANGED <<cache, read, smGets, answers, dmVars, ghosts, evictions>>

-----------------------------------------------------------------------------
(* READS                                                                   *)

(* getObjects: the objects that are not in the object cache are asked of   *)
(* an SM, unless another read waits for the same one.  The object cache    *)
(* may have evicted any object, so whether one is found is a choice.       *)
GetObjects(r, rd) ==
    \E miss \in SUBSET {x \in Object : x[2] \in rd.want /\ rd.ids[x[2]] = x[1]} :
        /\ {x \in Object : x[2] \in rd.want /\ rd.ids[x[2]] = x[1]} \ miss \subseteq objects
        /\ read' = [read EXCEPT ![r] = [rd EXCEPT !.st = "obj", !.wait = miss]]
        /\ smGets' = smGets \cup {x \in miss : \A q \in Reader : x \notin read[q].wait}

(* getBlob of a range of offsets, with the descriptor or without; statBlob *)
(* asks for the descriptor alone                                           *)
GetBlob(r, want) ==
    /\ read[r].st = "idle" /\ want # {}
    /\ LET Cached(keys) == [k \in Key |-> IF k \in keys THEN cache[k].val ELSE Null]
           rd == [NoRead EXCEPT !.want = want, !.ids = Cached(want),
                                !.floor = [k \in Key |-> IF k \in want THEN acked[k] ELSE 1],
                                !.exempt = torn \cap want] IN
        IF \A k \in want : cache[k] # NoEntry
        THEN GetObjects(r, rd)
        ELSE /\ read' = [read EXCEPT ![r] = [rd EXCEPT !.st = "dm", !.fromDm = TRUE,
                                                       !.ids = Cached(want \cup {Desc}),
                                                       !.found = cache[Desc] # NoEntry]]
             /\ UNCHANGED smGets
    /\ UNCHANGED <<amVars, queue, answers, dmVars, sm, ghosts, faults, evictions>>

GetOffsetsCb(r) ==
    /\ read[r].st = "answered"
    /\ IF read[r].err
       THEN read' = [read EXCEPT ![r].st = "obj"] /\ UNCHANGED smGets
       ELSE GetObjects(r, read[r])
    /\ UNCHANGED <<amVars, queue, answers, dmVars, sm, ghosts, faults, evictions>>

(* Fault: the answer serves one of the reads that wait for the object *)
GetObjectCbOne(x) ==
    /\ x \in smGets
    /\ smGets' = smGets \ {x}
    /\ \E ok \in BOOLEAN, r \in Reader :
        /\ x \in read[r].wait /\ ok = (x \in sm)
        /\ objects' = IF ok THEN objects \cup {x} ELSE objects
        /\ read' = [read EXCEPT ![r].wait = @ \ {x}, ![r].err = @ \/ ~ok]
    /\ UNCHANGED <<phase, told, put, txMap, cache, queue, answers, dmVars, sm,
                   ghosts, faults, evictions>>

(* getObjectCb: the answer of the one request serves every read that waits *)
GetObjectCb(x) ==
    /\ x \in smGets
    /\ smGets' = smGets \ {x}
    /\ \E ok \in BOOLEAN :
        /\ \/ ok /\ x \in sm /\ UNCHANGED faults
           \/ ~ok /\ x \notin sm /\ UNCHANGED faults
           \/ ~ok /\ MayFail("smGet") /\ faults' = faults + 1
        /\ objects' = IF ok THEN objects \cup {x} ELSE objects
        /\ read' = [r \in Reader |->
              IF x \in read[r].wait
              THEN [read[r] EXCEPT !.wait = @ \ {x}, !.err = @ \/ ~ok]
              ELSE read[r]]
    /\ UNCHANGED <<phase, told, put, txMap, cache, queue, answers, dmVars, sm,
                   ghosts, evictions>>

GetBlobCb(r) ==
    /\ read[r].st = "obj" /\ read[r].wait = {}
    /\ cache' = AddAll(cache, Cacheable(read[r]), read[r].ids, "dirty")
    /\ read' = [read EXCEPT ![r] = NoRead]
    /\ UNCHANGED <<phase, told, put, txMap, objects, smGets, queue, answers,
                   dmVars, sm, ghosts, faults, evictions>>

-----------------------------------------------------------------------------
Next ==
    \/ \E t \in Tx : \/ StartBlobTx(t) \/ DeleteBlob(t)
                     \/ CommitBlobTx(t) \/ AbortBlobTx(t)
    \/ \E t \in Tx, o \in Offset : \/ PutBlob(t, o) \/ PutBlobOnce(t, o)
                                   \/ PutObjectCb(t, o)
    \/ DmExecute \/ DmAnswer
    \/ \E r \in Reader : \/ \E want \in SUBSET Key : GetBlob(r, want)
                         \/ DmQuery(r) \/ GetOffsetsCb(r) \/ GetBlobCb(r)
    \/ \E x \in Object : GetObjectCb(x)
    \/ \E k \in Key : Evict(k)

Spec == Init /\ [][Next]_vars

-----------------------------------------------------------------------------
(* PROPERTIES                                                              *)

Result == {"no", "wait", "ok", "err"}
Put == [dm : Result, sm : Result, told : {"no", "ok", "err"}]
Descriptor == [op : {"none", "put", "delete"}, staged : SUBSET Offset]
Entry == [val : Value, state : {"none", "dirty", "clean"}]
Phase == {"idle", "starting", "open", "deleting", "deleted", "committing",
          "once", "ended"}
Write == [op : {"update", "once"}, tx : Tx, off : Offset]
           \cup [op : {"start", "delete", "commit"}, tx : Tx, off : {Null}]
Outcome == {"ok", "exists", "notStarted", "notFound", "failed"}
WriteAnswer == [op : {"update", "once"}, tx : Tx, off : Offset, res : Outcome]
           \cup [op : {"start", "delete", "commit"}, tx : Tx, off : {Null}, res : Outcome]
LogEntry == [open : BOOLEAN, offs : SUBSET Offset, del : BOOLEAN]
History == Seq([tx : Value, val : Value]) \ {<<>>}
Read == [st : {"idle", "dm", "answered", "obj"}, want : SUBSET Key,
         ids : [Key -> Value], found : BOOLEAN, fromDm : BOOLEAN,
         wait : SUBSET Object, err : BOOLEAN, floor : [Key -> Nat],
         exempt : SUBSET Key]

(* Types: in particular a key is cached as read, as written or not at all, *)
(* and only offsets of the blob are staged                                 *)
TypeOK ==
    /\ phase \in [Tx -> Phase]
    /\ told \in [Tx -> {"none", "ok", "err"}]
    /\ put \in [Tx -> [Offset -> Put]]
    /\ txMap \in [Tx -> Descriptor]
    /\ cache \in [Key -> Entry]
    /\ objects \subseteq Object /\ sm \subseteq Object /\ smGets \subseteq Object
    /\ read \in [Reader -> Read]
    /\ queue \in Seq(Write) /\ answers \subseteq WriteAnswer
    /\ log \in [Tx -> LogEntry]
    /\ cat \in [Key -> History]
    /\ acked \in [Key -> Nat] /\ torn \subseteq Key
    /\ faults \in Nat /\ evictions \in Nat

(* A read returns, of every key it asks for, a value the catalogue had at  *)
(* or after the last write of that key that was acknowledged before the    *)
(* read began (AmCache::getBlob, SharedKvCache::add), the catalogue being  *)
(* that of the one DM of the model.  Not covered are the keys whose entry  *)
(* the cache got wrong, from then until it is replaced, in one of four     *)
(* ways the code does not guard against: the commit that was answered last *)
(* was not executed last (Overtaken); a read that had its answer when the  *)
(* entry was removed put the old value back (Carries); the offset was      *)
(* written beyond the staging limit, so that the commit left an old entry  *)
(* in place (Unstaged); a get whose query failed, but which had found the  *)
(* descriptor, cached the offsets it did not learn as missing (NotLearnt). *)
FreshReads ==
    \A r \in Reader :
        read[r].st = "obj" /\ read[r].wait = {} /\ ~read[r].err =>
            \A k \in read[r].want \ read[r].exempt :
                \E i \in read[r].floor[k] .. Len(cat[k]) :
                    cat[k][i].val = read[r].ids[k]

(* What the cache holds was committed: staged data of a transaction that   *)
(* is open, was aborted or failed never gets there (AmTxManager::          *)
(* commitBlobTxCb, AmCache::updateCatalogCb)                               *)
ReadCommitted ==
    \A k \in Key : cache[k].val # Null =>
        \E i \in DOMAIN cat[k] : cat[k][i].val = cache[k].val

(* A transaction with a put that was answered with an error never reaches  *)
(* the catalogue, whatever its other puts do and whether or not the client *)
(* asks for the commit: the AM aborts it (AmTxManager::abortOnError)       *)
FailedPutNeverCommits ==
    \A t \in Tx, o \in Offset, k \in Key :
        put[t][o].told = "err" => \A i \in DOMAIN cat[k] : cat[k][i].tx # t

InFlight(op, t, o) ==
    \/ \E i \in DOMAIN queue : queue[i] = [op |-> op, tx |-> t, off |-> o]
    \/ \E a \in answers : a.op = op /\ a.tx = t /\ a.off = o

(* Whatever a client waits for, something is under way that will answer    *)
(* it; reads that share a GetObject are all served by its answer           *)
(* (AmCache::getObject, getObjectCb)                                       *)
NothingForgotten ==
    /\ \A r \in Reader : read[r].wait \subseteq smGets
    /\ \A t \in Tx :
        /\ phase[t] = "starting" => InFlight("start", t, Null)
        /\ phase[t] = "deleting" => InFlight("delete", t, Null)
        /\ phase[t] = "committing" => InFlight("commit", t, Null)
        /\ phase[t] = "once" =>
             \E o \in Offset : put[t][o].sm = "wait" \/ InFlight("once", t, o)
        /\ \A o \in Offset : put[t][o].dm = "wait" => InFlight("update", t, o)

(* "The responses need to be kept so that the *most relevant* error code   *)
(* is returned instead of whichever just happens to be the last"           *)
(* (AmRequest.h): a put answered OK in a transaction whose commit was      *)
(* answered OK is in the catalogue, and its object is stored.              *)
AckedPutsCommitted ==
    \A t \in Tx, o \in Offset :
        told[t] = "ok" /\ put[t][o].told = "ok" =>
            /\ \E i \in DOMAIN cat[o] : cat[o][i].tx = t
            /\ <<t, o>> \in sm
=============================================================================
