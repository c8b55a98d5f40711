# TLA+ models of the FDS storage platform

This directory specifies parts of the FDS platform (`src/source/`) in TLA+. TLC
model-checks the modules on small instances and TLAPS proves the results listed
under *Proofs* for every value of the constants. `PROJECT.json` ties each
definition to the source lines it models, each property to a fault it detects,
and each hazard of the code to the properties that watch it.

## 1. The system

FDS is a distributed object and block store. Clients talk to an *access
manager* (AM). An object's data goes to *storage managers* (SM), chosen by the
DLT from a hash of the data; a volume's catalogue (blobs, offsets, object ids)
is kept by *data managers* (DM), chosen by the DMT from the volume id. An
*orchestration manager* (OM) computes both tables, and a *platform manager*
(PM) starts processes on each node. Services exchange asynchronous Thrift
messages through one request layer.

| Part | State | Operations | What is hard | What makes it correct |
|---|---|---|---|---|
| Service requests `net-service/svc_request/SvcRequest.cpp` | endpoint states, timers, ack counters, callback | invoke, answer, timeout, complete | several answers from one endpoint (send error, timeout, late reply), no answer at all | one callback, true of the endpoints, as early as possible; retirement |
| Volume group coordinator `VolumeGroupHandle.cpp` (in the AM) | replica handles with state, version and applied operation; `opSeqNo_`, `commitNo_`; a buffer of recent writes | open, write, replica state changes, periodic check, close | writes while replicas join; a crash with writes half done; stale messages of an earlier incarnation | replicas in service agree; acknowledged writes survive |
| Volume replica `VolumeMeta.cpp`, `VolumeInitializer.h` (in the DM) | state, version, operation and sequence ids, catalogue | open, group update, write, sync by migration and replay | crash and restart, sync from a peer that lags, abort during sync | every write once and in order |
| Write buffer `lib/misc/BufferReplay.cpp` | a file, batch counters, progress | init, buffer, startReplay, replayWork_, abort | four kinds of thread, reads outside the lock, disk faults | order, mutual exclusion, safe deletion, the outcome is reported |
| AM transactions and cache `AmTxManager.cpp`, `AmCache.cpp`, `AmDispatcher.cpp` | open transactions with what they staged; cached descriptors, offsets and objects; reads waiting for an object | start, put, put once, delete, commit, abort, get, stat | a put is two requests answered in any order; commits and reads fill one cache; faults after execution | reads see acknowledged writes, the cache only committed ones; a failed put takes its transaction with it |
| DM commit log, TVC `dm-tvc/` | open transactions per volume, access tokens | start, update, delete, commit, rollback; token leases | an AM that dies, a lease that expires while renewed | a transaction is applied whole and once; one caching client |
| DM migration `DmMigration*.cpp` | executors, clients, sequence of deltas | start, diff, deltas, forward, finish, abort | messages out of order, abort from any thread | destination equals source |
| OM deployment `OmDmtDeploy.cpp`, `OmDeploy.cpp` | state machine of two regions, acks outstanding, table versions, pending services | deploy, rebalance, commit, broadcast, close, error and recovery | acks lost, late or of an old version; services that register in the middle; OM restart | a table is committed when the data is there; clients follow the servers; a deployment ends |
| OM volumes `OmVolume.cpp` | volume state machine | create, delete, snapshot | services joining meanwhile | no volume deleted while in use |
| SM store, garbage collector, migration `stor-mgr/smlib/` | object metadata, token files, live-object sets | put, get, delete, compact, migrate | puts during compaction and migration | no live object is dropped |
| PM, QoS, task executor, tables | processes, queues, key queues, DLT/DMT | start, schedule, dispatch | flapping services, two-key tasks | order and exclusion per key |

Interactions: the AM's `VolumeGroupHandle` sends opens, writes and group updates
to the DMs and receives their `AddToVolumeGroupCtrlMsg`; a DM that rejoins copies
its catalogue from a peer and replays its `BufferReplay` file into its own QoS
queue; every message is an endpoint request of the request layer; all handlers of
one volume or one request run under one key of the task executor. A put of an AM
goes to a DM and to an SM at the same time, and what its commit leaves in the AM's
cache is what later reads are answered from. The OM sends DMs that join a table
and the order to pull metadata, then commits the table, first on the DMs, then on
AMs and SMs. `PROJECT.json` lists every part with its status; the hazards found so
far, with the line where each bites, are there too.

## 2. Modules

| Module | Models | Built on |
|---|---|---|
| `BufferReplay` | `BufferReplay.cpp` with the code that drives and feeds it | |
| `MCBufferReplay` | its instance for TLC | `BufferReplay` |
| `BufferReplayProofs` | proofs | `BufferReplay` |
| `SvcEndpoints` | endpoint requests, timers, transport and executor under a request | |
| `SvcRequestContract` | abstract: one callback, then retirement | |
| `QuorumSvcRequest`, `FailoverSvcRequest`, `MultiPrimarySvcRequest` | the three kinds of request | `SvcEndpoints`, refine `SvcRequestContract` |
| `QuorumSvcRequestProofs`, `FailoverSvcRequestProofs`, `MultiPrimarySvcRequestProofs` | proofs | the request of that name |
| `VolumeGroupNet` | messages between coordinator and replicas, bounds | |
| `VolumeGroupHandle` | the coordinator | `VolumeGroupNet` |
| `VolumeReplica` | a replica on a DM | `VolumeGroupNet` |
| `VolumeGroup` | their composition and its properties | the two above |
| `VolumeGroupProofs` | proofs | `VolumeGroup` |
| `MCVolumeGroup` | three interchangeable replicas for TLC | `VolumeGroup` |
| `BlobTx` | transactions on a blob and reads of it: AM transactions, cache and dispatcher with the commit log and catalogue of a DM and the objects of an SM | |
| `MCBlobTx` | interchangeable readers for TLC | `BlobTx` |
| `BlobTxProofs` | proofs about transactions | `BlobTx` |
| `BlobTxReadProofs` | proofs about readers | `BlobTxProofs` |
| `DmtDeploy` | the OM's deployment of a DMT with the services that receive it | |
| `DmtDeployProofs` | proofs | `DmtDeploy` |

Definitions whose comment starts with "Fault:" are wrong on purpose: each puts a
plausible bug in place of the definition that follows it, to confirm that the
property named with it in `PROJECT.json` notices.

### BufferReplay

The variables carry the names of the class's fields (`progress_`,
`nBufferedOps_`, ...). `thr` is the position of the affinity thread inside
`replayWork_`, `tasks` the calls of it queued on the pool, `svc` the service
thread that receives operations. A section under `lock_` is one step; what the
code does outside (callbacks, the read of `replayWorkPosted_` in
`notifyOpsReplayed`) is a step of its own. The constructor does not initialise
`replayWorkPosted_`, so it starts with either value. Operations are their
numbers: the k-th buffered operation is operation k, so the file is its length.
`Faults` says which disk faults may occur, `UseAffinity` whether the answers to
replayed operations run on the thread that runs `replayWork_` (they do in the
DM; the unit test's default is that they do not).

### Service requests

`SvcEndpoints` has the part all requests share: `Send` (which may post a send
error and arm the timer all the same, and posts an empty answer if the request
is fire-and-forget), the remote service, the timer and the queue of answers.
The request modules add the loop of `invokeWork_` and their `handleResponse`.
Codes an `epAppStatusCb_` tolerates are `Tolerated`.

### Volume groups

`handle[r]` is a `VolumeReplicaHandle`, `dm[r]` the volume on DM `r`; `reqs` the
write requests under way with the endpoints still awaited; `acked` the writes
the client was told are done; `fatal` the assertions that failed. Requests of
one connection keep their order; a DM's own messages (`adds`) and its answers
(`replies`) may pass each other, as different threads send them. A crash of the
coordinator loses a suffix of what it had sent to each replica. A crash of a DM
keeps `version` and the catalogue and recomputes the sequence id from it, as
`getLatestSequenceId` does. `Asserts` is TRUE for a debug build, where a failed
`fds_assert` ends the coordinator, or the DM that receives a write out of order
(`dmhandler.h:65`), FALSE for a release build, where the DM refuses the write.

`seq` is the in-memory sequence id. The commit of a blob raises it, and so does
each blob descriptor a migration brings (`DmVolumeCatalog.cpp:1339`). A write of
`MetaWrites` is a `SetVolumeMetadata`: it is a commit of the group like any other
(`AmDispatcher.cpp:689`), its sequence id goes into the catalogue with the volume
descriptor, and `seq` stays as it was (`setvolumemetadatahandler.cpp:57`).

Abstractions: every write is a commit of its own blob, or of the volume's
metadata; a replica accepts and executes a write in one step; static migration is
one step that makes the catalogue the peer's; the replica's buffer is a queue (its
threads are `BufferReplay`'s subject); the broadcast that ends an open may complete
at any time after it was sent; there is one coordinator at a time, and no reads.
Two local failures of the initializer are left out: transactions of the peer that
cannot be applied (`VolumeInitializer.h:180-183`) and a buffer file that cannot be
opened (`263-266`).

### Blob transactions

`txMap` is `AmTxManager::txMap`, `cache` the descriptor and offset caches (the
descriptor is one more key, `Desc`), `objects` what was put into the object
cache, `log` the commit log and `cat` the history of the catalogue per key. A
transaction's number is its data: an object is named by the transaction and the
offset that wrote it. `queue` holds the writes in the order of their operation
ids, because the volume group executes them in that order; answers are a set, for
they come in any order. `put[t][o]` has the two halves of a put
(`AmMultiReq::notifyResponse`) and what the client was told. A fault answers a
write with an error whether it was executed or not; `FaultKinds` says which ones.

`acked`, `torn`, and the fields `floor` and `exempt` of a read are not in the
code. They say which write a read must at least see, and which keys are exempt
because their entry went old in one of four ways the code does not guard against:
two commits were answered in another order than they were executed (`Overtaken`);
a read that already had its answer when the entry was removed puts the old value
back (`Carries`); the offset was not staged because the transaction was at
`tx_max_staged_entries`, and its commit leaves the older entry in place
(`Unstaged`); a get whose query failed, but which had found the descriptor, caches
the offsets it did not learn as missing (`NotLearnt`). The first two are races; the
last two are listed as hazards. A key is exempt from that step until its entry is
replaced or removed, and only for reads that begin in between. One DM stands for
the volume group, so that `FreshReads` is about the AM's cache: that a read sent to
a functional replica may find it behind the quorum is not in this module.

The configuration is the default one (volume grouping on, `all_atomic_ops` and
`cache_missing_cat` off). The client ends a transaction only when its puts were
answered, does not put an offset twice and does not mix puts with a delete;
`AmTxManager` verifies the last two. Left out: truncating puts, metadata,
`renameBlob`, access tokens.

### DMT deployment

`om` is one record, and an event of the state machine a function on it: an action
of `DmtDplyFSM` may raise an event that is processed before `process_event`
returns, and some handlers raise two events in a row. `st` and `err` are the two
regions; `DST_Error` is an interrupt state that drops every event but its own.
`Dispatch` is the transition table, with the deferred events; operators are named
after the `DACT_` and `GRD_` functors. A state that lists an event as deferred
and has a row for it takes the row, as Boost MSM does.

`svc[s]` has the tables a service knows and the one it uses; `req` and `ans` are
queues per service, `pulls` the migrations running on DMs, whose answers join the
queue when they end, `lost` the requests that will time out. A DM that starts
takes the committed table from the OM, then registers. `need` and `pulled` record,
for the properties only, which DMs had to pull in a deployment and which did.
`UpdateDmt` stands for the handlers of all three kinds of service: each drops a
version it knows and answers OK, the AM because it turns the duplicate into OK
(`AmProcessor.cpp:246-250`).

The answer to a volume notification is handled by `om_vol_cmd_resp`
(`OmVolume.cpp:1837-1843`): an OK, a timeout, a failed send and a duplicate all
raise `DmtVolAckEvt`, whether or not the OM is still in the deployment that sent
it (`VolCmdResp`). Another error, one of the DM's own `addVolume`, raises no event;
it occurs only with the fault kind "add". The OK into which `om_pullmeta_resp`
turns `ERR_VOL_NOT_FOUND` (`OmNodeResources.cpp:728-732`) is not there: a DM
answers a pull with `ERR_OK` or `ERR_DM_MIGRATION_ABORTED` only.

Left out: volume grouping mode (where one deployment is made when the DMs of a
cluster have all registered), removal of DMs, reload of the tables after a
restart of the OM, services in state `INACTIVE_FAILED`, to which volumes and closes
are neither sent nor counted (`OmNodeResources.cpp:173-182`, `742-750`).

## 3. Runs

| Run | Instance | Shows |
|---|---|---|
| `buffer_replay` | 5 operations, batches of 2, snapshot at 1, both disk faults | operations reach the QoS queue in order (`QosOrder`), `replayWork_` never runs twice (`SingleReplayWork`), the object may be deleted in its terminal callback (`SafeToDelete`), COMPLETE is true (`CompleteMeansReplayed`), an abort is final (`AbortIsFinal`), a replay that was taken up ends in a callback (`ReplayTakenConcludes`) |
| `buffer_replay_write_fault` | 2 operations | expected violation of `ReplayConcludes`, finding 1 |
| `quorum_request` | 3 endpoints, every quorum, waiting for all or not, with or without callback | the verdict is true (`VerdictSound`), as early as it can be (`VerdictPrompt`), a retired request has no timer (`RetiredIsQuiet`), the contract is implemented (`HonoursContract`) |
| `failover_request` | 3 endpoints | one endpoint at a time and in order (`TriedInOrder`), `VerdictSound`, `HonoursContract` |
| `multi_primary_request` | 2 primaries, 1 optional | the primaries alone decide (`PrimariesDecide`), the final callback has complete lists (`AllResponded`), `HonoursContract` |
| `volume_group_sync` | 3 replicas, quorum 2, debug build, 2 writes, the second of metadata, 1 open, 1 fault | replicas in service have what was acknowledged (`FunctionalCurrent`) and agree (`Agreement`) |
| `volume_group_reopen` | release build, the same writes, 2 opens, 1 fault | an acknowledged write of a blob stays with a quorum (`AckedHeld`), an open keeps it (`OpenKeepsAcked`), answers stay in order (`VerifyHolds`); no version is known that the replica has not saved (`VersionsReached`), and a sequence id covers every blob of the catalogue (`CatalogueCovered`) |
| `volume_group_diverge` | debug build, 1 write, 2 opens | expected violation of `ReplicatedToAll`, finding 2 |
| `blob_tx` | one transaction, one put-once, one offset, 2 readers, a failed commit, object or query, 1 eviction | a read sees what was acknowledged before it began (`FreshReads`), the cache holds committed values only (`ReadCommitted`), a put that was answered with an error keeps its transaction out of the catalogue (`FailedPutNeverCommits`), whatever a client waits for is under way (`NothingForgotten`) |
| `blob_tx_put_fault` | 2 offsets, no readers, one half of a put fails | expected violation of `AckedPutsCommitted`, finding 3 |
| `dmt_deploy` | 1 DM, 1 joining, 1 AM, 2 deployments, 2 faults (volume notifications that time out among them), 1 restart | a table is committed only when every DM that had to has pulled in this deployment (`CommitAfterSync`), clients are never ahead of the DMs (`ClientsNeverAhead`), no `fds_verify` fails (`NoPanic`), the machine is never stuck (`NeverStuck`) |
| `dmt_deploy_rollback` | the same with an SM, 1 deployment, 1 lost close | expected violation of `RolledBack`, finding 4 |

All passing runs but `volume_group_reopen` also check a type invariant.

Bounds. Five operations with batches of two give a full batch, a partial one,
a batch partly covered by the migration snapshot, and arrivals during and after
catch-up. Three endpoints separate quorum, minority and all. Three replicas are
what the code is deployed with, and the only size for which `open` has its rule
of three different sequence ids. `MaxVersion` 4 allows a replica two
incarnations beyond its first open; `MaxFaults` 1 is one crash of a DM or of
the coordinator, or one answer that comes after its timeout. One fault is also
where the guarantee ends: with two, a replica that acknowledged a write can
resync from one that has not executed it yet and forget it, which leaves the
write on one replica. In the release build `FunctionalCurrent` and `Agreement`
fail within one open: a replica that joins is told `lastOpId` 0 and skips its
sync while the coordinator goes on taking writes, and where `fds_assert` is
compiled out (`VolumeGroupHandle.cpp:1011-1012`) it becomes functional with a gap
until it refuses the next write. They are checked for the debug build. `AckedHeld`,
`OpenKeepsAcked` and `VerifyHolds` are claims about one fault and two writes; the
remaining properties hold whatever fails (section 5). `AckedHeld` fails in a debug
build that is opened twice. Both are about blobs: an open compares sequence ids
that a `SetVolumeMetadata` does not raise, so that it may choose replicas without
the metadata that was acknowledged, and TLC finds both violated when metadata
writes are included. Six failure paths take two faults to reach, where these
claims end, so the runs do not take them: `OpenFails`, `OpenWhileSyncing`,
`SkipInitializer`, `NoSyncPeer`, `StaleAnswer` and `CopyFailed`. The theorems of
section 5 cover them.

`VerifyHolds` ends early in the release build. Without the assertion
(`VolumeGroupHandle.cpp:1008-1012`) a replica that was made Offline while it syncs
becomes functional by its own late message that it is Active, which has the same
version, and keeps an old `appliedOpId`, so that the next answer fails the
`fds_verify` of line 833. With two faults and one open it is an answer that times
out (24 states); with one fault and three writes the syncing replica has got the
second write by migration, refuses it as out of order and is made Offline for
that (30 states). The search for an inductive invariant of the debug build ended in
a behaviour of 50 states with three faults, which TLC confirms: two replicas have
become Syncing at `opId` 1 when the last functional one is made Offline, and
`opSeqNo_` starts again from 0 (`VolumeGroupHandle.cpp:1056`). One of the two and
the third replica, which skips its sync because `lastOpId` is 0, make the quorum
again. The next write, `opId` 1, goes to the other one too; it buffers the write
and answers, and `appliedOpId` + 1 is 2. A replica that kept `opId` 1 and is
functional ends on that write (`dmhandler.h:65`).

A transaction, a put-once and two readers make the three writers of the cache
meet: commit, one-shot update and read. One offset suffices there, since the
cache treats keys alone and the descriptor is a second key; the run on put faults
has two. The staging limit is one, so that the one offset is staged; with the limit
0, where it never is (`TieringTimeBasedPolicy.cfg` sets that), and with two offsets,
limit one and one reader the same properties hold (3.5 and 3.7 million states).
Left out of `blob_tx` is a failed *update*, which is finding 3.

One joining DM and one restart let registration, migration, abort and retry
meet in two deployments. `CommitAfterSync` and `NoPanic` are claims about these
bounds. When a DM restarts twice, the answer of a pull may be handled so late, the
abort having timed out meanwhile, that the next deployment counts it (an ack of a
pull names no deployment, `OmDmtDeploy.cpp:833`; TLC's trace has 16 states). With
three deployments one restart is enough (26 states): errors of the AM undo a table
with which a DM has started, that DM fails the `fds_verify` of `commitDMT` at its
abort and restarts, and the answer of its finished pull is counted in the next
deployment. Left out of `dmt_deploy`: a lost *abort* (a late pull is then counted in
the retry, TODO FS-3600 at `OmDmtDeploy.cpp:1199`; `CommitAfterSync` fails after 16
states) and an *addVolume* that fails on the DM (`om_vol_cmd_resp` raises no event
and the machine stays in `DST_Rebalance`, so that `NeverStuck` fails).

Deadlock is not checked: a replay that has ended, a request that was answered,
a group, a client and an OM that have used up their bounds have nothing left to
do. `NothingForgotten` and `NeverStuck` say when that is legitimate.

Fairness. `BufferReplay`: the pool runs queued work, a caller of `abort` leaves
it, and each replayed operation is answered, because its request carries a
timeout (`bufferReplayIoTimeout_`); arrivals, `startReplay` and `abort` are not
fair. Requests: the executor runs queued work and an armed timer goes off;
nothing is assumed of remote services. No liveness is claimed of volume groups,
blob transactions and deployments; the two invariants just named are the safety
half of it.

## 4. Findings

1. A short write to the buffer file before `startReplay` sets `ABORTED` without
   a callback; `startReplay` and `abort` then do nothing and the initializer
   waits for ever (`BufferReplay.cpp:96` against `BufferReplay.h:109-113`).
2. A replica may sync from a peer that has not executed an earlier write;
   `replayFromWriteOpsBuffer_` (`:147`) does not hold that write and silently
   replays nothing. The migration takes the replica back to the peer's
   catalogue (`DmMigrationClient.cpp:135-136`) but `setSequenceId`
   (`VolumeMeta.cpp:151`) never lowers the sequence id, so that the next open
   takes the replica for up to date.
3. `AmTxManager::_putBlobCb` (`:554`) tells the client the result of whichever
   half of a put was answered last, and aborts by it. A put whose catalogue
   update failed first is answered OK and its transaction commits without it
   (against `AmRequest.h:92-95`).
4. When a close times out, the OM undoes the committed DMT and sends the previous
   one to AMs and SMs "to roll them back" (`OmDmtDeploy.cpp:1208`); they know that
   version, drop it as a duplicate (`dmt.cpp:346`), answer OK and go on using the
   other.

## 5. Proofs

`BufferReplayProofs` holds for every number of operations, batch size, snapshot
and set of faults. `TypeCorrect` and `AbortStays` need no more; the others assume
`UseAffinity = TRUE`, without which they are false: `notifyOpsReplayed` reads
`replayWorkPosted_` after the unlock (`BufferReplay.cpp:149`), and two
acknowledgements on two threads post `replayWork_` twice. `SafeToDelete`
and the rest are not inductive: that nobody is left when the callback comes
depends on how the work is handed on. `IInv` adds `Accounting` (outstanding =
still to be sent + in flight), `OneToken` (at most one of a queued task, an
acknowledgement about to post, and an outstanding batch carries the replay on),
`Phases`, `Callbacks` and `LastOp` (which operation was last put on the QoS
queue in each phase). From it follow `OrderCorrect`, `MutualExclusion`,
`DeleteIsSafe` and `CompleteIsComplete`.

`QuorumSvcRequestProofs` holds for every number of endpoints, quorum and set of
codes, from `EndpointsAssumption` alone (the names "OK" and "none" are not
application codes, and tolerated codes are application codes). `VerdictSound`
speaks of endpoints and the code counts answers, so `IInv` says first that the
counters are the cardinalities of the two sets of endpoints (`Counted`, kept
because an endpoint has a code exactly when it is complete, `EndpointStates`),
then that the stored code is a failed endpoint's (`ResponseOfFailed`), that
`respCb_` is called exactly when due (`CalledWhenDue`) and that retirement comes
with the last endpoint (`RetiredWithLast`). The arithmetic rests on the library's
facts on finite sets. Results: `TypeCorrect`, `VerdictCorrect`, `PromptVerdict`,
`QuietWhenRetired`, and `ImplementsContract`, the safety part of the refinement
of `SvcRequestContract`.

`BlobTxProofs` holds for every set of transactions, offsets and readers, every
limit on staged entries and every kind of fault, from `BlobTxAssumption`.
`FailedPutNeverCommits` is not inductive: that the commit of a transaction with a
failed put is never sent depends on the put's two answers both having been
counted, hence on which requests can still be answered. `IInv` says that no write
is in flight twice (`Unique`), that each one in flight is awaited by the state of
its transaction (`Awaited`), that a transaction the AM still knows has no put
answered with an error and one that commits has no put outstanding (`Regular`),
that the catalogue has a transaction only if its commit was sent (`Committed`),
and the same for a put-once (`Single`). `Flying` collects the writes of the queue
and of the answers, so that execution, which moves one from the first to the
second, changes nothing the invariant sees. Results: `TypeCorrect`,
`Invariance`, `FailedPut`.

`FailoverSvcRequestProofs` and `MultiPrimarySvcRequestProofs` do the same for the
other two kinds of request, for every number of endpoints and, in the second, of
primaries. A failover request moves on when an endpoint fails, and answers of
endpoints it left still arrive; `VerdictSound` needs `Phases` (what `state_` says
of the current endpoint and of the callback) and `SuccessAnswered` (a queued
success is of a service that was tried and has no request left), and for the
latter `SenderErrorsAssumption`: the codes the sender itself makes up, for a send
that failed and for a timeout, are not codes a service answers with. Results:
`TypeCorrect`, `OrderKept`, `VerdictCorrect`, `ImplementsContract`. For the
multi-primary request the two counters are again cardinalities (`Counted`), the
two lists of failures are sets of failed endpoints and the stored code is that of
a failed primary, if any (`FailuresListed`). Results: `TypeCorrect`,
`PrimariesSpeak`, `AllRespondedLast`, `ImplementsContract`.

`BlobTxReadProofs` is about readers. `LInv` relates what the AM believes of a
transaction to the DM's commit log and catalogue: a put that was answered OK is in
one of them, and a commit that was answered OK left in the catalogue all that is
staged. On it rest `CInv` (every value in the cache, or carried by a read, was
committed), hence `CacheCommitted`, and `FInv` (an entry of the cache is at least
as new as the last acknowledged write, and so is a value that a read may still put
there unless the cache will refuse it or the key is marked), hence `ReadsAreFresh`.
`ReadsAreFresh` and `NobodyForgotten` assume nothing beyond `BlobTxAssumption`: any
staging limit and any failures of writes and queries are allowed, and what the code
gets wrong at the limit or after a failed query is confined to the keys `Unstaged`
and `NotLearnt` mark at that step.

`DmtDeployProofs` holds for every set of DMs, AMs and SMs, any bound on
deployments, restarts and faults, and every kind of fault, the two that the run
leaves out (lost aborts and failures of `addVolume`) included (`DeployNeverStuck`
excepted, see below). Since an event is a function on the OM's record, each
functor has a lemma: it keeps the record `Good` with respect to the state in which
the step began. `Good` has three parts: `Shape`, its types; `Stage`, that there is
a target exactly while a deployment runs, one version ahead of the committed table
until `DACT_Commit` and equal to it from then on; and `Since`, what the step has
sent and committed so far: at most one new version, sent once to every DM after
any abort, and a table for clients only if all its DMs had it when the step began.
Dispatching the deferred events is a fold; that it keeps the record `Good` is an
induction, carried out as the choice of a least counterexample (`Least`, from the
library's `WFMin`). For the services, `IInv` says that the version a DM uses never
falls and its queue holds versions in order up to the committed one (`Follows`),
that in `DST_BcastAM` every DM of the committed table has it or is among those
whose answer is awaited, each of which is awaited once, and that `commitAcks` is
not less than their number (`Gathering`), and that no deferred ack is of the
version being gathered (`DeferredOld`): the count can reach zero only when all
have it. Once a committed table was undone the OM hands out its version a second
time; from then on only `Shape`, `Stage` and the types are claimed. Results:
`Invariance`, `TypeCorrect`, `ClientsFollow`.

That the machine is never stuck (`DeployNeverStuck`) needs a second invariant,
`Live(om, Awaited)`: in every state but `DST_Idle` the OM waits for at least one
ack, and for no more than will come. `Awaited` names, per kind of message, the
services that still owe an answer: those with a request queued, being worked on,
answered or lost (a lost one times out and counts as an ack). `Forward` compares
them with what each state of the first region counts: sets of DMs in
`DST_Rebalance` and `DST_Commit`, a counter and the cardinality of the set
elsewhere; `Recovers` does so for the aborts and for the clients that go back to
the old table in `DST_Error`. The requests of a DM that restarts are lost, and a
lost volume notification is acknowledged by its timeout like an answered one, so
`DST_Rebalance` goes on without it; a notification the DM answers with an error is
none that anybody may wait for. An ack is taken out of the queue before its event is
processed; `Forward` carries the event `e` in between, and each functor has a lemma
again, as has the dispatch of deferred events. The theorem assumes that `addVolume`
does not fail on a DM (`"add" \notin FaultKinds`), and is false otherwise:
`om_vol_cmd_resp` raises no event then (`OmVolume.cpp:1837-1843`). Lost volume
notifications, lost aborts and every other kind of fault are allowed, and so are
registrations that are still to come.

`VolumeGroupProofs` holds for every set of replicas, quorum, number of writes,
opens, incarnations and faults, and for both builds, from `GroupAssumption`. It is
about the two numbers by which coordinator and replicas understand each other:
versions, which tell incarnations apart, and sequence ids, which an open compares.
Neither property is inductive. A version the coordinator takes over comes from an
answer to an open or from a message of the replica, so `Told` extends
`VersionsReached` to the answers on their way and to those collected in
`prepared`; a crash keeps the version, which is why the order "save, then tell" of
`VolumeOpenHandler` and `startInitializer` matters. `CatalogueCovered` needs the
types: writes reach a catalogue out of the request queue, the replica's buffer,
the coordinator's `writeOpsBuffer_` or a peer, so every message, buffer and
catalogue is typed by `N`, the number of writes issued so far, which no operation
and no sequence id exceeds; and it is about blobs, since a write of the volume's
metadata does not raise the sequence id and its migration does not either. Only
`WriteOp` makes `N` grow, and what was typed before is typed after (`Wider`). A
restart reads the sequence id back from the catalogue; that the highest one exists
is `LatestIsHighest`. `ReplayTyped` shows that `replayFromWriteOpsBuffer_` stays
inside its buffer also where its assertions are compiled out. Results:
`Invariance`, `TypeCorrect`, `NoVersionAhead`, `NeverClaimsLess`.

Only model-checked: the liveness properties and the fairness half of
`HonoursContract` (outside the prover's reach); `CommitAfterSync` and `NoPanic` of
`DmtDeploy`, which are false beyond the run's bound; and, for the same reason, the
agreement of replicas, the safety of acknowledged writes and the order of answers
in volume groups (section 3).

## 6. Plan

In this order; each step extends or composes what is there.

1. `VolumeGroup`: two coordinators and the switch between them, forced opens;
   acceptance and execution of a write as two steps; static migration as a
   sequence of messages with a crash in between; reads with failover and close,
   with the liveness of close; an abstract replicated log and the group shown
   to implement it.
2. `BlobTx`: truncating puts and `setBlobMetadata`, the copy of open transactions
   to a replica that syncs, several AMs with `DmVolumeAccessTable` and the renewal
   timer (one caching client, a renewed lease is not expired).
3. `DmtDeploy`: removal of a DM and restart of the OM; then the DLT deployment,
   which resembles it, and the volume state machine.
4. DM migration (`DmMigrationMgr` and its executors and clients) with abort from
   any thread.
5. SM: compaction of a token against concurrent puts; then token migration.
6. The task executor, to discharge what the other modules assume of it.
7. Proofs: what was checked only within a bound is false beyond it (section 3), so
   what is left to prove comes with the extensions above: first the abstract
   replicated log of step 1, with the faults it tolerates as part of its statement.

## 7. Not modelled

Front ends (NBD, SCST, XDI, the Java services and the console), formats and
leveldb itself, quality of service in real time, tiering heuristics,
statistics, provisioning, tests and vendored code: I/O, arithmetic on
rates, or code without shared control state. The parts of section 1 that have
no module yet are planned as above.
