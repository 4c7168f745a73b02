# TLA+ models of the Pastel node

This directory holds TLA+ specifications of the parts of the Pastel node that
are hard to test: state machines that several threads advance, message handlers
whose order nobody controls, caches and counters at their limits. Each module is
translated from the C++ under `src/`; TLC checks it on small instances and TLAPS
proves the main invariants for every value of the constants. `PROJECT.json` maps
every definition to the lines it stands for.

## The system

A Pastel node is a Bitcoin/Zcash-style full node with a *masternode*
(supernode) layer on top. The parts that hold state and interact:

| part | source | state | who changes it |
|---|---|---|---|
| masternode sync | `mnode/mnode-sync.*` | asset being synced, attempt counter, time stamps | maintenance thread (`ProcessTick`), validation thread (`UpdatedBlockTip`), message handlers, `mnsync` RPC; no lock |
| fulfilled-request tracker | `mnode/mnode-requesttracker.*` | per-address, per-request expiry | the sync, the manager's and payments' message handlers; persisted |
| masternode entry | `mnode/mnode-masternode.*` | state, last ping, PoSe score, PoSe ban height | manager's check, pings, broadcasts, verification |
| masternode manager | `mnode/mnode-manager.*` | list, seen broadcasts and pings, recovery requests, verification requests | message handlers, maintenance thread |
| masternode payments | `mnode/mnode-payments.*` | votes, payees per block, last vote of each masternode | message handlers, block tip |
| active masternode | `mnode/mnode-active.*` | state of the local masternode, its pings | maintenance thread, end of sync |
| block cache | `netmsg/block-cache.*` | blocks waiting for their inputs, unlinked map | message handler threads |
| fork-switch tracker | `netmsg/fork-switch-tracker.*` | forks with failed switches | validation |
| tickets | `mnode/tickets/*`, `mnode/ticket-processor.*` | ticket database, ticket mempool | block tip, mempool acceptance |
| mining eligibility | `mining/eligibility-mgr.*` | whether the local mnid may mine | its thread, block tip |
| mempool and orphans | `txmempool.*`, `orphan-tx.*`, `accept_to_mempool.*` | transactions, orphans by previous output | message handlers, block connection |
| coins views and chain state | `coins.*`, `txdb/txdb.*`, `main.cpp` | unspent outputs, nullifiers and anchors in two caches and a database, undo data | block connection and disconnection, flushes |
| script checks | `checkqueue.h`, `script_check.*`, `utils/svc_thread.h` | queue of checks, counters, worker threads | block connection, workers, shutdown |
| other services | `utils/scheduler.*`, `asyncrpcqueue.*` | thread states, queues | their threads |
| chain validation, wallet, networking, RPC, crypto | `main.cpp`, `wallet/`, `net*.cpp`, `rpc/`, `crypto/`, `zcash/`, `snark/` | chain state, keys, sockets | many |

`PROJECT.json` lists all of them, with what is not modelled and why, and the
hazards of the code at the lines where they bite.

## Modules

Seven components are modelled, each with a module of instances for TLC (`MC...`),
six of them with proofs (`...Proofs`). `ChainState` and `Mempool` share
`Blockchain`, the tree of blocks and the ledger of a chain. The others do not share
variables; where one component consults another, the other's answer is a free
choice or an environment action, named below.

| module | models | runs | proofs |
|---|---|---|---|
| `MasternodeSync` | `CMasternodeSync` and the tracker of fulfilled requests | `sync` | `MasternodeSyncProofs` |
| `BlockCache` | `CBlockCache` with the block index, acceptance, chain choice and download choice | `cache_*` | `BlockCacheProofs` |
| `MasternodePayments` | `CMasternodePayments`, its votes, payees and cache file | `payment_votes` | `MasternodePaymentsProofs` |
| `Masternode` | one entry of the masternode list under everything that changes it | `masternode_entry`, `probation` | `MasternodeProofs` |
| `CheckVerdict` | what the queue of script checks promises | | |
| `CheckQueue` | `CCheckQueue`, its worker threads, `ConnectBlock` as its user, the shutdown; implements `CheckVerdict` | `check_queue`, `check_queue_stop` | `CheckQueueLoopProofs`, `CheckQueueProofs`, `CheckQueueRefinement` |
| `CoinsLedger` | what the coins views promise together | | |
| `CoinsCache` | `CCoinsViewCache` and `CCoinsViewDB` as operators | | |
| `Blockchain` | blocks, and the ledger of a chain as a reference | | |
| `ChainState` | connecting, disconnecting and flushing blocks over those views, with crashes; implements `CoinsLedger` | `chain_state`, `failed_flush` | |
| `Mempool` | the memory pool and the orphan transactions while the tip moves | `mempool` | `MempoolProofs` |

Just before some definitions stands a faulty version of them under another name
(`CheckedSameScore` before `Checked`). No specification uses these mutants; with one put
in place of its definition TLC refutes the property named with it in
`PROJECT.json`, which shows that the property depends on that code.

### MasternodeSync

`sync` holds the fields of `CMasternodeSync` (asset, attempt, time stamps),
`fulfilled` the tracker, `vNodes`, `fDisconnect` and `ibd` what the sync reads of
the network and the chain. No lock protects the fields. `ProcessTick` (`tick`)
and `UpdatedBlockTip` (`tip`, one record for each validation thread) are cut wherever
the code reads `syncState` again after acting on an earlier reading. `Reset`,
`SwitchToNextAsset` and `Fail`, which several threads call, are cut at every field they
write: `call` says where in them each thread is, and which state its
`SwitchToNextAsset` has read. Header callbacks and message handlers are single steps.
Time is counted in executions of `ProcessTick`; a stamp is the number of ticks
since it was taken, cut off just above the largest limit it is compared with.
`TimePasses` can let several ticks pass between two executions (a node that slept).

The unlocked fields allow these things, which no property excludes:

- A `Reset` in another thread between the two writes of `Fail` erases the time of the
  failure. The sync has then failed without a stamp, and `ProcessTick` restarts it
  at once instead of after a minute (`Rested`). `EventuallyFinished` holds all the same.
- `ProcessTick` decides at `mnode-sync.cpp:353` that `Waiting` has timed out and
  switches at line 363; a tip callback in between has moved `Waiting` to `List`, so the
  switch leaves `List` before any peer was asked for it, although line 185 says
  "there is no way we can continue without masternode list".
- `UpdatedBlockTip` tests `IsFailed` at line 482; when `ProcessTick` calls `Fail` before
  line 520, the failed sync counts as not synced and the callback's
  `SwitchToNextAsset` throws. `TickNeverThrows` is therefore about `ProcessTick` alone: there
  the sync cannot fail between a test and the switch it leads to, since only
  `ProcessTick` calls `Fail`.

Bounds: `MaxEvents` disturbances (new tips, headers, data, lost links, stalls,
commands, lists found too short) and `MaxStall` ticks between two executions. The time
limits are one or two ticks, so that each of them runs out before and after others.
Two disturbances suffice for everything said above: each needs one or two
callbacks inside one execution of `ProcessTick`. A thread other than the maintenance
thread may be delayed for a tick inside a method; that is a disturbance too.

Fairness (`FairSpec`, for `EventuallyFinished`): the maintenance thread is a loop
that never blocks on the others, a callback or a method that has started goes on,
time passes, the connection manager keeps dialling, the socket thread drops peers
flagged for it, and the initial download ends. Disturbances have no fairness. The
operator's commands and the periodic check of a synced node, which both reset a
finished sync, are disturbances of the run.

Left out: the quick mode of regtest (`mnode-sync.cpp:317-337`), the calls into
other components at the end of the sync, `nTimeAssetSyncStarted` and
`nTimeLastSynced`, and steps of other threads inside `nRequestedMasternodeAttempt++`,
inside `BumpAssetLastTime` (its test and its write) and inside the first part of
`ProcessTick`, which are single steps here.

### BlockCache

`index`, `failed`, `data`, `linked`, `waiting` and `tip` are the block index,
its flags, `nChainTx`, `mapBlocksUnlinked` and the active chain; `cached`, `item`
and `unlinked` are the maps of the cache; `inflight` and `connected` the downloads
and the peers; `th` the program counters and local variables of the threads. A
step is a section under one of the two locks, or a part of one; where a section
of `cs_main` has several steps, or a thread waits for one lock while it holds the
other, `csMain` and `cacheLock` record the owner. `ProcessNewBlock` is `CheckBlock` without
a lock (`CallProcessNewBlock`), one section of `cs_main` for the header and `AcceptBlock`
(`ProcessNewBlock`, `AcceptBlock`, cut where `check_prev_block` waits for the lock of the
cache) and another one for `ActivateBestChain` (`ActivateNew`). A block that fails
`CheckBlock` leaves the index alone; one that fails in `AcceptBlock` is marked failed.
`ProcessNextBlockAndActivateBestChain` reads `m_UnlinkedMap` (`CollectNext`), links under
`cs_main` (`LinkNext`, `LinkEnd`), erases under the lock of the cache (`EraseLinked`) and
activates under `cs_main` again (`ActivateNext`). `revalidate_blocks` releases the lock of
the cache inside its loop while it keeps pointers to items. A block tree, which blocks
hold the inputs of which, and which blocks break a rule (`Bad`), with or without their
context (`Malformed`), are constants.

Fairness (`FairSpec`, for `EventuallyConnected`): threads take their steps, the
message loop serves every peer again and again (strong fairness, since its
actions are enabled and disabled by other threads), peers answer requests, and
the waiting time of an item ends.

Bounds: trees of four blocks, one or two peers, `MaxLost` lost connections,
`MaxExpired` items that become an hour old, and fork limits of one block instead of six
and more, so that a branch two blocks longer than the other is enough for the fork
rule to apply. `cache_threads` has two message threads, one more than the node, next
to a submitter: the comment on `m_bProcessing` says that several threads may call
`revalidate_blocks`. Its bad block is a malformed one; that of `cache_live` fails in
`AcceptBlock`.

The properties of `cache_live` need its conditions: one line of blocks and peers that
stay. With two branches, a block on a leading branch that has a gap is
rejected for missing inputs (the `break` at `block-cache.cpp:452` leaves the loop
before `ReconsiderBlock`), and a sibling of a cached block stays unlinked (the `break` at
`chain.cpp:197` drops the rest of the queue). With `MaxLost = 1`, a cached block whose
peer leaves keeps its failed flag (`block-cache.cpp:268`) and is never asked for again.
An item that is an hour old is rejected even if its ancestors are still on their way:
`RejectedForCause` allows that, and `EventuallyConnected` speaks of the behaviours
in which no item gets that old.

Left out: the adjustment of the waiting time (any wait is possible instead),
`find_next_block(s)` and the rewinding to a valid fork, the re-check of a block
in `ConnectTip`, steps of other threads between the sections of `cs_main` inside
`ActivateBestChain` (it is one step), the download window and stalled downloads, marking
of descendants as failed, and blocks nobody asked for. `force` of
`revalidate_blocks` only shortens the wait, so the free wait covers it.

### MasternodePayments

`stored` and `verified` are the hashes in `mapMasternodePaymentVotes` and those
that have a signature; `payees` is `mapMasternodeBlockPayees`, for each height the
sequence of the votes added, from which both of the code's lists follow;
`lastVote` is `mapMasternodesLastVote`. The message thread (`msg`) and the thread
that connected a block (`own`) go through the checks step by step, because
`AddPaymentVote` tests for a known vote before it takes the locks. `saved` is the
file: it is written by the maintenance thread and at shutdown, is missing after a
crash between the two renames of `CFlatDB::Dump`, and is what `Restart` reads.
`template` is the miner's payee.

What the masternode list says of a voter (known, protocol, rank, key) is chosen
freely at each step. Bounds: two masternodes, two payees, four votes that can be
signed, tips 0 and 1 with reorganisations, one save and one restart. Left out:
amounts, requests for missing votes, `SearchForPaymentBlock` and the statistics of
missed votes.

### Masternode

`mn` is one entry of `mapMasternodes` (or `NoEntry`), `seenPings` the map of seen
pings; `now`, `height`, `unspent`, `mnid`, `supported` and `listSynced` are what the
code reads of the clock, the chain and the sync. Operators follow the methods:
`Check` with `StateOf`, `SetLastPingAndCheck`, `Update` and
`UpdateFromNewBroadcast`, `Announced` for `CheckMnbAndUpdateMasternodeList`. Most
handlers hold the manager's lock while they work on the entry, so each is one step:
`MNAnnounce`, `MNPing`, the verification results, the ban-score command, the
periodic `CheckAll` and `CheckAndRemove`, which may re-process a recovered
announcement, and the operator's commands. `StartAlias` and `RelayFast` go through
`UpdateMasternodeList`, which takes an announcement without the checks of the message
handler; `ClearCache` empties the list or the map of seen pings. Signatures are free
Booleans; the constants say which pings and announcements the masternode signed.

`CheckSameAddr` runs on the threads that move the tip. It collects under the lock the
entries that share an address with a verified masternode, and counts against them after
it has released it; `IncrementPoSeBanScore` compares the score with its limit and then
increments it, two accesses of an atomic. These are three actions (`CheckSameAddr`,
`TestBanScore`, `RaiseBanScore`); `listed` and `tested` count the callbacks between them.
What follows from it: a callback that found the score below the limit can raise it past
the limit when another thread has raised it meanwhile. Each callback adds at most one
such point (`TypeOK`), and the score falls below the limit plus these points when a ban
ends (`ReleasedBelowOverrun`). But one point off is then not enough to be below the
limit itself: the next check bans the masternode for another cycle although it did
nothing, where the comment at `mnode-masternode.cpp:595` promises it a chance (run
`probation`). Without such callbacks the comment is right
(theorem `ProbationWithoutCallbacks`).

Bounds: times 10 and 11, heights 0 to 2 with reorganisations, a score limit of one, a
cycle of one block, one callback at a time, two pings, two announcements (a partial one
with the old ping; a later, full one with the next protocol and the recent ping) and a
start command at time 11. The signing times 8, 10 and 11 lie on both sides of each limit
of the code (early ping, expiry, new start).

Left out: the node's own entry and `ManageState`, several entries, the map of seen
announcements and the counting of recovery replies (any signed announcement may
be the recovered one), and the cache file. The watchdog state cannot arise:
nothing calls `UpdateWatchdogVoteTime` in this build. `Check` is never called with
the lock test that could make it return early.

### CheckVerdict and CheckQueue

`CheckVerdict` is the contract of the script-check pool: one block at a time, and the
answer for a block is the conjunction of exactly the checks handed in for it.
`CheckQueue` is the pool: `queue`, `nTodo`, `nTotal`, `nIdle` and `fAllOk` are the members of
`CCheckQueue`, `thr` the locals of `Loop` in every thread, `control` the mutex that admits
one block at a time, `user` and `verdict` the threads in `ConnectBlock`, `svc` and `down` the
service threads and the shutdown that stops and joins them. A step is one critical
section of the queue's mutex, or the batch a thread runs between two of them. A
condition variable may wake spuriously, `notify_one` wakes any one waiter, a worker may
start late, and `ConnectBlock` may return early, which destroys its master without
`Wait()`: the destructor then stops the queue for good, and later blocks are checked by
their master alone.

The refinement mapping takes the answer so far to be `fAllOk`, the results in the batches
and the checks not run yet (`goodSoFar`).

Bounds: two workers, one thread that connects blocks one after the other, four checks
of which one fails, batches of at most two. Two workers are needed for one to idle
while the other still works, four checks for a batch of two.

Fairness (`SchedulerFairness`): a thread that can take its next step takes it; nothing is
assumed of spurious wake-ups, of blocks that arrive or of the shutdown.
`ShutdownFairness` adds that the shutdown, once begun, goes on, and that a thread that
connects blocks looks at its stop flag between two of them (strong fairness: it may be
between two blocks again and again).

### CoinsLedger, CoinsCache, Blockchain and ChainState

`CoinsCache` has the cache entries (`DIRTY`, `FRESH`, entered nullifiers and anchors), the
lookups that fill a cache from its base, `BatchWrite` of one cache into the next, and the
database. `ChainState` has three layers of it: `db`, `tip` (`gl_pCoinsTip`) and `view`, the
scratch cache of the block at work, with `active` (the tip of `chainActive`), the undo data
`rev`, and the undo positions in the block index in memory and on disk. `job` is the
place of the thread that holds `cs_main`: `ConnectBlock` goes through the checks for a
transaction id in use, the best anchor, inputs, nullifiers and anchors, `UpdateCoins` one
input at a time, the new anchor and the undo data; `DisconnectBlock` through outputs,
inputs in reverse order and the anchor; then the view is flushed into `tip`, and
`FlushStateToDisk` may write the block index and the coins, in this order, or not at all.
`ReadTip` is any other lookup, which may fill the cache at any time between blocks.
`Restart` is a kill of the process at any moment followed by a start.

Rules that do not read these maps (scripts, amounts, proofs) may reject a block at any
moment. `CoinsLedger` is the abstract specification: three plain ledgers without flags,
where the work on a block is taken over or dropped as a whole. `Blockchain` gives the
ledger of a chain by replaying its blocks, and which blocks are acceptable.

Bounds: ten blocks on two branches up to height three, eight transactions, two outputs
each, two nullifiers, three roots. The instance has an output spent in the block that
makes it, coins spent at once and one by one, an id used again after it was spent, the
same nullifier and the same root on both branches, and four blocks that must be refused.

Left out: Sprout trees, the return of `DisconnectTip` when `EraseIfTicketTransaction` fails
(`main.cpp:1936-1945`: the ticket database is not modelled; the code returns after the
view was flushed and before `UpdateTip`, with the coins at the parent and `chainActive` at
the old tip, a state that `TipFollowsChain` excludes), pruning, the optional indexes, `VerifyDB`, the early return when
disk space is low, and power failures. `FlushBlockFile` commits only the last files
(`main.cpp:1793`), so an operating system that loses written data could lose undo data of
an older file; the model has kills of the process only. Failing writes are in `FailingSpec`.

### Mempool

`pool` is `CTxMemPool`: its entries, `mapNextTx`, the nullifier map and the ticket tracker;
`orphans` and `byPrev` are the maps of `COrphanTxManager`. `active` and `best` are the tip of
`chainActive` and the best block of `gl_pCoinsTip`, which differ inside `DisconnectTip`; the
coins are `Replay[best]`, as `TipFollowsChain` of `ChainState` justifies. `job` is the place
of the thread that holds `cs_main`. `ReceiveTx` is the message `tx` and goes on with
`ProcessOrphanTxs` (`TakeWork`, `TryOrphan`, `EraseDecided`). `ActivateBestChainStep` and
`InvalidateBlock` walk along the chain: `DisconnectTip`, `Resurrect` for one transaction
after the other, `FinishDisconnect`; `ConnectTip`, `removeForBlock`, `FinishConnect`; and
at the end `RemoveForReorg` and `RemoveWithoutBranchId`. Only `EraseOrphansFor`, called
when a peer leaves, can come in between, since it needs the mutex of the orphans only.

`Verdicts` gives what `AcceptToMemoryPool` may answer: the rules on heights, inputs,
nullifiers, anchors, maturity and branch as in the code, and a free refusal, with or
without a penalty, for scripts, fees and all the rest. So a resurrected transaction may
always be refused, which is the case in which its descendants have to go.

Bounds: six blocks on two branches up to height three, twelve transactions (two spends of
a coinbase that conflict, a chain of three, two shielded ones with one nullifier, a
ticket on top of an expiring one, one of the second consensus branch), two peers, two
orphans, a maturity of two blocks and an expiry threshold of one.

Fairness: the thread that holds `cs_main` goes on.

Seen on the way, and within what the properties allow: resurrected transactions are
judged with the height of the block that is being disconnected (`main.cpp:1953` comes
before `UpdateTip`), so close to an expiry or an upgrade they are refused though they
would fit. `removeExpired` keeps a transaction that expires at the height of the new tip,
so until the next block the pool holds one that can no longer be mined (`MayBeMined`
says the height of the tip for this reason). A ticket that waits for another ticket is
an orphan, but is indexed by its inputs only and is not tried when the other one
arrives. Orphans are tried when a parent comes from a peer, not when it is confirmed or
added by the wallet.

Left out: `recentRejects` (a refusal is always possible), priorities, the fee estimator,
the address and spent indexes, lock times in seconds, `CTxMemPool::clear`, and steps
that end early because a database or disk fails (`ActivateBestChainStep` then returns
without `removeForReorg`).

## Runs

All runs are `tlc -config <cfg> <MC module>`. Times are for two workers.

| run | expects | properties | what it shows |
|---|---|---|---|
| `sync` | pass | `TypeOK`, `TickNeverThrows`, `EventuallyFinished` | `ProcessTick` never calls `SwitchToNextAsset` on a failed sync, whatever the other threads and the RPC do between its steps and between the writes of the shared methods; once disturbances end the sync finishes and stays finished. One peer is of the kind the sync ignores, and the node may sleep past the sleep limit |
| `cache_threads` | pass | `TypeOK`, `OneExecutor`, `ItemsStay`, `MarkOwned` | with three threads, a bad block, a lost peer and an expired item, one thread at a time revalidates, its pointers stay valid and no item stays marked |
| `cache_live` | pass | `RejectedForCause`, `ChainTxComplete`, `EventuallyConnected` | on one line of blocks with a bad one at its end, received in any order from a peer that stays, only a bad or an hour-old block is rejected, every block with its ancestors on disk is linked, and all good blocks are connected in the end if none got an hour old |
| `cache_locks` | violation | `NoLockCycle` | two threads wait for each other's lock |
| `payment_votes` | pass | `TypeOK`, `CountedVerified`, `CountedOnce`, `TemplateStaysValid` | every counted vote is stored with its signature and, when another masternode cast it, is counted once, across saves, crashes and restarts; a template with a voted payee stays valid while the tip stays |
| `masternode_entry` | pass | `TypeOK`, `BanServed`, `ReleasedBelowOverrun`, `SpentIsFinal`, `PingsMoveForward`, `LateNeedsAnnouncement` | bans last, a release takes a point off the score, spent collateral is final, pings never go back, and a late entry needs an announcement, also with a tip callback that counts without the lock |
| `probation` | violation | `ReleasedOnProbation` | such a callback raises the score past its limit, and the entry comes back from its ban at the limit |
| `check_queue` | pass | `TypeOK`, `CountersExact`, `NoLostWakeup`, `ImplementsVerdict`, `WaitReturns` | the pool implements `CheckVerdict`, its counters are exact, and `Wait()` returns, with spurious wake-ups, early returns and a shutdown at any moment |
| `check_queue_stop` | violation | `JoinReturns` | a worker told to stop while the other still checks a batch waits again and is never notified, so `join_all` blocks |
| `chain_state` | pass | `TypeOK`, `AssertionsHold`, `DiskConsistent`, `TipFollowsChain`, `Reversible`, `ChainAcceptable`, `ImplementsLedger` | the stacked caches implement three plain ledgers, memory and disk hold the state of their best block through reorganisations, lookups, flushes and kills, every block can be taken back, and no double spend is connected |
| `failed_flush` | violation | `DiskConsistent` | after a write that failed, the flush of the shutdown writes the new best block without its coins |
| `mempool` | pass | `TypeOK`, `MapsInStep`, `PoolChecks`, `MayBeMined`, `NoOrphanOverlooked`, `NoneDroppedNeedlessly`, `LockReleased` | the maps of the pool and of the orphans stay in step, the pool passes its own checks, after every move of the tip all of it is final, of the branch of the next block and not expired at the height of the tip (one that expires at this very height stays, see above), nothing that could be mined is dropped, no orphan is overlooked, and `cs_main` is released |

The `cache_*` configurations switch the deadlock check off: once every block is
connected or rejected the node has nothing to do. So do those of the check queue: a
node that has shut down takes no more steps. The longest runs are `payment_votes`,
`mempool` and `cache_threads` (two to three minutes).

The four violations are disagreements between the code and a comment of the
repository; `PROJECT.json` quotes both sides under `findings`.

## Proofs

`tlapm <module>` checks each of the eight proof modules. The only assumptions are
the named `ASSUME`s of the modules, which type the constants and give the shape
of a block tree; TLC evaluates them in every run.

**MasternodeSyncProofs.** The inductive invariant is `TypeOK /\ TickNeverThrows
/\ Unfailed`. `Unfailed` says that the sync has not failed from the moment the maintenance
thread has seen so, or has set the state in `Reset`, until that thread itself fails the
sync in the last step of a tick. It is inductive because no other thread writes
`Failed`, and because `SwitchToNextAsset` never writes it, whatever it has read
(`read` is never `Failed`). One lemma per kind of step; theorems `TypeCorrect` and
`MaintenanceThreadNeverThrows`.

**BlockCacheProofs.** `OneExecutor`, `ItemsStay` and `MarkOwned` are not inductive:
a thread inside `ProcessNewBlock` or `ProcessNextBlockAndActivateBestChain` must be known
to return to the right place with the right block. `Returns` states this, and the
invariant is `TypeOK /\ Returns /\ OneExecutor /\ ItemsStay /\ MarkOwned`. The
argument is ownership: only the executor sets or clears `m_bProcessing`, marks
items and erases them, and the other threads only add. Theorems `TypeCorrect`,
`SingleExecutor`, `PointersStayValid`, `NoItemLeftMarked`.

**MasternodePaymentsProofs.** The invariant strengthens the checked ones in three
ways: the saved file satisfies what the maps satisfy (`SavedInv`, for restarts);
the vote of another masternode that the message thread is about to add is not yet
verified, and the other thread adds only the node's own vote (`ThreadInv`, for the
window between the test and the addition); and a template with a voted payee is
for the block after the tip and its payee still has votes (`TemplateInv`). Theorems `TypeCorrect`, `CountedVotesVerified`,
`CountedVotesOnce`, `VotedTemplateStaysValid`.

**MasternodeProofs.** `TypeOK` is inductive because it bounds the score together with
the increments still to come: a test adds one to them only below the limit, and an
increment moves it to the score. The other properties are action properties,
and all follow from one relation, `StepRule`, which says what any step may do to
an entry: it is removed, or its score stays in that bound, its ping does not go back,
spent collateral stays spent, a ban is served, and an entry that needs a new start keeps
its ping. The exceptions are the code's: an operator's `StartAlias` or `RelayFast` renews
the entry, and `CheckAndRemove` may re-process a recovered announcement. Lemmas say
what a check (`Follows`) and an announcement (`Outcome`) make of an entry; each action is
then shown to satisfy `StepRule`, and each property is read off it. Theorems `TypeCorrect`,
`BansAreServed`, `ReleasesUseUpOverrun`, `ProbationWithoutCallbacks`, `SpentStaysFinal`,
`PingsGoForward`, `LateEntryNeedsAnnouncement`.

**CheckQueueLoopProofs, CheckQueueProofs, CheckQueueRefinement.** The first holds the
invariant and the critical sections of `Loop`, the second the other steps and the
invariance theorems, the third the refinement. None of the checked invariants is inductive. `OnePlace` says that a
check is in the queue or in one batch and nowhere twice, without which the counters
could not be compared with sets; `Sessions` ties the place of a master in `ConnectBlock`
to its place in `Loop` and to the control mutex; `Quiet` says that the pool is empty when
no block is at work; `MasterWaits` and `MasterNeedsWork` say what a waiting master waits
for; `WorkersOut` that a stopped service thread is not in `Loop`. `IInv` is their
conjunction with `TypeOK` and `CountersExact`. Theorems `TypeCorrect`, `CountersAreExact`,
`WakeupNeverLost`, and `PoolImplementsVerdict`, the refinement: every step of the pool is a
step of `CheckVerdict` or leaves its variables unchanged, for any number of workers,
masters and checks and any batch size. Each kind of step has a lemma for what it does to
`goodSoFar`.

**MempoolProofs.** `MapsInStep` is inductive with `TypeOK` and two facts (`OrphansStay`):
there are finitely many orphans, and those that `ProcessOrphanTxs` has still to try are
among them. The argument for the pool is that no two of its transactions spend the same:
then erasing what one spends from `mapNextTx` and the nullifier map takes out nothing of
another, so the loop of `remove` is right whichever transactions it is given, and
`addUnchecked` is right because `AcceptToMemoryPool` has looked for conflicts in the same
critical section. `MayBeMined` rests on a second invariant, `Fits`: an entry keeps the branch
its transaction is signed for; nothing is expired at the height of the tip even while the
tip moves; and only a thread that has disconnected a block may leave transactions that are
not final, until `removeForReorg`. Theorems `TypeCorrect`, `PoolMapsInStep`,
`PoolMayBeMined`, for any tree of blocks, transactions and heights, and any limit on
orphans.

Only model-checked: the liveness properties `EventuallyFinished`, `EventuallyConnected`,
`WaitReturns` and `LockReleased` (fairness and `ENABLED` are outside the prover);
`RejectedForCause` and `ChainTxComplete`, which hold only on instances like that of
`cache_live`; all properties of `ChainState`; and `PoolChecks`, `NoneDroppedNeedlessly` and
`NoOrphanOverlooked` of `Mempool`. The ledger of a chain is a recursive function
over the blocks, and what it computes can be proved only by induction over data; the
refinement of `CoinsLedger` does not depend on it and is the next candidate for proof.

## Not modelled yet, and the plan

The components without a module are listed in `PROJECT.json` with the reason.
Cryptography, scripts, wallet keys, RPC formatting and sockets are left out for
good: they are computations or I/O with no state a model would tell apart. The
others follow in this order.

1. *Proofs for `ChainState`*: `ImplementsLedger` from an invariant on the flags of the caches.
2. *Masternode manager* on top of `Masternode`: the maps of seen announcements and
   pings, recovery requests and their replies, `CleanupMnbs`, and the cache file
   with restarts.
3. *Sync with peers*: `MasternodeSync` composed with peers that answer list and
   vote requests, refined to an abstract sync (idle, running, failed, finished).
4. *Active masternode* and the node's own entry.
5. *Mining eligibility* and its cached answer; *fork-switch tracker*; the queue of
   asynchronous RPC operations.
6. *Tickets*: the ticket database against reorganisations, on top of `ChainState`.
7. Revalidation waiting time (`AdjustBlockRevalidationWaitTime`) with its
   boundaries, as an operator checked against a reference.
