------------------------------ MODULE Mempool ------------------------------
(***************************************************************************)
(* The memory pool (src/src/txmempool.cpp), AcceptToMemoryPool             *)
(* (src/src/accept_to_mempool.cpp), the orphan transactions                *)
(* (src/src/orphan-tx.cpp) and what ActivateBestChainStep, InvalidateBlock *)
(* and the message "tx" (src/src/main.cpp) do with them.                   *)
(*                                                                         *)
(* active is chainActive.Tip() and best the best block of gl_pCoinsTip.    *)
(* They differ inside DisconnectTip, where the coins are already those of  *)
(* the block before while heights are still those of the block that goes.  *)
(* The coins themselves are the ledger of Blockchain.  All of this happens *)
(* under cs_main, and job is the place of the thread that holds it; only   *)
(* peers come and go meanwhile, under the mutex of the orphan maps.        *)
(*                                                                         *)
(* Scripts, fees, sizes, standardness and the rate limit may refuse a      *)
(* transaction at any moment, and so may recentRejects, which is left out. *)
(***************************************************************************)
EXTENDS Blockchain, FiniteSets

CONSTANTS
    tx,         \* the transaction with each id
    lockTime,   \* nLockTime of each transaction, a height
    expiry,     \* nExpiryHeight of each transaction, 0 for none
    signedFor,  \* the consensus branch that each transaction is signed for
    Tickets,    \* the transactions that carry a ticket
    Peers,      \* ids of nodes
    MaxOrphans, \* -maxorphantx
    Activation, \* the first height of the second consensus branch
    COINBASE_MATURITY,
    TX_EXPIRING_SOON_THRESHOLD

Coinbases == {vtx[b][1].id : b \in Blocks \ {Genesis}}
OutPoints == Txids \X Outs
Ins(t) == {tx[t].vin[j] : j \in DOMAIN tx[t].vin}
Parents(t) == {o[1] : o \in Ins(t)}
Shielded(t) == tx[t].nf # Absent

\* Blocks hold the transactions by their ids.  A commitment tree that was left
\* behind does not come back on the same chain.
ASSUME MempoolAssumption ==
    /\ tx \in [Txids -> Transactions]
    /\ \A t \in Txids : tx[t].id = t
    /\ \A b \in Blocks : \A t \in Txs(b) : t = tx[t.id]
    /\ \A b \in Blocks \ {Genesis} : \A i \in DOMAIN vtx[b] :
          vtx[b][i].id \in Coinbases <=> i = 1
    /\ \A b \in Blocks \ {Genesis} : rootOf[b] # rootOf[parent[b]] =>
          rootOf[b] \notin Replay[parent[b]].anchors
    /\ lockTime \in [Txids -> Nat]
    /\ expiry \in [Txids -> Nat]
    /\ signedFor \in [Txids -> {0, 1}]
    /\ Tickets \subseteq Txids
    /\ Absent \notin Txids \cup Peers
    /\ MaxOrphans \in Nat
    /\ Activation \in Nat
    /\ COINBASE_MATURITY \in Nat
    /\ TX_EXPIRING_SOON_THRESHOLD \in Nat

VARIABLES
    active,     \* chainActive.Tip(), and its height gl_nChainHeight
    best,       \* the best block of gl_pCoinsTip
    pool,       \* the memory pool
    orphans,    \* m_mapOrphanTransactions: the peer of each orphan
    byPrev,     \* m_mapOrphanTransactionsByPrev
    job         \* what the thread that holds cs_main is at

vars == <<active, best, pool, orphans, byPrev, job>>
chain == <<active, best>>
orphanMaps == <<orphans, byPrev>>

\* An entry keeps the branch it was validated for and whether it spends a coinbase.
\* The maps of the pool are sets of pairs of key and value: tx is mapTx, next mapNextTx,
\* nfs m_mapSaplingNullifiers, and tickets the transactions of the ticket tracker.
Entry == [txid : Txids, branch : {0, 1}, coinbase : BOOLEAN]
Pools == [tx : SUBSET Entry, next : SUBSET (OutPoints \X Txids),
          nfs : SUBSET (Nullifiers \X Txids), tickets : SUBSET Txids]

Idle == [op |-> "none"]

Init ==
    /\ active = Genesis
    /\ best = Genesis
    /\ pool = [tx |-> {}, next |-> {}, nfs |-> {}, tickets |-> {}]
    /\ orphans = [t \in Txids |-> Absent]
    /\ byPrev = [t \in Txids |-> {}]
    /\ job = Idle

Held(p) == {e.txid : e \in p.tx}
Orphans == {t \in Txids : orphans[t] # Absent}

-----------------------------------------------------------------------------
(* Rules on heights.                                                       *)

NextHeight == height[active] + 1
GetSpendHeight == height[best] + 1

CurrentEpochBranchId(h) == IF h < Activation THEN 0 ELSE 1
IsFinalTx(t, h) == lockTime[t] < h
IsExpiredTx(t, h) == expiry[t] # 0 /\ t \notin Coinbases /\ h > expiry[t]
IsExpiringSoonTx(t, h) == IsExpiredTx(t, h + TX_EXPIRING_SOON_THRESHOLD)

\* A coinbase of ledger led may not be spent in a block of height h yet.
Immature(k, led, h) ==
    k \in Coinbases /\ h - led.coins[k].height < COINBASE_MATURITY

-----------------------------------------------------------------------------
(* CTxMemPool.                                                             *)

\* The branch and the inputs go into the entry; the maps learn about them.
addUnchecked(p, t, branch, coinbase) ==
    [tx |-> p.tx \cup {[txid |-> t, branch |-> branch, coinbase |-> coinbase]},
     next |-> {m \in p.next : m[1] \notin Ins(t)} \cup (Ins(t) \X {t}),
     nfs |-> {m \in p.nfs : m[1] # tx[t].nf} \cup (({tx[t].nf} \ {Absent}) \X {t}),
     tickets |-> p.tickets \cup (Tickets \cap {t})]

\* A mutant of Without that leaves the nullifiers of removed transactions behind.
WithoutButNullifiers(p, S) ==
    LET gone == S \cap Held(p)
        spent == UNION {Ins(t) : t \in gone}
    IN  [tx |-> {e \in p.tx : e.txid \notin gone},
         next |-> {m \in p.next : m[1] \notin spent},
         nfs |-> p.nfs,
         tickets |-> p.tickets \ gone]

\* The body of the loop of remove, for the transactions of S.
Without(p, S) ==
    LET gone == S \cap Held(p)
        spent == UNION {Ins(t) : t \in gone}
        revealed == {tx[t].nf : t \in gone}
    IN  [tx |-> {e \in p.tx : e.txid \notin gone},
         next |-> {m \in p.next : m[1] \notin spent},
         nfs |-> {m \in p.nfs : m[1] \notin revealed},
         tickets |-> p.tickets \ gone]

\* The transactions of the pool that spend an output of one of S.
Children(p, S) == {m[2] : m \in {m \in p.next : m[1][1] \in S}}

\* The transactions of the pool that depend on S through outputs: those in every set
\* that has the children of S and its own.
Descendants(p, S) ==
    {t \in Held(p) : \A C \in SUBSET Held(p) : Children(p, S \cup C) \subseteq C => t \in C}

\* A mutant of Doomed for a remove that stops at a transaction it does not hold.
DoomedIfHeld(p, S) == S \cup Descendants(p, S \cap Held(p))

\* What remove puts on its list: S, and all that depends on it, also if a transaction of
\* S is not in the pool itself.
Doomed(p, S) == S \cup Descendants(p, S)

\* remove, from the pool p, for all transactions of S.
remove(p, S) ==
    \E first \in {S} : \E doomed \in {Doomed(p, first)} : pool' = Without(p, doomed)

\* A coinbase that entry e spends is gone or immature again.
LostCoinbase(e) ==
    /\ e.coinbase
    /\ \E k \in Parents(e.txid) \ Held(pool) :
          Replay[best].coins[k] = NoCoins \/ Immature(k, Replay[best], NextHeight)

\* A mutant of removeForReorg that looks at coinbases only.
ReorgCoinbases == remove(pool, {e.txid : e \in {e \in pool.tx : LostCoinbase(e)}})

removeForReorg ==
    remove(pool, {e.txid : e \in {e \in pool.tx :
                                     ~IsFinalTx(e.txid, NextHeight) \/ LostCoinbase(e)}})

removeWithAnchor(root) ==
    remove(pool, {t \in Held(pool) : Shielded(t) /\ tx[t].anchor = root})

removeWithoutBranchId(branch) ==
    remove(pool, {e.txid : e \in {e \in pool.tx : e.branch # branch}})

removeExpired(h) == remove(pool, {t \in Held(pool) : IsExpiredTx(t, h)})

\* The other transactions that spend what t spends leave the pool p.
removeConflicts(p, t) ==
    remove(p, {m[2] : m \in {m \in p.next : m[1] \in Ins(t)} \cup
                            {m \in p.nfs : m[1] = tx[t].nf}} \ {t})

-----------------------------------------------------------------------------
(* AcceptToMemoryPool.                                                     *)

\* The unspent outputs of k in the pool over the coins of the tip.
CoinsInPool(k) == IF k \in Held(pool) THEN tx[k].outs ELSE Replay[best].coins[k].outs

\* The checks up to "do we already have it?".
Eligible(t) ==
    /\ ~IsExpiringSoonTx(t, NextHeight)
    /\ t \notin Coinbases
    /\ IsFinalTx(t, NextHeight)
    /\ t \notin Held(pool)
    /\ \A m \in pool.next : m[1] \notin Ins(t)
    /\ \A m \in pool.nfs : m[1] # tx[t].nf
    /\ Replay[best].coins[t] = NoCoins

\* "do all inputs exist?"
MissingInputs(t) == \E k \in Parents(t) \ Held(pool) : Replay[best].coins[k] = NoCoins

\* The checks after it that read the chain.
Complete(t) ==
    /\ \A o \in Ins(t) : o[2] \in CoinsInPool(o[1])
    /\ Shielded(t) => /\ tx[t].nf \notin Replay[best].nullifiers
                      /\ tx[t].anchor \in Replay[best].anchors
    /\ \A k \in Parents(t) \ Held(pool) : ~Immature(k, Replay[best], GetSpendHeight)
    /\ signedFor[t] = CurrentEpochBranchId(NextHeight)

\* What it may answer: accepted, missing inputs, or refused, and then perhaps with a
\* penalty for the peer.  A ticket whose references are not found counts as missing
\* inputs, after the first of these checks.
Verdicts(t) ==
    {"refused"}
    \cup (IF t \in Held(pool) THEN {} ELSE {"punished"})
    \cup (IF t \in Tickets /\ ~IsExpiredTx(t, NextHeight) THEN {"missing"} ELSE {})
    \cup (IF ~Eligible(t) THEN {}
          ELSE IF MissingInputs(t) THEN {"missing"}
          ELSE IF Complete(t) THEN {"accepted"} ELSE {})

Added(t) ==
    addUnchecked(pool, t, CurrentEpochBranchId(NextHeight),
                 \E k \in Parents(t) \ Held(pool) : k \in Coinbases)

-----------------------------------------------------------------------------
(* The message "tx", orphans and peers.                                    *)

\* AlreadyHave without recentRejects.
AlreadyHave(t) ==
    t \in Held(pool) \/ t \in Orphans \/ Replay[best].coins[t] # NoCoins

\* The orphan maps with the orphans K of all: AddOrphanTx and EraseOrphanTx.
Keep(all, K) ==
    /\ orphans' = [t \in Txids |-> IF t \in K THEN all[t] ELSE Absent]
    /\ byPrev' = [k \in Txids |->
                     (byPrev[k] \cap K) \cup {t \in K \ Orphans : k \in Parents(t)}]

\* AddOrphanTx, then LimitOrphanTxSize, which evicts orphans at random.
AddOrphanTx(t, from) ==
    LET all == [orphans EXCEPT ![t] = from]
        some == Orphans \cup {t}
    IN  \E K \in SUBSET some :
           /\ Cardinality(K) = IF Cardinality(some) > MaxOrphans THEN MaxOrphans
                               ELSE Cardinality(some)
           /\ Keep(all, K)

\* A transaction arrives.  Once it is in the pool, its orphans are tried.  If inputs are
\* missing it is kept for later, unless it is shielded or too large.
ReceiveTx(t, from) ==
    /\ job = Idle
    /\ ~AlreadyHave(t)
    /\ \/ /\ "accepted" \in Verdicts(t)
          /\ pool' = Added(t)
          /\ job' = [op |-> "orphans", txid |-> t, queue |-> <<t>>, todo |-> {},
                     bad |-> {}, erase |-> {}]
          /\ UNCHANGED orphanMaps
       \/ /\ "missing" \in Verdicts(t)
          /\ ~Shielded(t)
          /\ AddOrphanTx(t, from)
          /\ UNCHANGED <<pool, job>>
    /\ UNCHANGED chain

\* ProcessOrphanTxs takes the next transaction off its work queue.
TakeWork ==
    /\ job.op = "orphans"
    /\ job.todo = {}
    /\ job.queue # <<>>
    /\ job' = [job EXCEPT !.queue = Tail(job.queue), !.todo = byPrev[Head(job.queue)]]
    /\ UNCHANGED <<chain, pool, orphanMaps>>

\* A mutant of Tried that does not go on with the orphans of an accepted orphan.
TriedOnce(t, v) ==
    [job EXCEPT
        !.todo = job.todo \ {t},
        !.bad = IF v = "punished" THEN job.bad \cup {orphans[t]} ELSE job.bad,
        !.erase = IF v = "missing" THEN job.erase ELSE job.erase \cup {t}]

\* A mutant of Tried that starts over after an orphan that was refused.
TriedForever(t, v) ==
    [job EXCEPT
        !.todo = job.todo \ {t},
        !.queue = CASE v = "accepted" -> Append(job.queue, t)
                    [] v = "refused" /\ job.queue = <<>> -> <<job.txid>>
                    [] OTHER -> job.queue,
        !.bad = IF v = "punished" THEN job.bad \cup {orphans[t]} ELSE job.bad,
        !.erase = IF v = "missing" THEN job.erase ELSE job.erase \cup {t}]

\* The queues after orphan t got the verdict v.
Tried(t, v) ==
    [job EXCEPT
        !.todo = job.todo \ {t},
        !.queue = IF v = "accepted" THEN Append(job.queue, t) ELSE job.queue,
        !.bad = IF v = "punished" THEN job.bad \cup {orphans[t]} ELSE job.bad,
        !.erase = IF v = "missing" THEN job.erase ELSE job.erase \cup {t}]

\* ... and tries the orphans that spend from it, except those of a peer that was
\* punished before.
TryOrphan(t) ==
    /\ job.op = "orphans"
    /\ t \in job.todo
    /\ IF orphans[t] \in job.bad
       THEN /\ job' = [job EXCEPT !.todo = job.todo \ {t}]
            /\ UNCHANGED pool
       ELSE \E v \in Verdicts(t) :
               /\ job' = Tried(t, v)
               /\ pool' = IF v = "accepted" THEN Added(t) ELSE pool
    /\ UNCHANGED <<chain, orphanMaps>>

\* At the end it erases the orphans that were decided.
EraseDecided ==
    /\ job.op = "orphans"
    /\ job.todo = {}
    /\ job.queue = <<>>
    /\ Keep(orphans, Orphans \ job.erase)
    /\ job' = Idle
    /\ UNCHANGED <<chain, pool>>

\* FinalizeNode: the orphans of the node go.  ProcessOrphanTxs holds their mutex.
EraseOrphansFor(from) ==
    /\ job.op # "orphans"
    /\ \E t \in Orphans : orphans[t] = from
    /\ Keep(orphans, {t \in Orphans : orphans[t] # from})
    /\ UNCHANGED <<chain, pool, job>>

\* The wallet or sendrawtransaction adds a transaction; orphans are not tried.
LocalTx(t) ==
    /\ job = Idle
    /\ "accepted" \in Verdicts(t)
    /\ pool' = Added(t)
    /\ UNCHANGED <<chain, orphanMaps, job>>

-----------------------------------------------------------------------------
(* The tip moves.                                                          *)

\* ActivateBestChainStep towards a block with as much work, and InvalidateBlock back to
\* the block before.  disconnected is fBlocksDisconnected, from pindexOldTip.
ActivateBestChainStep(b) ==
    /\ job = Idle
    /\ b # active
    /\ height[b] >= height[active]
    /\ job' = [op |-> "activate", pc |-> "walk", target |-> b, i |-> 0,
               from |-> height[active], disconnected |-> FALSE]
    /\ UNCHANGED <<chain, pool, orphanMaps>>

InvalidateBlock(b) ==
    /\ job = Idle
    /\ b \in ChainOf[active]
    /\ job' = [op |-> "invalidate", pc |-> "walk", target |-> parent[b], i |-> 0,
               from |-> height[active], disconnected |-> TRUE]
    /\ UNCHANGED <<chain, pool, orphanMaps>>

Moving == job.op \in {"activate", "invalidate"}

\* DisconnectTip: the coins go back to the block before.
DisconnectTip ==
    /\ Moving /\ job.pc = "walk"
    /\ active \notin ChainOf[job.target] \cup {Genesis}
    /\ best' = parent[active]
    /\ job' = [job EXCEPT !.pc = "resurrect", !.i = 1, !.disconnected = TRUE]
    /\ UNCHANGED <<active, pool, orphanMaps>>

\* A mutant of Resurrect with a loop that goes one too far.
ResurrectPastEnd ==
    /\ Moving /\ job.pc = "resurrect"
    /\ job.i <= Len(vtx[active])
    /\ LET t == vtx[active][job.i].id
       IN  \E v \in Verdicts(t) :
              IF v = "accepted" THEN pool' = Added(t) ELSE remove(pool, {t})
    /\ job' = [job EXCEPT !.i = job.i + 2]
    /\ UNCHANGED <<chain, orphanMaps>>

\* "Resurrect mempool transactions from the disconnected block."  What is not accepted
\* again is removed with all that depends on it.
Resurrect ==
    /\ Moving /\ job.pc = "resurrect"
    /\ job.i <= Len(vtx[active])
    /\ LET t == vtx[active][job.i].id
       IN  \E v \in Verdicts(t) :
              IF v = "accepted" THEN pool' = Added(t) ELSE remove(pool, {t})
    /\ job' = [job EXCEPT !.i = job.i + 1]
    /\ UNCHANGED <<chain, orphanMaps>>

\* Spends from a root that the chain no longer has go, and the tip follows.
FinishDisconnect ==
    /\ Moving /\ job.pc = "resurrect"
    /\ job.i > Len(vtx[active])
    /\ IF rootOf[active] # rootOf[best] THEN removeWithAnchor(rootOf[active])
       ELSE UNCHANGED pool
    /\ active' = best
    /\ job' = [job EXCEPT !.pc = "walk", !.i = 0]
    /\ UNCHANGED <<best, orphanMaps>>

\* Block b passes the rules of ConnectBlock that this module knows of.
Connectable(b) ==
    /\ Acceptable(b, Replay[active])
    /\ \A t \in Txs(b) :
          /\ IsFinalTx(t.id, height[b])
          /\ ~IsExpiredTx(t.id, height[b])
          /\ t.id \in Coinbases \/ signedFor[t.id] = CurrentEpochBranchId(height[b])
          /\ \A k \in Parents(t.id) :
                Replay[active].coins[k] # NoCoins => ~Immature(k, Replay[active], height[b])

\* ConnectTip: the coins move on to the next block on the way.
ConnectTip(b) ==
    /\ Moving /\ job.pc = "walk"
    /\ b \in ChainOf[job.target]
    /\ parent[b] = active
    /\ Connectable(b)
    /\ best' = b
    /\ job' = [job EXCEPT !.pc = "confirm", !.i = 1]
    /\ UNCHANGED <<active, pool, orphanMaps>>

\* A mutant of removeForBlock that takes the children of a confirmed transaction along.
removeForBlockRecursive ==
    /\ Moving /\ job.pc = "confirm"
    /\ job.i <= Len(vtx[best])
    /\ LET t == vtx[best][job.i].id
       IN  \E left \in {Without(pool, Doomed(pool, {t}))} : removeConflicts(left, t)
    /\ job' = [job EXCEPT !.i = job.i + 1]
    /\ UNCHANGED <<chain, orphanMaps>>

\* One transaction of the block after the other leaves the pool, without its children,
\* and then what it conflicts with.
removeForBlock ==
    /\ Moving /\ job.pc = "confirm"
    /\ job.i <= Len(vtx[best])
    /\ LET t == vtx[best][job.i].id
       IN  \E left \in {Without(pool, {t})} : removeConflicts(left, t)
    /\ job' = [job EXCEPT !.i = job.i + 1]
    /\ UNCHANGED <<chain, orphanMaps>>

\* What expired before this height goes and the tip follows.  The step ends with a chain
\* that is better than the old one.
FinishConnect ==
    /\ Moving /\ job.pc = "confirm"
    /\ job.i > Len(vtx[best])
    /\ removeExpired(height[best])
    /\ active' = best
    /\ job' = [job EXCEPT !.pc = IF height[best] > job.from THEN "reorg" ELSE "walk", !.i = 0]
    /\ UNCHANGED <<best, orphanMaps>>

\* The target is reached, or the next block on the way turns out to be invalid.
StopWalking ==
    /\ Moving /\ job.pc = "walk"
    /\ active \in ChainOf[job.target] \cup {Genesis}
    /\ job' = [job EXCEPT !.pc = "reorg"]
    /\ UNCHANGED <<chain, pool, orphanMaps>>

\* The end of the step: the pool is brought in line with the new tip ...
RemoveForReorg ==
    /\ Moving /\ job.pc = "reorg"
    /\ IF job.disconnected THEN removeForReorg ELSE UNCHANGED pool
    /\ job' = [job EXCEPT !.pc = "branch"]
    /\ UNCHANGED <<chain, orphanMaps>>

\* ... and with the branch of the next block.
RemoveWithoutBranchId ==
    /\ Moving /\ job.pc = "branch"
    /\ removeWithoutBranchId(CurrentEpochBranchId(NextHeight))
    /\ job' = Idle
    /\ UNCHANGED <<chain, orphanMaps>>

OrphanStep == TakeWork \/ (\E t \in Txids : TryOrphan(t)) \/ EraseDecided

MoveStep ==
    \/ DisconnectTip \/ Resurrect \/ FinishDisconnect
    \/ (\E b \in Blocks \ {Genesis} : ConnectTip(b)) \/ removeForBlock \/ FinishConnect
    \/ StopWalking \/ RemoveForReorg \/ RemoveWithoutBranchId

Next ==
    \/ \E t \in Txids, from \in Peers : ReceiveTx(t, from)
    \/ \E t \in Txids : LocalTx(t)
    \/ \E from \in Peers : EraseOrphansFor(from)
    \/ \E b \in Blocks : ActivateBestChainStep(b)
    \/ \E b \in Blocks \ {Genesis} : InvalidateBlock(b)
    \/ OrphanStep
    \/ MoveStep

\* A thread that holds cs_main goes on.
Spec == Init /\ [][Next]_vars /\ WF_vars(OrphanStep \/ MoveStep)

-----------------------------------------------------------------------------
(* Properties.                                                             *)

OrphanJobs == [op : {"orphans"}, txid : Txids, queue : Seq(Txids), todo : SUBSET Txids,
               bad : SUBSET Peers, erase : SUBSET Txids]
MoveJobs == [op : {"activate", "invalidate"}, pc : {"walk", "resurrect", "confirm", "reorg", "branch"},
             target : Blocks, i : Nat, from : Nat, disconnected : BOOLEAN]

\* The maps are well formed.  The coins are those of the block before the tip while its
\* transactions are resurrected, those of the next block while it is removed from the
\* pool, and those of the tip otherwise.
TypeOK ==
    /\ active \in Blocks
    /\ best \in Blocks
    /\ pool \in Pools
    /\ orphans \in [Txids -> Peers \cup {Absent}]
    /\ byPrev \in [Txids -> SUBSET Txids]
    /\ job \in {Idle} \cup OrphanJobs \cup MoveJobs
    /\ Moving /\ job.pc = "resurrect" => /\ active # Genesis
                                         /\ best = parent[active]
                                         /\ job.i \in 1..(Len(vtx[active]) + 1)
    /\ Moving /\ job.pc = "confirm" => /\ best # Genesis
                                       /\ active = parent[best]
                                       /\ job.i \in 1..(Len(vtx[best]) + 1)
    /\ ~(Moving /\ job.pc \in {"resurrect", "confirm"}) => best = active

\* At every moment, also in the middle of a reorganization, mapNextTx and the nullifier
\* map say of the transactions in the pool which inputs and nullifiers they spend, and
\* of no other, and no two of them spend the same; the ticket tracker knows the tickets
\* among them.  The index of the orphans
\* by the transactions they spend from is exact, there are at most -maxorphantx of them,
\* and none is shielded.
MapsInStep ==
    /\ pool.next = UNION {Ins(t) \X {t} : t \in Held(pool)}
    /\ pool.nfs = {<<tx[t].nf, t>> : t \in {t \in Held(pool) : Shielded(t)}}
    /\ pool.tickets = Tickets \cap Held(pool)
    /\ \A s, t \in Held(pool) : s # t => /\ Ins(s) \cap Ins(t) = {}
                                         /\ Shielded(s) => tx[s].nf # tx[t].nf
    /\ \A t \in Txids : {k \in Txids : t \in byPrev[k]} =
                           IF t \in Orphans THEN Parents(t) ELSE {}
    /\ Cardinality(Orphans) <= MaxOrphans
    /\ \A t \in Orphans : ~Shielded(t)

\* What CTxMemPool::check asserts of transaction t: its inputs are outputs of the pool or
\* unspent in the chain and mature, its anchor is known and its nullifier new.
Supported(t) ==
    /\ \A o \in Ins(t) : o[2] \in CoinsInPool(o[1])
    /\ \A k \in Parents(t) \ Held(pool) : ~Immature(k, Replay[best], GetSpendHeight)
    /\ Shielded(t) => /\ tx[t].anchor \in Replay[best].anchors
                      /\ tx[t].nf \notin Replay[best].nullifiers

\* The assertions of CTxMemPool::check (txmempool.cpp:544-630) hold whenever it may be
\* called: between the steps of cs_main and after each orphan that is accepted.  That of
\* removeForReorg (txmempool.cpp:363) holds at the end of a reorganization.
PoolChecks ==
    /\ ~Moving => \A t \in Held(pool) : Supported(t)
    /\ Moving /\ job.pc = "reorg" => \A e \in pool.tx : e.coinbase =>
          \A k \in Parents(e.txid) \ Held(pool) : Replay[best].coins[k] # NoCoins

\* "valid-according-to-the-current-best-chain transactions that may be included in the
\* next block" (txmempool.h): after any reorganization all of the pool is final and signed
\* for the branch of the next block, and none was expired at the height of the tip.
MayBeMined ==
    ~Moving => \A t \in Held(pool) :
        /\ IsFinalTx(t, NextHeight)
        /\ ~IsExpiredTx(t, height[active])
        /\ signedFor[t] = CurrentEpochBranchId(NextHeight)

\* Transaction t could be in the next block, after others of the pool.
Mineable(t) ==
    /\ Supported(t)
    /\ IsFinalTx(t, NextHeight)
    /\ ~IsExpiredTx(t, height[best])
    /\ signedFor[t] = CurrentEpochBranchId(NextHeight)

\* A transaction leaves the pool only if it cannot be mined on top of the chain and what
\* is left of the pool: it is confirmed, conflicts, is no longer valid, or depends on
\* something that is gone.
NoneDroppedNeedlessly ==
    [][\A t \in Held(pool) : Held(pool)' \cap {t} = {} => ~Mineable(t)']_vars

\* ProcessOrphanTxs overlooks no orphan: when it ends, an orphan that spends from a
\* transaction it has seen accepted still lacks another one, is a ticket that waits for
\* its references, or is from a peer that was punished.
NoOrphanOverlooked ==
    job.op = "orphans" /\ job.todo = {} /\ job.queue = <<>> =>
        \A t \in Orphans \ job.erase :
            Parents(t) \cap ({job.txid} \cup (job.erase \cap Held(pool))) # {} =>
                MissingInputs(t) \/ t \in Tickets \/ orphans[t] \in job.bad

\* Whatever is in the pool, among the orphans or on the way to the best chain, cs_main is
\* released again.
LockReleased == []<>(job = Idle)

=============================================================================
