----------------------------- MODULE BlockCache -----------------------------
(***************************************************************************)
(* The cache of blocks whose inputs are missing (class CBlockCache), with  *)
(* the parts of the chain code it works on: acceptance of headers and      *)
(* blocks, reconsideration, activation of the best chain and the choice of *)
(* the blocks to download.                                                 *)
(*                                                                         *)
(* The message-handler thread receives blocks and revalidates the cached   *)
(* ones; mining and RPC threads also submit blocks.  Two locks are shared, *)
(* cs_main and m_CacheMapLock.  A step is a section under one of them, or  *)
(* a part of one; where a section of cs_main has several steps, or waits   *)
(* for m_CacheMapLock, and the other way around, the owner is recorded.    *)
(*                                                                         *)
(* Blocks form a tree; the work of a chain is its height.  Whether a block *)
(* misses inputs depends on the blocks it needs being in the active chain. *)
(***************************************************************************)
EXTENDS Integers, FiniteSets

CONSTANTS
    NoThread, NoBlock, NoPeer,
    Blocks,         \* the blocks after the genesis block
    Genesis,
    parent,         \* the previous block of each block
    height,         \* the height of each block and of Genesis
    chain,          \* each block with its ancestors after Genesis
    needs,          \* the blocks that hold the inputs of each block
    Signed,         \* blocks whose missing input is a mnid registration
    Bad,            \* blocks that break a consensus rule
    Malformed,      \* those that CheckBlock refuses without their context
    Peers,
    MsgThreads,     \* the message-handler thread (one in the node)
    Submitters,     \* mining and RPC threads
    ForkLimit,      \* FORK_BLOCK_LIMIT
    ForkLead,       \* the lead of six blocks that makes a fork a valid one
    KnownHeaders,   \* headers in mapBlockIndex at the start
    MaxLost,        \* bound: connections lost
    MaxExpired      \* bound: items that get an hour old

Threads == MsgThreads \cup Submitters

ASSUME CacheAssumptions ==
    /\ Genesis \notin Blocks /\ IsFiniteSet(Blocks)
    /\ parent \in [Blocks -> Blocks \cup {Genesis}]
    /\ height \in [Blocks \cup {Genesis} -> Nat]
    /\ height[Genesis] = 0
    /\ chain \in [Blocks \cup {Genesis} -> SUBSET Blocks]
    /\ chain[Genesis] = {}
    /\ \A b \in Blocks : /\ height[b] = height[parent[b]] + 1
                         /\ chain[b] = chain[parent[b]] \cup {b}
    /\ needs \in [Blocks -> SUBSET Blocks]
    /\ \A b \in Blocks : needs[b] \subseteq chain[parent[b]]
    /\ Signed \subseteq Blocks /\ Bad \subseteq Blocks
    /\ Malformed \subseteq Bad
    /\ KnownHeaders \subseteq Blocks
    /\ {ForkLimit, ForkLead, MaxLost, MaxExpired} \subseteq Nat
    /\ MsgThreads \cap Submitters = {} /\ NoThread \notin Threads
    /\ NoBlock \notin Blocks \cup {Genesis} /\ NoPeer \notin Peers

VARIABLES
    index,          \* mapBlockIndex
    failed,         \* index entries with BLOCK_FAILED_VALID
    data,           \* index entries with BLOCK_HAVE_DATA
    linked,         \* index entries with nChainTx # 0
    waiting,        \* mapBlocksUnlinked: the blocks waiting for their parent
    tip,            \* the tip of chainActive
    ibd,            \* what IsInitialBlockDownload returns
    connected,      \* peers FindNode finds
    inflight,       \* mapBlocksInFlight: block and peer
    cached,         \* the keys of m_BlockCacheMap
    item,           \* its items, for the keys that are cached
    unlinked,       \* m_UnlinkedMap: cached block and next block
    processing,     \* m_bProcessing
    validFork,      \* m_bValidForkDetected
    th,             \* the threads
    csMain,         \* the owner of cs_main, between two steps of a section
    cacheLock,      \* the owner of m_CacheMapLock, likewise
    lost,           \* connections lost so far
    aged            \* items that became an hour old so far

chainVars == <<index, failed, data, linked, waiting, tip>>
cacheVars == <<cached, item, unlinked>>
netVars == <<ibd, connected, inflight, lost, aged>>
lockVars == <<csMain, cacheLock>>
runVars == <<processing, validFork>>
vars == <<chainVars, netVars, cacheVars, runVars, lockVars, th>>

Items == [node : Peers \cup {NoPeer}, revalidating : BOOLEAN, height : Nat,
          ready : BOOLEAN, expired : BOOLEAN, forked : BOOLEAN]

BlankItem == [node |-> NoPeer, revalidating |-> FALSE, height |-> 0,
              ready |-> FALSE, expired |-> FALSE, forked |-> FALSE]

\* What a thread runs: its step, where ProcessNewBlock and
\* ProcessNextBlockAndActivateBestChain return to, the block at hand, the peer
\* it came from, the result of validation, the local variables of
\* revalidate_blocks (vToRevalidate, vToDelete, vRejected,
\* bIsInitialBlockDownload) and of ProcessNextBlock (vNextBlocks, vToDelete,
\* bChainUpdated).
IdleThread == [pc |-> "idle", ret |-> "idle", blk |-> NoBlock, peer |-> NoPeer,
               res |-> "ok", todo |-> {}, del |-> {}, rej |-> {},
               ibd |-> FALSE, nexts |-> {}, done |-> {}, updated |-> FALSE]

ProcessSteps == {"process", "accept", "activate"}

LoopSteps == {"item", "lookup", "mark", "result", "failed", "next", "link",
              "unlink", "activateNext", "verify"}

\* The thread is inside revalidate_blocks.
Executing(t) == \/ th[t].pc \in LoopSteps
                \/ th[t].pc \in ProcessSteps /\ th[t].ret = "result"

Init ==
    /\ index = KnownHeaders
    /\ failed = {} /\ data = {} /\ linked = {} /\ waiting = {}
    /\ tip = Genesis
    /\ ibd \in BOOLEAN
    /\ connected = Peers /\ inflight = {}
    /\ cached = {} /\ item = [b \in Blocks |-> BlankItem] /\ unlinked = {}
    /\ processing = FALSE
    /\ validFork \in BOOLEAN    \* the constructor does not initialise it
    /\ th = [t \in Threads |-> IdleThread]
    /\ csMain = NoThread /\ cacheLock = NoThread
    /\ lost = 0 /\ aged = 0

-----------------------------------------------------------------------------
(***************************************************************************)
(* The block index and the active chain                                    *)
(***************************************************************************)

Linked(b, lk) == b = Genesis \/ b \in lk

\* CBlockIndex::UpdateChainTx: the block is linked when its data and its
\* parent's chain are there, and then the blocks that wait for it, level by
\* level.  The walk ends at the first block taken from the map that has no
\* data: that one goes back to the map, the others taken with it do not.
UpdateChainTx(b, dt, lk, wt) ==
    LET reached == {c \in Blocks : /\ b \in chain[c]
                                   /\ chain[c] \ chain[b] \subseteq wt \cap dt}
        empty == {k \in wt \ dt : parent[k] \in reached}
        first == {k \in empty : \A j \in empty : height[k] <= height[j]}
        Before(k) == {c \in reached : height[c] < height[k]}
        Level(k) == {c \in reached : height[c] = height[k]}
    IN  IF b \notin dt \/ ~Linked(parent[b], lk)
        THEN {[linked |-> lk \ {b},
               waiting |-> IF parent[b] \in failed THEN wt ELSE wt \cup {b}]}
        ELSE IF empty = {}
        THEN {[linked |-> lk \cup reached, waiting |-> wt \ (reached \ {b})]}
        ELSE UNION {{[linked |-> lk \cup done,
                      waiting |-> (wt \ {c \in Blocks : parent[c] \in done})
                                    \cup {k}] :
                        done \in {Before(k) \cup s : s \in SUBSET Level(k)}} :
                     k \in first}

SetChainTx(link) == linked' = link.linked /\ waiting' = link.waiting

\* ActivateBestChain, with FindMostWorkChain: the longest linked chain without
\* a failed block, if it is longer than the active one.
ActivateBestChain ==
    LET better == {c \in linked : /\ height[c] > height[tip]
                                  /\ chain[c] \cap failed = {}}
    IN  /\ \/ better = {} /\ tip' = tip
           \/ \E c \in better : /\ \A d \in better : height[d] <= height[c]
                                /\ tip' = c
        /\ UNCHANGED <<index, failed, data, linked, waiting>>

\* Mutant of ReconsiderBlock: the block itself keeps its flag.
ReconsiderOthers(b) ==
    /\ failed' = {c \in failed : b \notin chain[c] /\ c \notin chain[b]}
                   \cup (failed \cap {b})
    /\ \E link \in UpdateChainTx(b, data, linked, waiting) : SetChainTx(link)
    /\ UNCHANGED <<index, data, tip>>

\* ReconsiderBlock: clears the failure flag of the block, its descendants and
\* its ancestors.
ReconsiderBlock(b) ==
    /\ failed' = {c \in failed : b \notin chain[c] /\ c \notin chain[b]}
    /\ \E link \in UpdateChainTx(b, data, linked, waiting) : SetChainTx(link)
    /\ UNCHANGED <<index, data, tip>>

MissingInputs(b) == ~(needs[b] \subseteq chain[tip])

\* CheckBlock does not find the registration ticket of the mnid that signed b.
Unregistered(b) == b \in Signed /\ MissingInputs(b)

\* Mutant of CheckPrevBlock: the previous block need not be in the cache.
CheckPrevUncached(b) == unlinked' = unlinked \cup {<<parent[b], b>>}

\* Mutant of CheckPrevBlock: nothing is recorded.
CheckPrevForgets(b) == unlinked' = unlinked

\* check_prev_block
CheckPrevBlock(b) ==
    unlinked' = unlinked \cup (IF parent[b] \in cached THEN {<<parent[b], b>>}
                               ELSE {})

\* AcceptBlockHeader: a failed block or a new header after an unknown or a
\* failed one is refused.
HeaderRefused(b) == \/ b \in failed
                    \/ b \notin index /\ parent[b] \notin (index \ failed) \cup {Genesis}

SetThread(t, r) == th' = [th EXCEPT ![t] = r]

LocksFree == csMain = NoThread /\ cacheLock = NoThread

\* The thread returns from ProcessNewBlock with the validation state res.
Return(t, res) ==
    /\ SetThread(t, IF th[t].ret = "idle" THEN IdleThread
                    ELSE [th[t] EXCEPT !.pc = th[t].ret, !.res = res])
    /\ csMain' = NoThread

\* CheckBlock, as ProcessNewBlock calls it before it takes cs_main.  Of a
\* malformed block by an mnid that is not registered either is seen first.
CheckBlock(b) ==
    IF b \notin Malformed /\ ~Unregistered(b) THEN {"ok"}
    ELSE {res \in {"invalid", "missing"} : \/ res = "invalid" /\ b \in Malformed
                                           \/ res = "missing" /\ Unregistered(b)}

\* The thread calls ProcessNewBlock, after which it goes on as r says.
CallProcessNewBlock(t, r) ==
    \E res \in CheckBlock(r.blk) :
        SetThread(t, [r EXCEPT !.pc = "process", !.res = res])

\* ProcessNewBlock takes cs_main.  A block that failed CheckBlock, or whose
\* header is refused, leaves the block index as it is; any other one goes on
\* to check_prev_block, which needs m_CacheMapLock, under cs_main.
ProcessNewBlock(t) ==
    LET b == th[t].blk
    IN  /\ th[t].pc = "process" /\ csMain = NoThread
        /\ inflight' = {r \in inflight : r[1] # b}
        /\ \/ th[t].res # "ok" /\ Return(t, th[t].res)
           \/ th[t].res = "ok" /\ HeaderRefused(b) /\ Return(t, "invalid")
           \/ /\ th[t].res = "ok" /\ ~HeaderRefused(b)
              /\ SetThread(t, [th[t] EXCEPT !.pc = "accept"])
              /\ csMain' = t
        /\ UNCHANGED <<chainVars, ibd, connected, lost, aged, cacheVars, runVars,
                       cacheLock>>

\* The block breaks a rule or misses inputs; either way the index entry is
\* marked BLOCK_FAILED_VALID.
AcceptFailed(t, b) ==
    /\ b \notin data
    /\ b \in Bad \/ MissingInputs(b)
    /\ index' = index \cup {b} /\ failed' = failed \cup {b}
    /\ Return(t, IF b \in Bad THEN "invalid" ELSE "missing")
    /\ UNCHANGED <<data, linked, waiting, tip>>

\* The block leaves AcceptBlock, and the thread cs_main, with success.
Accepted(t) ==
    /\ SetThread(t, [th[t] EXCEPT !.pc = "activate"])
    /\ csMain' = NoThread

AcceptKnown(t, b) ==
    /\ b \in data
    /\ Accepted(t)
    /\ UNCHANGED chainVars

AcceptData(t, b) ==
    /\ b \notin data \cup Bad /\ ~MissingInputs(b)
    /\ index' = index \cup {b} /\ data' = data \cup {b}
    /\ \E link \in UpdateChainTx(b, data', linked \ {b}, waiting) : SetChainTx(link)
    /\ Accepted(t)
    /\ UNCHANGED <<failed, tip>>

\* AcceptBlock from check_prev_block on, to the end of that section.
AcceptBlock(t) ==
    LET b == th[t].blk
    IN  /\ th[t].pc = "accept" /\ cacheLock = NoThread
        /\ CheckPrevBlock(b)
        /\ AcceptFailed(t, b) \/ AcceptKnown(t, b) \/ AcceptData(t, b)
        /\ UNCHANGED <<netVars, cached, item, runVars, cacheLock>>

\* ProcessNewBlock takes cs_main again to activate the best chain.
ActivateNew(t) ==
    /\ th[t].pc = "activate" /\ csMain = NoThread
    /\ ActivateBestChain
    /\ Return(t, "ok")
    /\ UNCHANGED <<netVars, cacheVars, runVars, cacheLock>>

-----------------------------------------------------------------------------
(***************************************************************************)
(* Messages, submitted blocks and the environment                          *)
(***************************************************************************)

\* A header message.
ReceiveHeader(t, b) ==
    /\ th[t].pc = "idle" /\ LocksFree
    /\ b \notin index /\ ~HeaderRefused(b)
    /\ index' = index \cup {b}
    /\ CheckPrevBlock(b)
    /\ UNCHANGED <<failed, data, linked, waiting, tip, netVars, cached, item,
                   runVars, lockVars, th>>

\* FindNextBlocksToDownload stops at the first failed block of the peer's
\* chain and skips the blocks in flight and in the cache.
RequestBlock(t, b, p) ==
    /\ th[t].pc = "idle" /\ LocksFree
    /\ p \in connected
    /\ b \in index \ (data \cup cached)
    /\ chain[b] \cap failed = {}
    /\ \A r \in inflight : r[1] # b
    /\ inflight' = inflight \cup {<<b, p>>}
    /\ UNCHANGED <<chainVars, ibd, connected, lost, aged, cacheVars, runVars,
                   lockVars, th>>

\* A block message.
ReceiveBlock(t, b, p) ==
    /\ th[t].pc = "idle"
    /\ <<b, p>> \in inflight
    /\ CallProcessNewBlock(t, [IdleThread EXCEPT !.ret = "received", !.blk = b,
                                                 !.peer = p])
    /\ UNCHANGED <<chainVars, netVars, cacheVars, runVars, lockVars>>

\* The miner and the mining RPCs submit a valid block on top of the tip.
SubmitBlock(t, b) ==
    /\ th[t].pc = "idle" /\ csMain = NoThread
    /\ b \notin index \cup Bad /\ parent[b] = tip /\ ~MissingInputs(b)
    /\ CallProcessNewBlock(t, [IdleThread EXCEPT !.blk = b])
    /\ UNCHANGED <<chainVars, netVars, cacheVars, runVars, lockVars>>

\* _BLOCK_CACHE_ITEM::Added
Added(it) == [it EXCEPT !.revalidating = FALSE, !.ready = FALSE,
                        !.expired = FALSE]

\* The end of the block message: add_block when inputs are missing.  It takes
\* m_CacheMapLock, and cs_main under it when the block is new to the cache.
AddBlock(t) ==
    LET b == th[t].blk
    IN  /\ th[t].pc = "received"
        /\ \/ /\ th[t].res # "missing"
              /\ SetThread(t, IdleThread)
              /\ UNCHANGED <<item, cacheLock>>
           \/ /\ th[t].res = "missing" /\ cacheLock = NoThread
              /\ b \in cached
              /\ item' = [item EXCEPT ![b] = Added(@)]
              /\ SetThread(t, IdleThread)
              /\ UNCHANGED cacheLock
           \/ /\ th[t].res = "missing" /\ cacheLock = NoThread
              /\ b \notin cached
              /\ SetThread(t, [th[t] EXCEPT !.pc = "addMain"])
              /\ cacheLock' = t
              /\ UNCHANGED item
        /\ UNCHANGED <<chainVars, netVars, cached, unlinked, runVars, csMain>>

\* ... and goes on when it has cs_main.
AddBlockInsert(t) ==
    LET b == th[t].blk
    IN  /\ th[t].pc = "addMain" /\ csMain = NoThread
        /\ cached' = cached \cup {b}
        /\ item' = [item EXCEPT ![b] =
                      [BlankItem EXCEPT !.node = th[t].peer,
                         !.height = IF b \in index THEN height[b] ELSE 0]]
        /\ SetThread(t, IdleThread)
        /\ cacheLock' = NoThread
        /\ UNCHANGED <<chainVars, netVars, unlinked, runVars, csMain>>

\* m_nBlockRevalidationWaitTime seconds have passed since the last attempt.
WaitOver(b) ==
    /\ b \in cached /\ ~item[b].ready
    /\ item' = [item EXCEPT ![b].ready = TRUE]
    /\ UNCHANGED <<chainVars, netVars, cached, unlinked, runVars, lockVars, th>>

\* The item has been in the cache for BLOCK_IN_CACHE_EXPIRATION_TIME_IN_SECS.
Expire(b) ==
    /\ b \in cached /\ ~item[b].expired /\ aged < MaxExpired
    /\ item' = [item EXCEPT ![b].expired = TRUE]
    /\ aged' = aged + 1
    /\ UNCHANGED <<chainVars, ibd, connected, inflight, lost, cached, unlinked,
                   runVars, lockVars, th>>

LoseConnection(p) ==
    /\ p \in connected /\ lost < MaxLost
    /\ connected' = connected \ {p}
    /\ inflight' = {r \in inflight : r[2] # p}
    /\ lost' = lost + 1
    /\ UNCHANGED <<chainVars, ibd, aged, cacheVars, runVars, lockVars, th>>

LeaveInitialBlockDownload ==
    /\ ibd
    /\ ibd' = FALSE
    /\ UNCHANGED <<chainVars, connected, inflight, lost, aged, cacheVars,
                   runVars, lockVars, th>>

-----------------------------------------------------------------------------
(***************************************************************************)
(* revalidate_blocks                                                       *)
(***************************************************************************)

\* DeleteCacheItems, with CleanupUnlinkedMap: the entries that lead to a
\* deleted block go, the ones that start at it stay.
DeleteCacheItems(s) ==
    /\ cached' = cached \ s
    /\ item' = [b \in Blocks |-> IF b \in s THEN BlankItem ELSE item[b]]
    /\ unlinked' = {u \in unlinked : u[2] \notin s}

\* CollectCachedBlocksToRevalidate
Due == {b \in cached : item[b].ready /\ ~item[b].revalidating}

Orphans == {b \in Due : item[b].node \notin connected}

\* Mutant of TooHigh: the block right above the tip is taken to be too high.
TooHighAtNext(s) == \A b \in s : item[b].height > height[tip]

TooHigh(s) == \A b \in s : item[b].height > height[tip] + 1

\* Mutant of RevalidateNothing: m_bProcessing is not looked at.
RevalidateNothingAnyway(t) ==
    /\ th[t].pc = "idle" /\ cacheLock = NoThread
    /\ Orphans # {} /\ TooHigh(Due \ Orphans)
    /\ DeleteCacheItems(Orphans)
    /\ UNCHANGED <<chainVars, netVars, runVars, lockVars, th>>

\* Nothing to revalidate, or nothing that could connect: only the blocks whose
\* peer is gone are dropped.
RevalidateNothing(t) ==
    /\ th[t].pc = "idle" /\ ~processing /\ cacheLock = NoThread
    /\ Orphans # {} /\ TooHigh(Due \ Orphans)
    /\ DeleteCacheItems(Orphans)
    /\ UNCHANGED <<chainVars, netVars, runVars, lockVars, th>>

\* Mutant of RevalidateBegin: m_bProcessing is not looked at.
RevalidateAnyway(t) ==
    /\ th[t].pc = "idle" /\ cacheLock = NoThread
    /\ ~TooHigh(Due \ Orphans)
    /\ processing' = TRUE
    /\ SetThread(t, [IdleThread EXCEPT !.pc = "item", !.todo = Due \ Orphans,
                                       !.del = Orphans, !.ibd = ibd])
    /\ UNCHANGED <<chainVars, netVars, cacheVars, validFork, lockVars>>

RevalidateBegin(t) ==
    /\ th[t].pc = "idle" /\ ~processing /\ cacheLock = NoThread
    /\ ~TooHigh(Due \ Orphans)
    /\ processing' = TRUE
    /\ SetThread(t, [IdleThread EXCEPT !.pc = "item", !.todo = Due \ Orphans,
                                       !.del = Orphans, !.ibd = ibd])
    /\ UNCHANGED <<chainVars, netVars, cacheVars, validFork, lockVars>>

\* The loop takes the blocks in the order of their heights.
NextItem(t, b) ==
    LET current == height[tip]
        obsolete == /\ ~th[t].ibd /\ item[b].height < current
                    /\ current - item[b].height > ForkLimit
    IN  /\ th[t].pc = "item" /\ cacheLock = NoThread
        /\ b \in th[t].todo
        /\ \A c \in th[t].todo : item[b].height <= item[c].height
        /\ SetThread(t, [th[t] EXCEPT !.todo = @ \ {b},
                !.blk = b,
                !.del = IF obsolete THEN @ \cup {b} ELSE @,
                !.pc = IF obsolete THEN "item" ELSE "lookup"])
        /\ UNCHANGED <<chainVars, netVars, cacheVars, runVars, lockVars>>

\* The last common ancestor of the block and the tip is below the tip.
OffActive(b) == ~(chain[tip] \subseteq chain[b])

\* pindexBestHeader: one of the highest headers.
BestHeaders == {h \in index : \A c \in index : height[c] <= height[h]}

\* The best header's chain contains the block and leads by more than ForkLead.
Leads(h, b) == height[h] > height[tip] + ForkLead /\ b \in chain[h]

\* All data of that chain is there up to ForkLead + 1 blocks above the tip.
ForkDataAvailable(h) ==
    \A c \in chain[h] \ chain[tip] :
        height[c] <= height[tip] + ForkLead + 1 => c \in data \cup cached

\* A block in the index and not in the active chain: the forked-chain flags are
\* set, then the block is reconsidered, unless it belongs to a leading fork
\* whose data is incomplete.
LookupBlock(t, b, h) ==
    LET forked == item[b].forked \/ OffActive(b)
        leading == ~validFork /\ forked /\ Leads(h, b)
    IN  /\ item' = [item EXCEPT ![b].forked = forked]
        /\ validFork' = (validFork \/ (leading /\ ForkDataAvailable(h)))
        /\ IF leading /\ ~ForkDataAvailable(h)
           THEN UNCHANGED chainVars
           ELSE ReconsiderBlock(b)
        /\ SetThread(t, [th[t] EXCEPT !.pc = "mark"])

Lookup(t) ==
    LET b == th[t].blk
    IN  /\ th[t].pc = "lookup" /\ csMain = NoThread
        /\ \/ /\ b \notin index
              /\ SetThread(t, [th[t] EXCEPT !.pc = "mark"])
              /\ UNCHANGED <<chainVars, item, validFork>>
           \/ /\ b \in chain[tip]
              /\ SetThread(t, [th[t] EXCEPT !.pc = "next", !.ret = "item",
                                            !.del = @ \cup {b}])
              /\ UNCHANGED <<chainVars, item, validFork>>
           \/ /\ b \in index \ chain[tip]
              /\ \E h \in BestHeaders : LookupBlock(t, b, h)
        /\ UNCHANGED <<netVars, cached, unlinked, processing, lockVars>>

\* bRevalidating is set and ProcessNewBlock called.
Revalidate(t) ==
    /\ th[t].pc = "mark" /\ cacheLock = NoThread
    /\ item' = [item EXCEPT ![th[t].blk].revalidating = TRUE]
    /\ CallProcessNewBlock(t, [th[t] EXCEPT !.ret = "result"])
    /\ UNCHANGED <<chainVars, netVars, cached, unlinked, runVars, lockVars>>

\* Mutant of MissingAgain: bRevalidating is not cleared.
MissingStillMarked(t) ==
    LET b == th[t].blk
    IN  /\ \/ th[t].pc = "result" /\ th[t].res = "missing" /\ ~item[b].forked
           \/ th[t].pc = "failed"
        /\ cacheLock = NoThread
        /\ item' = [item EXCEPT ![b].ready = FALSE]
        /\ SetThread(t, [th[t] EXCEPT !.pc = "item",
                !.rej = IF item[b].expired THEN @ \cup {b} ELSE @])
        /\ UNCHANGED <<chainVars, netVars, cached, unlinked, runVars, lockVars>>

\* Inputs are missing again.  A block of a forked chain is reconsidered first.
MissingAgain(t) ==
    LET b == th[t].blk
    IN  /\ \/ th[t].pc = "result" /\ th[t].res = "missing" /\ ~item[b].forked
           \/ th[t].pc = "failed"
        /\ cacheLock = NoThread
        /\ item' = [item EXCEPT ![b].revalidating = FALSE, ![b].ready = FALSE]
        /\ SetThread(t, [th[t] EXCEPT !.pc = "item",
                !.rej = IF item[b].expired THEN @ \cup {b} ELSE @])
        /\ UNCHANGED <<chainVars, netVars, cached, unlinked, runVars, lockVars>>

ReconsiderForked(t) ==
    LET b == th[t].blk
    IN  /\ th[t].pc = "result" /\ th[t].res = "missing" /\ item[b].forked
        /\ csMain = NoThread
        /\ IF b \in index THEN ReconsiderBlock(b) ELSE UNCHANGED chainVars
        /\ SetThread(t, [th[t] EXCEPT !.pc = "failed"])
        /\ UNCHANGED <<netVars, cacheVars, runVars, lockVars>>

Rejected(t) ==
    /\ th[t].pc = "result" /\ th[t].res = "invalid" /\ cacheLock = NoThread
    /\ SetThread(t, [th[t] EXCEPT !.pc = "item", !.rej = @ \cup {th[t].blk}])
    /\ UNCHANGED <<chainVars, netVars, cacheVars, runVars, lockVars>>

\* ProcessNextBlockAndActivateBestChain: the next blocks are read from
\* m_UnlinkedMap ...
CollectNext(t) ==
    /\ \/ th[t].pc = "result" /\ th[t].res = "ok"
       \/ th[t].pc = "next"
    /\ cacheLock = NoThread
    /\ SetThread(t, [th[t] EXCEPT !.pc = "link", !.updated = FALSE, !.done = {},
            !.ret = IF th[t].pc = "next" THEN @ ELSE "verify",
            !.nexts = {c \in Blocks : <<th[t].blk, c>> \in unlinked}])
    /\ UNCHANGED <<chainVars, netVars, cacheVars, runVars, lockVars>>

\* ... linked in one section under cs_main ...
LinkNext(t, n) ==
    /\ th[t].pc = "link" /\ csMain \in {NoThread, t}
    /\ n \in th[t].nexts
    /\ IF n \in chain[tip]
       THEN UNCHANGED <<linked, waiting>>
       ELSE \E link \in UpdateChainTx(n, data, linked, waiting) : SetChainTx(link)
    /\ SetThread(t, [th[t] EXCEPT !.nexts = @ \ {n}, !.done = @ \cup {n},
                                  !.updated = @ \/ n \notin chain[tip]])
    /\ csMain' = t
    /\ UNCHANGED <<index, failed, data, tip, netVars, cacheVars, runVars,
                   cacheLock>>

LinkEnd(t) ==
    /\ th[t].pc = "link" /\ csMain \in {NoThread, t}
    /\ th[t].nexts = {}
    /\ SetThread(t, [th[t] EXCEPT !.pc = IF th[t].done = {} THEN th[t].ret
                                                           ELSE "unlink"])
    /\ csMain' = NoThread
    /\ UNCHANGED <<chainVars, netVars, cacheVars, runVars, cacheLock>>

\* ... and erased under m_CacheMapLock alone ...
EraseLinked(t) ==
    /\ th[t].pc = "unlink" /\ cacheLock = NoThread
    /\ unlinked' = unlinked \ ({th[t].blk} \X th[t].done)
    /\ SetThread(t, [th[t] EXCEPT !.pc = IF th[t].updated THEN "activateNext"
                                                         ELSE th[t].ret])
    /\ UNCHANGED <<chainVars, netVars, cached, item, runVars, lockVars>>

\* ... and the best chain is activated if one of them was linked.
ActivateNext(t) ==
    /\ th[t].pc = "activateNext" /\ csMain = NoThread
    /\ ActivateBestChain
    /\ SetThread(t, [th[t] EXCEPT !.pc = th[t].ret])
    /\ UNCHANGED <<netVars, cacheVars, runVars, lockVars>>

\* A block that got into the active chain leaves the cache, another waits for
\* the next attempt.
Verify(t) ==
    LET b == th[t].blk
        active == b \in chain[tip]
    IN  /\ th[t].pc = "verify" /\ LocksFree
        /\ item' = IF active THEN item
                   ELSE [item EXCEPT ![b].revalidating = FALSE,
                                     ![b].ready = FALSE]
        /\ SetThread(t, [th[t] EXCEPT !.pc = "item",
                !.del = IF active THEN @ \cup {b} ELSE @])
        /\ UNCHANGED <<chainVars, netVars, cached, unlinked, runVars, lockVars>>

RevalidateEnd(t) ==
    /\ th[t].pc = "item" /\ th[t].todo = {} /\ cacheLock = NoThread
    /\ DeleteCacheItems(th[t].del \cup th[t].rej)
    /\ processing' = FALSE
    /\ SetThread(t, IdleThread)
    /\ UNCHANGED <<chainVars, netVars, validFork, lockVars>>

-----------------------------------------------------------------------------
Step(t) ==
    \/ ProcessNewBlock(t) \/ AcceptBlock(t) \/ ActivateNew(t)
    \/ AddBlock(t) \/ AddBlockInsert(t)
    \/ \E b \in Blocks : NextItem(t, b) \/ LinkNext(t, b)
    \/ Lookup(t) \/ Revalidate(t) \/ MissingAgain(t) \/ ReconsiderForked(t)
    \/ Rejected(t) \/ CollectNext(t) \/ LinkEnd(t) \/ EraseLinked(t)
    \/ ActivateNext(t) \/ Verify(t) \/ RevalidateEnd(t)

Receive(t) ==
    \/ \E b \in Blocks : ReceiveHeader(t, b)
    \/ \E b \in Blocks, p \in Peers : RequestBlock(t, b, p) \/ ReceiveBlock(t, b, p)

Environment ==
    \/ \E b \in Blocks : WaitOver(b) \/ Expire(b)
    \/ \E p \in Peers : LoseConnection(p)
    \/ LeaveInitialBlockDownload

Next ==
    \/ \E t \in Threads : Step(t)
    \/ \E t \in MsgThreads : Receive(t) \/ RevalidateNothing(t) \/ RevalidateBegin(t)
    \/ \E t \in Submitters, b \in Blocks : SubmitBlock(t, b)
    \/ Environment

Spec == Init /\ [][Next]_vars

\* The message loop never stops calling ProcessMessages and SendMessages for
\* every peer, peers answer block requests, and time passes.
Fairness ==
    /\ \A t \in Threads : WF_vars(Step(t))
    /\ \A t \in MsgThreads :
         /\ SF_vars(RevalidateNothing(t)) /\ SF_vars(RevalidateBegin(t))
         /\ \A b \in Blocks : SF_vars(\E p \in Peers : RequestBlock(t, b, p))
         /\ \A b \in Blocks, p \in Peers : SF_vars(ReceiveBlock(t, b, p))
    /\ \A b \in Blocks : WF_vars(WaitOver(b))

FairSpec == Spec /\ Fairness

-----------------------------------------------------------------------------
(***************************************************************************)
(* Properties                                                              *)
(***************************************************************************)

ThreadRecords ==
    [pc : {"idle", "received", "addMain"} \cup ProcessSteps \cup LoopSteps,
     ret : {"idle", "received", "result", "item", "verify"},
     blk : Blocks \cup {NoBlock}, peer : Peers \cup {NoPeer},
     res : {"ok", "missing", "invalid"}, todo : SUBSET Blocks,
     del : SUBSET Blocks, rej : SUBSET Blocks, ibd : BOOLEAN,
     nexts : SUBSET Blocks, done : SUBSET Blocks, updated : BOOLEAN]

\* Type invariant of the block index, the cache and the threads.
TypeOK ==
    /\ index \in SUBSET Blocks /\ failed \in SUBSET Blocks
    /\ data \in SUBSET Blocks /\ linked \in SUBSET Blocks
    /\ waiting \in SUBSET Blocks
    /\ tip \in Blocks \cup {Genesis}
    /\ ibd \in BOOLEAN /\ connected \in SUBSET Peers
    /\ inflight \in SUBSET (Blocks \X Peers)
    /\ cached \in SUBSET Blocks /\ item \in [Blocks -> Items]
    /\ unlinked \in SUBSET (Blocks \X Blocks)
    /\ processing \in BOOLEAN /\ validFork \in BOOLEAN
    /\ th \in [Threads -> ThreadRecords]
    /\ csMain \in Threads \cup {NoThread}
    /\ cacheLock \in Threads \cup {NoThread}
    /\ lost \in Nat /\ aged \in Nat

\* The flag m_bProcessing keeps all threads but one out of revalidate_blocks,
\* and it is down when none is in there.
OneExecutor ==
    /\ \A s, t \in Threads : Executing(s) /\ Executing(t) => s = t
    /\ processing <=> \E t \in Threads : Executing(t)

\* The block a step of the loop works on.
InHand(t) == IF th[t].pc = "item" THEN {} ELSE {th[t].blk}

\* revalidate_blocks keeps pointers to cache items while it lets go of the
\* lock: the items they point to are still in the cache.
ItemsStay ==
    \A t \in Threads : Executing(t) => th[t].todo \cup InHand(t) \subseteq cached

\* An item marked bRevalidating is skipped by every later collection: the only
\* ones marked are the block in hand and blocks about to leave the cache.
MarkOwned ==
    \A b \in cached : item[b].revalidating =>
        \E t \in Threads : /\ Executing(t)
                           /\ b \in InHand(t) \cup th[t].del \cup th[t].rej

\* A block is rejected only if it breaks a rule or has stayed in the cache for
\* an hour: missing inputs alone are no reason to reject it.
RejectedForCause ==
    \A t \in Threads : \A b \in th[t].rej : b \in Bad \/ item[b].expired

\* nChainTx is set exactly for the blocks whose data and whose ancestors' data
\* have been received, whenever no revalidation is under way.
ChainTxComplete ==
    ~processing => linked = {b \in data : chain[b] \subseteq data}

\* No thread waits for m_CacheMapLock with cs_main while another waits for
\* cs_main with m_CacheMapLock.
NoLockCycle ==
    ~ \E s, t \in Threads : /\ th[s].pc = "addMain" /\ cacheLock = s
                            /\ th[t].pc = "accept" /\ csMain = t

\* Unless a block is given up after an hour, every valid chain the peers have is
\* connected in the end, whatever the order its blocks come in.
EventuallyConnected ==
    <>[](aged = 0 => \A b \in Blocks : Bad \cap chain[b] = {}
                                         => height[b] <= height[tip])

=============================================================================
