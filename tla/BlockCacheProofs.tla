-------------------------- MODULE BlockCacheProofs --------------------------
(***************************************************************************)
(* The executor of revalidate_blocks, for every block tree, every number   *)
(* of threads and peers, and every interleaving of the steps that release  *)
(* the locks.                                                              *)
(***************************************************************************)
EXTENDS BlockCache, TLAPS

\* The steps of ProcessNextBlockAndActivateBestChain.
NextSteps == {"next", "link", "unlink", "activateNext"}

\* Where a thread goes after the procedure it is in, and with which block.
Returns ==
    \A t \in Threads :
        /\ th[t].pc \in ProcessSteps \cup {"received", "addMain"}
             => th[t].blk \in Blocks
        /\ th[t].pc \in ProcessSteps => th[t].ret \in {"idle", "received", "result"}
        /\ th[t].pc \in NextSteps =>
             \/ th[t].ret = "verify"
             \/ th[t].ret = "item" /\ th[t].blk \in th[t].del

\* The inductive invariant.
IInv == TypeOK /\ Returns /\ OneExecutor /\ ItemsStay /\ MarkOwned

\* The parts of TypeOK that the block index, the cache and the rest make up.
ChainTypes ==
    /\ index \in SUBSET Blocks /\ failed \in SUBSET Blocks
    /\ data \in SUBSET Blocks /\ linked \in SUBSET Blocks
    /\ waiting \in SUBSET Blocks /\ tip \in Blocks \cup {Genesis}

CacheTypes ==
    /\ cached \in SUBSET Blocks /\ item \in [Blocks -> Items]
    /\ unlinked \in SUBSET (Blocks \X Blocks)

NetTypes ==
    /\ ibd \in BOOLEAN /\ connected \in SUBSET Peers
    /\ inflight \in SUBSET (Blocks \X Peers) /\ lost \in Nat /\ aged \in Nat

RunTypes ==
    /\ processing \in BOOLEAN /\ validFork \in BOOLEAN
    /\ csMain \in Threads \cup {NoThread} /\ cacheLock \in Threads \cup {NoThread}

ThreadTypes == th \in [Threads -> ThreadRecords]

\* TypeOK is the conjunction of its parts.
LEMMA TypeParts ==
    TypeOK <=> ChainTypes /\ CacheTypes /\ NetTypes /\ RunTypes /\ ThreadTypes
BY DEF TypeOK, ChainTypes, CacheTypes, NetTypes, RunTypes, ThreadTypes

\* SetThread changes one thread's record.
LEMMA OneThread ==
    ASSUME NEW t \in Threads, NEW r \in ThreadRecords, ThreadTypes,
           SetThread(t, r)
    PROVE  /\ ThreadTypes'
           /\ th'[t] = r
           /\ \A s \in Threads : s # t => th'[s] = th[s]
BY DEF ThreadTypes, SetThread

\* A blank item and a blank thread have their types.
LEMMA Blanks == BlankItem \in Items /\ IdleThread \in ThreadRecords
BY DEF BlankItem, Items, IdleThread, ThreadRecords, LoopSteps, ProcessSteps

\* UpdateChainTx stays within the blocks.
LEMMA UpdateTypes ==
    ASSUME NEW b \in Blocks, NEW dt, NEW lk \in SUBSET Blocks,
           NEW wt \in SUBSET Blocks,
           NEW link \in UpdateChainTx(b, dt, lk, wt)
    PROVE  link.linked \in SUBSET Blocks /\ link.waiting \in SUBSET Blocks
BY DEF UpdateChainTx

\* ReconsiderBlock keeps the types of the block index.
LEMMA ReconsiderTypes ==
    ASSUME ChainTypes, NEW b \in Blocks, ReconsiderBlock(b)
    PROVE  ChainTypes'
BY UpdateTypes DEF ChainTypes, ReconsiderBlock, SetChainTx

\* ActivateBestChain moves the tip to a linked block, if at all.
LEMMA ActivateTypes ==
    ASSUME ChainTypes, ActivateBestChain
    PROVE  ChainTypes'
BY DEF ChainTypes, ActivateBestChain

-----------------------------------------------------------------------------
\* What the invariant says of a thread, as predicates of its record.
Exec(r) == r.pc \in LoopSteps \/ (r.pc \in ProcessSteps /\ r.ret = "result")

Own(r) == (IF r.pc = "item" THEN {} ELSE {r.blk}) \cup r.del \cup r.rej

Uses(r) == r.todo \cup (IF r.pc = "item" THEN {} ELSE {r.blk})

GoodReturn(r) ==
    /\ r.pc \in ProcessSteps \cup {"received", "addMain"} => r.blk \in Blocks
    /\ r.pc \in ProcessSteps => r.ret \in {"idle", "received", "result"}
    /\ r.pc \in NextSteps => \/ r.ret = "verify"
                             \/ r.ret = "item" /\ r.blk \in r.del

\* The thread part of the inductive invariant.
ThreadInv == Returns /\ OneExecutor /\ ItemsStay /\ MarkOwned

\* ThreadInv in terms of the records.
LEMMA ThreadInvRecords ==
    ThreadInv <=>
      /\ \A t \in Threads : GoodReturn(th[t])
      /\ \A s, t \in Threads : Exec(th[s]) /\ Exec(th[t]) => s = t
      /\ processing <=> \E t \in Threads : Exec(th[t])
      /\ \A t \in Threads : Exec(th[t]) => Uses(th[t]) \subseteq cached
      /\ \A b \in cached : item[b].revalidating =>
           \E t \in Threads : Exec(th[t]) /\ b \in Own(th[t])
<1>1. Returns <=> \A t \in Threads : GoodReturn(th[t])
  BY DEF Returns, GoodReturn
<1>2. \A t \in Threads : Executing(t) <=> Exec(th[t])
  BY DEF Executing, Exec
<1>3. OneExecutor <=>
        /\ \A s, t \in Threads : Exec(th[s]) /\ Exec(th[t]) => s = t
        /\ processing <=> \E t \in Threads : Exec(th[t])
  BY <1>2 DEF OneExecutor
<1>4. ItemsStay <=>
        \A t \in Threads : Exec(th[t]) => Uses(th[t]) \subseteq cached
  BY <1>2 DEF ItemsStay, InHand, Uses
<1>5. MarkOwned <=> \A b \in cached : item[b].revalidating =>
           \E t \in Threads : Exec(th[t]) /\ b \in Own(th[t])
  BY <1>2 DEF MarkOwned, InHand, Own
<1> QED BY <1>1, <1>3, <1>4, <1>5 DEF ThreadInv

\* ThreadInv in terms of the records, after a step.
LEMMA ThreadInvNext ==
    ThreadInv' <=>
      /\ \A t \in Threads : GoodReturn(th'[t])
      /\ \A s, t \in Threads : Exec(th'[s]) /\ Exec(th'[t]) => s = t
      /\ processing' <=> \E t \in Threads : Exec(th'[t])
      /\ \A t \in Threads : Exec(th'[t]) => Uses(th'[t]) \subseteq cached'
      /\ \A b \in cached' : item'[b].revalidating =>
           \E t \in Threads : Exec(th'[t]) /\ b \in Own(th'[t])
<1>1. Returns' <=> \A t \in Threads : GoodReturn(th'[t])
  BY DEF Returns, GoodReturn
<1>2. \A t \in Threads : Executing(t)' <=> Exec(th'[t])
  BY DEF Executing, Exec
<1>3. OneExecutor' <=>
        /\ \A s, t \in Threads : Exec(th'[s]) /\ Exec(th'[t]) => s = t
        /\ processing' <=> \E t \in Threads : Exec(th'[t])
  BY <1>2 DEF OneExecutor
<1>4. ItemsStay' <=>
        \A t \in Threads : Exec(th'[t]) => Uses(th'[t]) \subseteq cached'
  BY <1>2 DEF ItemsStay, InHand, Uses
<1>5. MarkOwned' <=> \A b \in cached' : item'[b].revalidating =>
           \E t \in Threads : Exec(th'[t]) /\ b \in Own(th'[t])
  BY <1>2 DEF MarkOwned, InHand, Own
<1> QED BY <1>1, <1>3, <1>4, <1>5 DEF ThreadInv

\* A step of thread t that leaves the other threads alone, neither enters nor
\* leaves revalidate_blocks, removes nothing from the cache and marks at most
\* blocks the thread owns keeps ThreadInv.
LEMMA ThreadStep ==
    ASSUME ThreadInv, ThreadTypes, NEW t \in Threads, NEW r \in ThreadRecords,
           SetThread(t, r), processing' = processing, GoodReturn(r),
           Exec(r) <=> Exec(th[t]), cached \subseteq cached',
           Exec(r) => Uses(r) \subseteq cached',
           \A b \in cached' : item'[b].revalidating =>
              \/ Exec(r) /\ b \in Own(r)
              \/ b \in cached /\ item[b].revalidating
                   /\ (Exec(th[t]) /\ b \in Own(th[t]) => b \in Own(r))
    PROVE  ThreadInv'
<1>1. th'[t] = r /\ \A s \in Threads : s # t => th'[s] = th[s]
  BY OneThread
<1>2. \A s \in Threads : Exec(th'[s]) <=> Exec(th[s])
  BY <1>1
<1>3. \A s \in Threads : GoodReturn(th'[s])
  BY <1>1, ThreadInvRecords
<1>4. /\ \A s, u \in Threads : Exec(th'[s]) /\ Exec(th'[u]) => s = u
      /\ processing' <=> \E u \in Threads : Exec(th'[u])
  BY <1>2, ThreadInvRecords
<1>5. \A u \in Threads : Exec(th'[u]) => Uses(th'[u]) \subseteq cached'
  <2> SUFFICES ASSUME NEW u \in Threads, Exec(th'[u])
               PROVE  Uses(th'[u]) \subseteq cached'
    OBVIOUS
  <2>1. CASE u = t
    BY <2>1, <1>1
  <2>2. CASE u # t
    BY <2>2, <1>1, <1>2, ThreadInvRecords
  <2> QED BY <2>1, <2>2
<1>6. \A b \in cached' : item'[b].revalidating =>
        \E u \in Threads : Exec(th'[u]) /\ b \in Own(th'[u])
  <2> SUFFICES ASSUME NEW b \in cached', item'[b].revalidating
               PROVE  \E u \in Threads : Exec(th'[u]) /\ b \in Own(th'[u])
    OBVIOUS
  <2>1. CASE Exec(r) /\ b \in Own(r)
    BY <2>1, <1>1
  <2>2. CASE b \in cached /\ item[b].revalidating
                   /\ (Exec(th[t]) /\ b \in Own(th[t]) => b \in Own(r))
    <3>1. PICK u \in Threads : Exec(th[u]) /\ b \in Own(th[u])
      BY <2>2, ThreadInvRecords
    <3>2. CASE u = t
      BY <3>1, <3>2, <2>2, <1>1
    <3>3. CASE u # t
      BY <3>1, <3>3, <1>1
    <3> QED BY <3>2, <3>3
  <2> QED BY <2>1, <2>2
<1> QED BY <1>3, <1>4, <1>5, <1>6, ThreadInvNext

\* A step that leaves the threads, the keys and the marks of the cache alone.
LEMMA QuietStep ==
    ASSUME ThreadInv, th' = th, processing' = processing, cached' = cached,
           \A b \in cached : item'[b].revalidating => item[b].revalidating
    PROVE  ThreadInv'
<1> QED BY ThreadInvRecords, ThreadInvNext

\* The inductive invariant, by its parts.
LEMMA IInvParts ==
    IInv <=> /\ ChainTypes /\ CacheTypes /\ NetTypes /\ RunTypes /\ ThreadTypes
             /\ ThreadInv
BY TypeParts DEF IInv, ThreadInv

\* ... and after a step.
LEMMA IInvPartsNext ==
    IInv' <=> /\ ChainTypes' /\ CacheTypes' /\ NetTypes' /\ RunTypes'
              /\ ThreadTypes' /\ ThreadInv'
<1>1. TypeOK' <=> /\ ChainTypes' /\ CacheTypes' /\ NetTypes' /\ RunTypes'
                  /\ ThreadTypes'
  BY DEF TypeOK, ChainTypes, CacheTypes, NetTypes, RunTypes, ThreadTypes
<1> QED BY <1>1 DEF IInv, ThreadInv

\* The initial states.
LEMMA InitIInv == Init => IInv
<1> SUFFICES ASSUME Init PROVE IInv
  OBVIOUS
<1> USE CacheAssumptions
<1>1. ChainTypes /\ NetTypes /\ RunTypes
  BY DEF Init, ChainTypes, NetTypes, RunTypes
<1>2. CacheTypes /\ ThreadTypes
  BY Blanks DEF Init, CacheTypes, ThreadTypes
<1>3. \A t \in Threads : th[t] = IdleThread
  BY DEF Init
<1>4. ThreadInv
  BY <1>3, ThreadInvRecords
     DEF Init, IdleThread, Exec, GoodReturn, LoopSteps, ProcessSteps, NextSteps
<1> QED BY <1>1, <1>2, <1>4, IInvParts

\* The steps of the environment, headers and block requests.
LEMMA EnvironmentIInv ==
    ASSUME IInv, Environment
    PROVE  IInv'
<1> USE IInvParts DEF NetTypes
<1>1. ASSUME NEW b \in Blocks, WaitOver(b)
      PROVE  IInv'
  <2>1. ThreadInv'
    BY <1>1, QuietStep DEF WaitOver, CacheTypes, Items, runVars
  <2>2. CacheTypes'
    BY Zenon, <1>1 DEF WaitOver, CacheTypes, Items
  <2> QED BY <1>1, <2>1, <2>2, IInvPartsNext
    DEF WaitOver, chainVars, netVars, runVars, lockVars, ChainTypes, RunTypes,
        ThreadTypes
<1>2. ASSUME NEW b \in Blocks, Expire(b)
      PROVE  IInv'
  <2>1. ThreadInv'
    BY <1>2, QuietStep DEF Expire, CacheTypes, Items, runVars
  <2>2. CacheTypes'
    BY Zenon, <1>2 DEF Expire, CacheTypes, Items
  <2>3. NetTypes'
    BY <1>2 DEF Expire
  <2> QED BY <1>2, <2>1, <2>2, <2>3, IInvPartsNext
    DEF Expire, chainVars, runVars, lockVars, ChainTypes, RunTypes, ThreadTypes
<1>3. ASSUME NEW p \in Peers, LoseConnection(p)
      PROVE  IInv'
  <2>1. ThreadInv'
    BY <1>3, QuietStep DEF LoseConnection, cacheVars, runVars
  <2>2. NetTypes'
    BY <1>3 DEF LoseConnection
  <2> QED BY <1>3, <2>1, <2>2, IInvPartsNext
    DEF LoseConnection, chainVars, cacheVars, runVars, lockVars, ChainTypes,
        CacheTypes, RunTypes, ThreadTypes
<1>4. ASSUME LeaveInitialBlockDownload
      PROVE  IInv'
  <2>1. ThreadInv'
    BY <1>4, QuietStep DEF LeaveInitialBlockDownload, cacheVars, runVars
  <2> QED BY Zenon, <1>4, <2>1, IInvPartsNext
    DEF LeaveInitialBlockDownload, chainVars, cacheVars, runVars, lockVars,
        ChainTypes, CacheTypes, RunTypes, ThreadTypes
<1> QED BY <1>1, <1>2, <1>3, <1>4 DEF Environment

\* CheckPrevBlock keeps the type of m_UnlinkedMap.
LEMMA CheckPrevTypes ==
    ASSUME CacheTypes, NEW b \in Blocks, CheckPrevBlock(b)
    PROVE  unlinked' \in SUBSET (Blocks \X Blocks)
BY DEF CacheTypes, CheckPrevBlock

\* A header message and a block request.
LEMMA RequestIInv ==
    ASSUME IInv, NEW t \in Threads, NEW b \in Blocks,
           ReceiveHeader(t, b) \/ \E p \in Peers : RequestBlock(t, b, p)
    PROVE  IInv'
<1> USE IInvParts
<1>1. CASE ReceiveHeader(t, b)
  <2>1. ThreadInv'
    BY <1>1, QuietStep DEF ReceiveHeader, runVars
  <2>2. CacheTypes'
    BY <1>1, CheckPrevTypes DEF ReceiveHeader, CacheTypes
  <2>3. ChainTypes'
    BY <1>1 DEF ReceiveHeader, ChainTypes
  <2> QED BY <1>1, <2>1, <2>2, <2>3, IInvPartsNext
    DEF ReceiveHeader, netVars, runVars, lockVars, NetTypes, RunTypes, ThreadTypes
<1>2. ASSUME NEW p \in Peers, RequestBlock(t, b, p)
      PROVE  IInv'
  <2>1. ThreadInv'
    BY <1>2, QuietStep DEF RequestBlock, cacheVars, runVars
  <2>2. NetTypes'
    BY <1>2 DEF RequestBlock, NetTypes
  <2> QED BY <1>2, <2>1, <2>2, IInvPartsNext
    DEF RequestBlock, chainVars, cacheVars, runVars, lockVars, ChainTypes,
        CacheTypes, RunTypes, ThreadTypes
<1> QED BY <1>1, <1>2

\* CheckBlock has a result.
LEMMA CheckBlockResult ==
    ASSUME NEW b
    PROVE  CheckBlock(b) \subseteq {"ok", "missing", "invalid"}
BY DEF CheckBlock

\* The start of ProcessNewBlock for a received or submitted block.
LEMMA ArrivalIInv ==
    ASSUME IInv, NEW t \in Threads, NEW b \in Blocks,
           (\E p \in Peers : ReceiveBlock(t, b, p)) \/ SubmitBlock(t, b)
    PROVE  IInv'
<1> USE IInvParts
<1>1. PICK r \in ThreadRecords :
        /\ SetThread(t, r)
        /\ r.pc = "process" /\ r.blk = b /\ r.ret \in {"received", "idle"}
  <2>1. PICK c \in ThreadRecords :
          /\ CallProcessNewBlock(t, c)
          /\ c.blk = b /\ c.ret \in {"received", "idle"}
    <3> DEFINE q(p) == [IdleThread EXCEPT !.ret = "received", !.blk = b, !.peer = p]
               u == [IdleThread EXCEPT !.blk = b]
    <3>1. ASSUME NEW p \in Peers
          PROVE  q(p) \in ThreadRecords /\ q(p).blk = b /\ q(p).ret = "received"
      BY Zenon DEF IdleThread, ThreadRecords
    <3>2. u \in ThreadRecords /\ u.blk = b /\ u.ret = "idle"
      BY ZenonT(30) DEF IdleThread, ThreadRecords
    <3> QED BY <3>1, <3>2 DEF ReceiveBlock, SubmitBlock
  <2>2. PICK res \in {"ok", "missing", "invalid"} :
           SetThread(t, [c EXCEPT !.pc = "process", !.res = res])
    BY <2>1, CheckBlockResult DEF CallProcessNewBlock
  <2>3. LET r == [c EXCEPT !.pc = "process", !.res = res]
        IN  /\ r \in ThreadRecords /\ r.pc = "process" /\ r.blk = c.blk
            /\ r.ret = c.ret
    BY ZenonT(30) DEF ThreadRecords, ProcessSteps
  <2> QED BY <2>1, <2>2, <2>3
<1>2. th[t].pc = "idle"
      /\ UNCHANGED <<chainVars, netVars, cacheVars, runVars, lockVars>>
  BY Zenon DEF ReceiveBlock, SubmitBlock
<1>3. GoodReturn(r) /\ ~Exec(r) /\ ~Exec(th[t])
  BY SMTT(30), <1>1, <1>2 DEF GoodReturn, Exec, LoopSteps, ProcessSteps, NextSteps
<1>4. ThreadInv' /\ ThreadTypes'
  BY <1>1, <1>2, <1>3, ThreadStep, OneThread DEF cacheVars, runVars
<1>5. ChainTypes' /\ CacheTypes' /\ NetTypes' /\ RunTypes'
  BY <1>2 DEF chainVars, cacheVars, netVars, runVars, lockVars, ChainTypes,
              CacheTypes, NetTypes, RunTypes
<1> QED BY SMTT(30), <1>4, <1>5, IInvPartsNext

\* DeleteCacheItems keeps the types of the cache.
LEMMA DeleteTypes ==
    ASSUME CacheTypes, NEW s, DeleteCacheItems(s)
    PROVE  CacheTypes'
BY Blanks DEF CacheTypes, DeleteCacheItems

\* revalidate_blocks drops blocks whose peer is gone, and begins.
LEMMA BeginIInv ==
    ASSUME IInv, NEW t \in Threads, RevalidateNothing(t) \/ RevalidateBegin(t)
    PROVE  IInv'
<1> USE IInvParts
<1>0. ~processing /\ \A u \in Threads : ~Exec(th[u])
  BY ThreadInvRecords DEF RevalidateNothing, RevalidateBegin
<1>1. CASE RevalidateNothing(t)
  <2>1. CacheTypes'
    BY <1>1, DeleteTypes DEF RevalidateNothing
  <2>2. cached' \subseteq cached /\ \A b \in cached' : item'[b] = item[b]
    BY <1>1 DEF RevalidateNothing, DeleteCacheItems, CacheTypes
  <2>3. th' = th /\ processing' = processing
    BY <1>1 DEF RevalidateNothing, runVars
  <2>4. ThreadInv'
    BY <1>0, <2>2, <2>3, ThreadInvRecords, ThreadInvNext
  <2> QED BY SMTT(30), <1>1, <2>1, <2>4, IInvPartsNext
    DEF RevalidateNothing, chainVars, netVars, runVars, lockVars, ChainTypes,
        NetTypes, RunTypes, ThreadTypes
<1>2. CASE RevalidateBegin(t)
  <2> DEFINE r == [IdleThread EXCEPT !.pc = "item", !.todo = Due \ Orphans,
                                     !.del = Orphans, !.ibd = ibd]
  <2>1. Due \subseteq cached /\ Orphans \subseteq cached /\ cached \subseteq Blocks
    BY DEF Due, Orphans, CacheTypes
  <2>2. r \in ThreadRecords /\ r.pc = "item" /\ r.todo = Due \ Orphans
    BY ZenonT(30), <2>1 DEF IdleThread, ThreadRecords, LoopSteps, NetTypes
  <2>3. SetThread(t, r) /\ processing' = TRUE
        /\ UNCHANGED <<chainVars, netVars, cacheVars, validFork, lockVars>>
    BY <1>2 DEF RevalidateBegin
  <2> HIDE DEF r
  <2>4. ThreadTypes' /\ th'[t] = r /\ \A u \in Threads : u # t => th'[u] = th[u]
    BY <2>2, <2>3, OneThread
  <2>5. Exec(r) /\ GoodReturn(r) /\ Uses(r) \subseteq cached
    BY <2>1, <2>2 DEF Exec, LoopSteps, ProcessSteps, NextSteps, GoodReturn, Uses
  <2>6. cached' = cached /\ item' = item
    BY <2>3 DEF cacheVars
  <2>7. ThreadInv'
    BY <1>0, <2>3, <2>4, <2>5, <2>6, ThreadInvRecords, ThreadInvNext
  <2> QED BY <2>3, <2>4, <2>7, IInvPartsNext
    DEF chainVars, netVars, cacheVars, lockVars, ChainTypes, NetTypes, RunTypes,
        CacheTypes
<1> QED BY <1>1, <1>2

\* A step of ProcessNewBlock goes on with the same block, or returns to where
\* it was called from.
LEMMA ProcessStep ==
    ASSUME IInv, NEW t \in Threads, th[t].pc \in ProcessSteps,
           \/ \E res \in {"ok", "missing", "invalid"} : Return(t, res)
           \/ \E pc \in ProcessSteps : SetThread(t, [th[t] EXCEPT !.pc = pc]),
           UNCHANGED <<cached, item, processing>>
    PROVE  ThreadInv' /\ ThreadTypes'
<1> USE IInvParts
<1>0. /\ th[t].blk \in Blocks /\ th[t].ret \in {"idle", "received", "result"}
      /\ th[t] \in ThreadRecords
  BY SMTT(30), ThreadInvRecords DEF GoodReturn, ThreadTypes
<1>1. PICK r \in ThreadRecords :
        /\ SetThread(t, r) /\ (Exec(r) <=> Exec(th[t])) /\ GoodReturn(r)
        /\ Exec(r) => Uses(r) = Uses(th[t]) /\ Own(r) = Own(th[t])
  <2>1. ASSUME NEW res \in {"ok", "missing", "invalid"}, Return(t, res),
               th[t].ret = "idle"
        PROVE  /\ SetThread(t, IdleThread) /\ IdleThread \in ThreadRecords
               /\ GoodReturn(IdleThread) /\ ~Exec(IdleThread) /\ ~Exec(th[t])
    BY <2>1, <1>0, Blanks
    DEF Return, IdleThread, Exec, LoopSteps, ProcessSteps, NextSteps, GoodReturn
  <2>2. ASSUME NEW res \in {"ok", "missing", "invalid"}, Return(t, res),
               th[t].ret # "idle",
               NEW q, q = [th[t] EXCEPT !.pc = th[t].ret, !.res = res]
        PROVE  /\ SetThread(t, q) /\ q \in ThreadRecords
               /\ GoodReturn(q) /\ (Exec(q) <=> Exec(th[t]))
               /\ Exec(q) => Uses(q) = Uses(th[t]) /\ Own(q) = Own(th[t])
    <3>1. /\ q \in ThreadRecords /\ q.pc = th[t].ret /\ q.ret = th[t].ret
          /\ q.blk = th[t].blk /\ q.todo = th[t].todo /\ q.del = th[t].del
          /\ q.rej = th[t].rej
      BY ZenonT(30), <1>0, <2>2 DEF ThreadRecords, LoopSteps
    <3>2. SetThread(t, q)
      BY <2>2 DEF Return
    <3> QED BY <3>1, <3>2, <2>2, <1>0
      DEF Exec, LoopSteps, ProcessSteps, NextSteps, GoodReturn, Uses, Own
  <2>3. ASSUME NEW pc \in ProcessSteps, NEW q, q = [th[t] EXCEPT !.pc = pc]
        PROVE  /\ q \in ThreadRecords
               /\ GoodReturn(q) /\ (Exec(q) <=> Exec(th[t]))
               /\ Exec(q) => Uses(q) = Uses(th[t]) /\ Own(q) = Own(th[t])
    <3>1. /\ q \in ThreadRecords /\ q.pc = pc /\ q.ret = th[t].ret
          /\ q.blk = th[t].blk /\ q.todo = th[t].todo /\ q.del = th[t].del
          /\ q.rej = th[t].rej
      BY ZenonT(30), <1>0, <2>3 DEF ThreadRecords
    <3> QED BY <3>1, <1>0
      DEF Exec, LoopSteps, ProcessSteps, NextSteps, GoodReturn, Uses, Own
  <2>4. CASE \E res \in {"ok", "missing", "invalid"} : Return(t, res)
    BY <2>1, <2>2, <2>4
  <2>5. CASE \E pc \in ProcessSteps : SetThread(t, [th[t] EXCEPT !.pc = pc])
    BY <2>3, <2>5
  <2> QED BY <2>4, <2>5
<1> QED BY <1>1, ThreadInvRecords, ThreadStep, OneThread

\* ProcessNewBlock: whatever it finds, the block index keeps its types.
LEMMA ProcessNewBlockIInv ==
    ASSUME IInv, NEW t \in Threads,
           ProcessNewBlock(t) \/ AcceptBlock(t) \/ ActivateNew(t)
    PROVE  IInv'
<1> USE IInvParts
<1> DEFINE b == th[t].blk
<1>0. th[t].pc \in ProcessSteps
  BY DEF ProcessNewBlock, AcceptBlock, ActivateNew, ProcessSteps
<1>1. b \in Blocks /\ th[t].res \in {"ok", "missing", "invalid"}
  BY SMTT(30), <1>0, ThreadInvRecords DEF GoodReturn, ThreadTypes, ThreadRecords
<1>2. CASE ProcessNewBlock(t)
  <2>1. \/ \E res \in {"ok", "missing", "invalid"} : Return(t, res)
        \/ \E pc \in ProcessSteps : SetThread(t, [th[t] EXCEPT !.pc = pc])
    BY <1>1, <1>2 DEF ProcessNewBlock, ProcessSteps
  <2>2. UNCHANGED <<cached, item, unlinked, processing, validFork, cacheLock>>
        /\ csMain' \in {t, NoThread} /\ UNCHANGED chainVars
    BY <1>2 DEF ProcessNewBlock, Return, cacheVars, runVars
  <2>3. ThreadInv' /\ ThreadTypes'
    BY <1>0, <2>1, <2>2, ProcessStep
  <2>4. NetTypes'
    BY <1>2 DEF ProcessNewBlock, NetTypes
  <2>5. ChainTypes' /\ CacheTypes' /\ RunTypes'
    BY <2>2 DEF chainVars, ChainTypes, CacheTypes, RunTypes
  <2> QED BY <2>3, <2>4, <2>5, IInvPartsNext
<1>3. CASE AcceptBlock(t)
  <2>1. \/ \E res \in {"ok", "missing", "invalid"} : Return(t, res)
        \/ \E pc \in ProcessSteps : SetThread(t, [th[t] EXCEPT !.pc = pc])
    BY <1>3 DEF AcceptBlock, AcceptFailed, AcceptKnown, AcceptData, Accepted,
                ProcessSteps
  <2>2. UNCHANGED <<cached, item, processing, validFork, cacheLock, netVars>>
        /\ csMain' = NoThread
    BY <1>3 DEF AcceptBlock, AcceptFailed, AcceptKnown, AcceptData, Accepted,
                Return, runVars
  <2>3. ThreadInv' /\ ThreadTypes'
    BY <1>0, <2>1, <2>2, ProcessStep
  <2>4. unlinked' \in SUBSET (Blocks \X Blocks)
    BY <1>1, <1>3, CheckPrevTypes DEF AcceptBlock
  <2>5. ChainTypes'
    <3>1. CASE AcceptFailed(t, b)
      BY <3>1, <1>1 DEF AcceptFailed, ChainTypes
    <3>2. CASE AcceptKnown(t, b)
      BY <3>2 DEF AcceptKnown, chainVars, ChainTypes
    <3>3. CASE AcceptData(t, b)
      <4>1. PICK link \in UpdateChainTx(b, data', linked \ {b}, waiting) :
              SetChainTx(link)
        BY <3>3 DEF AcceptData
      <4>2. linked' \in SUBSET Blocks /\ waiting' \in SUBSET Blocks
        BY ZenonT(30), <4>1, <1>1, UpdateTypes DEF SetChainTx, ChainTypes
      <4> QED BY <3>3, <4>2, <1>1 DEF AcceptData, ChainTypes
    <3> QED BY <1>3, <3>1, <3>2, <3>3 DEF AcceptBlock
  <2>6. CacheTypes' /\ NetTypes' /\ RunTypes'
    BY <2>2, <2>4 DEF netVars, CacheTypes, NetTypes, RunTypes
  <2> QED BY <2>3, <2>5, <2>6, IInvPartsNext
<1>4. CASE ActivateNew(t)
  <2>1. ChainTypes' /\ Return(t, "ok")
        /\ UNCHANGED <<netVars, cacheVars, runVars, cacheLock>>
    BY <1>4, ActivateTypes DEF ActivateNew
  <2>2. ThreadInv' /\ ThreadTypes'
    BY <1>0, <2>1, ProcessStep DEF cacheVars, runVars
  <2>3. CacheTypes' /\ NetTypes' /\ RunTypes'
    BY <2>1 DEF Return, netVars, cacheVars, runVars, CacheTypes, NetTypes, RunTypes
  <2> QED BY <2>1, <2>2, <2>3, IInvPartsNext
<1> QED BY <1>2, <1>3, <1>4

\* add_block.
LEMMA AddBlockIInv ==
    ASSUME IInv, NEW t \in Threads, AddBlock(t) \/ AddBlockInsert(t)
    PROVE  IInv'
<1> USE IInvParts
<1> DEFINE b == th[t].blk
<1>0. b \in Blocks /\ th[t] \in ThreadRecords /\ ~Exec(th[t])
  BY ThreadInvRecords DEF AddBlock, AddBlockInsert, GoodReturn, ThreadTypes, Exec,
     LoopSteps, ProcessSteps
<1>1. PICK r \in ThreadRecords : SetThread(t, r) /\ ~Exec(r) /\ GoodReturn(r)
  <2> DEFINE q == [th[t] EXCEPT !.pc = "addMain"]
  <2>1. q \in ThreadRecords /\ ~Exec(q) /\ GoodReturn(q)
    BY <1>0 DEF ThreadRecords, Exec, LoopSteps, ProcessSteps, NextSteps, GoodReturn
  <2>2. ~Exec(IdleThread) /\ GoodReturn(IdleThread)
    BY DEF IdleThread, Exec, LoopSteps, ProcessSteps, NextSteps, GoodReturn
  <2> QED BY <2>1, <2>2, Blanks DEF AddBlock, AddBlockInsert
<1>2. processing' = processing
  BY DEF AddBlock, AddBlockInsert, runVars
<1>3. \A i \in Items : Added(i) \in Items /\ ~Added(i).revalidating
  BY Zenon DEF Items, Added
<1>4. /\ cached \subseteq cached' /\ CacheTypes'
      /\ \A c \in cached' : item'[c].revalidating =>
           c \in cached /\ item[c].revalidating
  <2>1. CASE AddBlock(t)
    BY <2>1, <1>0, <1>3 DEF AddBlock, CacheTypes
  <2>2. CASE AddBlockInsert(t)
    <3> DEFINE new == [BlankItem EXCEPT !.node = th[t].peer,
                         !.height = IF b \in index THEN height[b] ELSE 0]
    <3>1. new \in Items /\ ~new.revalidating
      BY Zenon, <1>0, CacheAssumptions DEF BlankItem, Items, ThreadRecords
    <3>2. item' = [item EXCEPT ![b] = new] /\ cached' = cached \cup {b}
          /\ unlinked' = unlinked
      BY <2>2 DEF AddBlockInsert
    <3> HIDE DEF new
    <3> QED BY <3>1, <3>2, <1>0 DEF CacheTypes
  <2> QED BY <2>1, <2>2
<1>5. ThreadInv' /\ ThreadTypes'
  BY <1>0, <1>1, <1>2, <1>4, ThreadStep, OneThread
<1> QED BY <1>4, <1>5, IInvPartsNext
    DEF AddBlock, AddBlockInsert, chainVars, netVars, runVars, ChainTypes,
        NetTypes, RunTypes

\* What a thread in the loop may rely on.
LEMMA LoopFacts ==
    ASSUME IInv, NEW t \in Threads, th[t].pc \in LoopSteps
    PROVE  /\ th[t] \in ThreadRecords /\ Exec(th[t]) /\ cached \subseteq Blocks
           /\ th[t].todo \subseteq cached
           /\ th[t].pc # "item" => th[t].blk \in cached
BY SMTT(30), IInvParts, ThreadInvRecords DEF ThreadTypes, CacheTypes, Exec, Uses

\* A step of the loop that stays in it, with the block at hand or with none.
LEMMA LoopStep ==
    ASSUME IInv, NEW t \in Threads, th[t].pc \in LoopSteps,
           NEW r \in ThreadRecords, SetThread(t, r), r.pc \in LoopSteps,
           GoodReturn(r), UNCHANGED <<cached, processing>>,
           r.todo \subseteq cached, r.pc # "item" => r.blk \in cached,
           th[t].del \subseteq r.del, th[t].rej \subseteq r.rej,
           \A b \in cached : item'[b].revalidating => item[b].revalidating,
           \/ th[t].pc = "item"
           \/ r.pc # "item" /\ r.blk = th[t].blk
           \/ th[t].blk \in r.del \cup r.rej
           \/ ~item'[th[t].blk].revalidating
    PROVE  ThreadInv' /\ ThreadTypes'
<1> USE IInvParts
<1>1. Exec(r) /\ Exec(th[t]) /\ Uses(r) \subseteq cached
  BY DEF Exec, Uses
<1>2. \A b \in cached : item'[b].revalidating /\ b \in Own(th[t]) => b \in Own(r)
  BY DEF Own
<1> QED BY <1>1, <1>2, ThreadStep, OneThread

\* The loop takes the next item.
LEMMA NextItemIInv ==
    ASSUME IInv, NEW t \in Threads, NEW b \in Blocks, NextItem(t, b)
    PROVE  IInv'
<1> USE IInvParts
<1>0. th[t].pc \in LoopSteps /\ th[t].pc = "item" /\ b \in th[t].todo
  BY DEF NextItem, LoopSteps
<1>1. PICK pc \in {"item", "lookup"}, del \in {th[t].del, th[t].del \cup {b}} :
        SetThread(t, [th[t] EXCEPT !.todo = @ \ {b}, !.blk = b, !.del = del,
                                   !.pc = pc])
  BY DEF NextItem
<1> DEFINE r == [th[t] EXCEPT !.todo = @ \ {b}, !.blk = b, !.del = del,
                              !.pc = pc]
<1>2. /\ r \in ThreadRecords /\ r.pc = pc /\ r.blk = b
      /\ r.todo = th[t].todo \ {b} /\ r.del = del /\ r.rej = th[t].rej
  BY ZenonT(30), <1>0, LoopFacts DEF ThreadRecords, LoopSteps
<1>3. SetThread(t, r)
  BY <1>1
<1> HIDE DEF r
<1>4. GoodReturn(r) /\ r.pc \in LoopSteps
  BY <1>2 DEF GoodReturn, LoopSteps, ProcessSteps, NextSteps
<1>5. UNCHANGED <<cached, item, processing>>
  BY DEF NextItem, cacheVars, runVars
<1>6. ThreadInv' /\ ThreadTypes'
  BY <1>0, <1>2, <1>3, <1>4, <1>5, LoopFacts, LoopStep
<1> QED BY <1>6, IInvPartsNext
    DEF NextItem, chainVars, netVars, cacheVars, runVars, lockVars, ChainTypes,
        NetTypes, CacheTypes, RunTypes

\* The block is looked up in the index and reconsidered.
LEMMA LookupIInv ==
    ASSUME IInv, NEW t \in Threads, Lookup(t)
    PROVE  IInv'
<1> USE IInvParts
<1> DEFINE b == th[t].blk
           p == [th[t] EXCEPT !.pc = "mark"]
           q == [th[t] EXCEPT !.pc = "next", !.ret = "item", !.del = @ \cup {b}]
<1>0. th[t].pc \in LoopSteps /\ th[t].pc = "lookup"
  BY DEF Lookup, LoopSteps
<1>1. b \in cached /\ b \in Blocks /\ th[t] \in ThreadRecords
  BY <1>0, LoopFacts
<1>2. /\ p \in ThreadRecords /\ p.pc = "mark" /\ p.blk = b /\ p.todo = th[t].todo
      /\ p.del = th[t].del /\ p.rej = th[t].rej
  BY <1>1 DEF ThreadRecords, LoopSteps
<1>3. /\ q \in ThreadRecords /\ q.pc = "next" /\ q.blk = b /\ q.todo = th[t].todo
      /\ q.del = th[t].del \cup {b} /\ q.rej = th[t].rej /\ q.ret = "item"
  BY Zenon, <1>1 DEF ThreadRecords, LoopSteps
<1>4. /\ CacheTypes' /\ ChainTypes' /\ validFork' \in BOOLEAN
      /\ \A c \in cached : item'[c].revalidating = item[c].revalidating
  <2>1. CASE UNCHANGED <<chainVars, item, validFork>>
    BY <2>1 DEF Lookup, chainVars, ChainTypes, CacheTypes, RunTypes
  <2>2. CASE \E h \in BestHeaders : LookupBlock(t, b, h)
    <3>1. PICK h \in BestHeaders : LookupBlock(t, b, h)
      BY <2>2
    <3>2. ChainTypes'
      BY <3>1, <1>1, ReconsiderTypes DEF LookupBlock, chainVars, ChainTypes
    <3>3. (item[b].forked \/ OffActive(b)) \in BOOLEAN
      BY <1>1 DEF CacheTypes, Items, OffActive
    <3>4. PICK f \in BOOLEAN : item' = [item EXCEPT ![b].forked = f]
      BY Zenon, <3>1, <3>3 DEF LookupBlock
    <3>5. CacheTypes' /\ \A c \in cached : item'[c].revalidating = item[c].revalidating
      BY <3>4, <1>1 DEF Lookup, CacheTypes, Items
    <3>6. validFork' \in BOOLEAN
      BY <3>1 DEF LookupBlock, RunTypes
    <3> QED BY <3>2, <3>5, <3>6
  <2> QED BY <2>1, <2>2 DEF Lookup
<1>5. SetThread(t, p) \/ SetThread(t, q)
  BY DEF Lookup, LookupBlock
<1> HIDE DEF p, q
<1>6. GoodReturn(p) /\ GoodReturn(q) /\ {p.pc, q.pc} \subseteq LoopSteps
  BY <1>2, <1>3 DEF GoodReturn, LoopSteps, ProcessSteps, NextSteps
<1>7. UNCHANGED <<cached, processing>>
  BY DEF Lookup
<1>8. CASE SetThread(t, p)
  <2>1. ThreadInv' /\ ThreadTypes'
    BY <1>0, <1>1, <1>2, <1>4, <1>6, <1>7, <1>8, LoopFacts, LoopStep
  <2> QED BY SMTT(30), <2>1, <1>4, IInvPartsNext DEF Lookup, netVars, lockVars, NetTypes,
        RunTypes
<1>9. CASE SetThread(t, q)
  <2>1. ThreadInv' /\ ThreadTypes'
    BY <1>0, <1>1, <1>3, <1>4, <1>6, <1>7, <1>9, LoopFacts, LoopStep
  <2> QED BY <2>1, <1>4, IInvPartsNext DEF Lookup, netVars, lockVars, NetTypes,
        RunTypes
<1> QED BY <1>5, <1>8, <1>9

\* The item is marked and handed to ProcessNewBlock.
LEMMA RevalidateIInv ==
    ASSUME IInv, NEW t \in Threads, Revalidate(t)
    PROVE  IInv'
<1> USE IInvParts
<1> DEFINE b == th[t].blk
<1>0. th[t].pc \in LoopSteps /\ th[t].pc = "mark"
  BY DEF Revalidate, LoopSteps
<1>1. b \in cached /\ b \in Blocks /\ th[t] \in ThreadRecords
  BY <1>0, LoopFacts
<1>2. PICK r \in ThreadRecords :
        /\ SetThread(t, r) /\ r.pc = "process" /\ r.ret = "result"
        /\ r.blk = b /\ r.todo = th[t].todo /\ r.del = th[t].del
        /\ r.rej = th[t].rej
  <2> DEFINE c == [th[t] EXCEPT !.ret = "result"]
  <2>1. PICK res \in {"ok", "missing", "invalid"} :
           SetThread(t, [c EXCEPT !.pc = "process", !.res = res])
    BY CheckBlockResult DEF Revalidate, CallProcessNewBlock
  <2>2. LET q == [c EXCEPT !.pc = "process", !.res = res]
        IN  /\ q \in ThreadRecords /\ q.pc = "process" /\ q.ret = "result"
            /\ q.blk = b /\ q.todo = th[t].todo /\ q.del = th[t].del
            /\ q.rej = th[t].rej
    BY ZenonT(30), <1>1 DEF ThreadRecords, ProcessSteps
  <2> QED BY <2>1, <2>2
<1>3. UNCHANGED <<cached, processing>>
  BY DEF Revalidate, runVars
<1>4. CacheTypes' /\ \A c \in cached : c # b => item'[c] = item[c]
  BY ZenonT(30), <1>1 DEF Revalidate, CacheTypes, Items
<1>5. Exec(r) /\ GoodReturn(r) /\ Uses(r) = Uses(th[t]) /\ Own(r) = Own(th[t])
      /\ b \in Own(r) /\ Exec(th[t])
  BY <1>0, <1>1, <1>2 DEF Exec, ProcessSteps, NextSteps, GoodReturn, Uses, Own
<1>6. ThreadInv /\ ThreadTypes
  BY IInvParts
<1>7. ThreadTypes'
  BY <1>2, <1>3, <1>6, OneThread
<1>8. Uses(r) \subseteq cached
  BY <1>5, <1>6, ThreadInvRecords
<1>9. \A c \in cached : item'[c].revalidating =>
         \/ Exec(r) /\ c \in Own(r)
         \/ /\ c \in cached /\ item[c].revalidating
            /\ Exec(th[t]) /\ c \in Own(th[t]) => c \in Own(r)
  BY <1>4, <1>5
<1>10. ThreadInv'
  BY <1>2, <1>3, <1>5, <1>6, <1>8, <1>9, ThreadStep
<1> QED BY <1>4, <1>7, <1>10, IInvPartsNext
    DEF Revalidate, chainVars, netVars, runVars, lockVars, ChainTypes, NetTypes,
        RunTypes

\* Clearing the mark and the wait of an item.
LEMMA ClearedItem ==
    ASSUME CacheTypes, NEW b \in Blocks, UNCHANGED <<cached, unlinked>>,
           item' = [item EXCEPT ![b].revalidating = FALSE, ![b].ready = FALSE]
    PROVE  /\ CacheTypes' /\ ~item'[b].revalidating
           /\ \A c \in Blocks : item'[c].revalidating => item[c].revalidating
<1> DEFINE new == [item[b] EXCEPT !.revalidating = FALSE, !.ready = FALSE]
<1>1. new \in Items /\ ~new.revalidating
  BY Zenon DEF CacheTypes, Items
<1>2. item' = [item EXCEPT ![b] = new]
  BY Zenon DEF CacheTypes
<1> HIDE DEF new
<1> QED BY Zenon, <1>1, <1>2 DEF CacheTypes

\* The results of validation that end with the next item: missing again,
\* rejected, and checked after acceptance.
LEMMA ResultIInv ==
    ASSUME IInv, NEW t \in Threads,
           MissingAgain(t) \/ Rejected(t) \/ Verify(t)
    PROVE  IInv'
<1> USE IInvParts
<1> DEFINE b == th[t].blk
<1>0. th[t].pc \in LoopSteps /\ th[t].pc # "item"
  BY DEF MissingAgain, Rejected, Verify, LoopSteps
<1>1. b \in cached /\ b \in Blocks /\ th[t] \in ThreadRecords
  BY <1>0, LoopFacts
<1>2. /\ CacheTypes' /\ cached' = cached
      /\ \A c \in cached : item'[c].revalidating => item[c].revalidating
  <2>1. CASE MissingAgain(t)
    BY <2>1, <1>1, ClearedItem DEF MissingAgain, CacheTypes
  <2>2. CASE Rejected(t)
    BY <2>2 DEF Rejected, CacheTypes, cacheVars
  <2>3. CASE Verify(t)
    <3>1. CASE b \in chain[tip]
      BY SMTT(30), <2>3, <3>1 DEF Verify, CacheTypes
    <3>2. CASE b \notin chain[tip]
      BY Zenon, <2>3, <3>2, <1>1, ClearedItem DEF Verify, CacheTypes
    <3> QED BY <3>1, <3>2
  <2> QED BY SMTT(30), <2>1, <2>2, <2>3
<1>3. PICK del \in {th[t].del, th[t].del \cup {b}},
           rej \in {th[t].rej, th[t].rej \cup {b}} :
        /\ SetThread(t, [th[t] EXCEPT !.pc = "item", !.del = del, !.rej = rej])
        /\ b \in del \cup rej \/ ~item'[b].revalidating
  <2>1. CASE MissingAgain(t)
    <3>1. ~item'[b].revalidating
      BY <2>1, <1>1, ClearedItem DEF MissingAgain
    <3>3. PICK rej \in {th[t].rej, th[t].rej \cup {b}} :
            SetThread(t, [th[t] EXCEPT !.pc = "item", !.rej = rej])
      BY <2>1 DEF MissingAgain
    <3>4. [th[t] EXCEPT !.pc = "item", !.rej = rej]
            = [th[t] EXCEPT !.pc = "item", !.del = th[t].del, !.rej = rej]
      BY <1>1 DEF ThreadRecords
    <3> QED BY <3>1, <3>3, <3>4
  <2>2. CASE Rejected(t)
    <3>1. [th[t] EXCEPT !.pc = "item", !.rej = @ \cup {b}]
            = [th[t] EXCEPT !.pc = "item", !.del = th[t].del,
                            !.rej = th[t].rej \cup {b}]
      BY <1>1 DEF ThreadRecords
    <3> QED BY <2>2, <3>1 DEF Rejected
  <2>3. CASE Verify(t)
    <3>1. PICK del \in {th[t].del, th[t].del \cup {b}} :
            /\ SetThread(t, [th[t] EXCEPT !.pc = "item", !.del = del])
            /\ b \in del \/ ~item'[b].revalidating
      BY Zenon, <2>3, <1>1 DEF Verify, CacheTypes, Items
    <3>2. [th[t] EXCEPT !.pc = "item", !.del = del]
            = [th[t] EXCEPT !.pc = "item", !.del = del, !.rej = th[t].rej]
      BY Zenon, <1>1 DEF ThreadRecords
    <3> QED BY <3>1, <3>2
  <2> QED BY <2>1, <2>2, <2>3
<1> DEFINE r == [th[t] EXCEPT !.pc = "item", !.del = del, !.rej = rej]
<1>4. /\ r \in ThreadRecords /\ r.pc = "item" /\ r.todo = th[t].todo
      /\ r.del = del /\ r.rej = rej
  BY ZenonT(30), <1>1 DEF ThreadRecords, LoopSteps
<1>5. SetThread(t, r) /\ processing' = processing
  BY <1>3 DEF MissingAgain, Rejected, Verify, runVars
<1> HIDE DEF r
<1>6. GoodReturn(r) /\ r.pc \in LoopSteps
  BY <1>4 DEF GoodReturn, LoopSteps, ProcessSteps, NextSteps
<1>7. ThreadInv' /\ ThreadTypes'
  BY <1>0, <1>1, <1>2, <1>3, <1>4, <1>5, <1>6, LoopFacts, LoopStep
<1> QED BY <1>2, <1>7, IInvPartsNext
    DEF MissingAgain, Rejected, Verify, chainVars, netVars, runVars, lockVars,
        ChainTypes, NetTypes, RunTypes

\* The block of a forked chain is reconsidered after it failed.
LEMMA ReconsiderForkedIInv ==
    ASSUME IInv, NEW t \in Threads, ReconsiderForked(t)
    PROVE  IInv'
<1> USE IInvParts
<1> DEFINE b == th[t].blk
           r == [th[t] EXCEPT !.pc = "failed"]
<1>0. th[t].pc \in LoopSteps /\ th[t].pc # "item"
  BY DEF ReconsiderForked, LoopSteps
<1>1. b \in cached /\ b \in Blocks /\ th[t] \in ThreadRecords
  BY <1>0, LoopFacts
<1>2. /\ r \in ThreadRecords /\ r.pc = "failed" /\ r.blk = b
      /\ r.todo = th[t].todo /\ r.del = th[t].del /\ r.rej = th[t].rej
  BY <1>1 DEF ThreadRecords, LoopSteps
<1>3. SetThread(t, r) /\ UNCHANGED <<cached, item, processing>>
  BY DEF ReconsiderForked, cacheVars, runVars
<1> HIDE DEF r
<1>4. GoodReturn(r) /\ r.pc \in LoopSteps
  BY SMTT(30), <1>2 DEF GoodReturn, LoopSteps, ProcessSteps, NextSteps
<1>5. ThreadInv' /\ ThreadTypes'
  BY <1>0, <1>1, <1>2, <1>3, <1>4, LoopFacts, LoopStep
<1>6. ChainTypes'
  BY <1>1, ReconsiderTypes DEF ReconsiderForked, chainVars, ChainTypes
<1> QED BY <1>5, <1>6, IInvPartsNext
    DEF ReconsiderForked, netVars, cacheVars, runVars, lockVars, NetTypes,
        CacheTypes, RunTypes

\* A step of ProcessNextBlockAndActivateBestChain stays in the loop, with the
\* same block unless that one is to be deleted.
LEMMA NextStep ==
    ASSUME IInv, NEW t \in Threads, th[t].pc \in LoopSteps \ {"item"},
           UNCHANGED <<cached, item, processing>>,
           NEW r \in ThreadRecords, SetThread(t, r), r.pc \in LoopSteps,
           GoodReturn(r), r.blk = th[t].blk, r.todo = th[t].todo,
           r.del = th[t].del, r.rej = th[t].rej,
           r.pc = "item" => r.blk \in r.del
    PROVE  ThreadInv' /\ ThreadTypes'
BY LoopFacts, LoopStep

\* ProcessNextBlock takes the next blocks from m_UnlinkedMap.
LEMMA CollectNextIInv ==
    ASSUME IInv, NEW t \in Threads, CollectNext(t)
    PROVE  IInv'
<1> USE IInvParts
<1> DEFINE b == th[t].blk
           back == IF th[t].pc = "next" THEN th[t].ret ELSE "verify"
           found == {c \in Blocks : <<th[t].blk, c>> \in unlinked}
           r == [th[t] EXCEPT !.pc = "link", !.updated = FALSE, !.done = {},
                              !.ret = back, !.nexts = found]
<1>0. th[t].pc \in LoopSteps \ {"item"} /\ th[t].pc \in {"result", "next"}
  BY DEF CollectNext, LoopSteps
<1>1. th[t] \in ThreadRecords /\ GoodReturn(th[t])
  BY SMTT(30), <1>0, LoopFacts, ThreadInvRecords
<1>2. /\ back \in {"verify", "item"} /\ found \in SUBSET Blocks
      /\ back = "item" => b \in th[t].del
  BY <1>0, <1>1 DEF GoodReturn, NextSteps
<1>3. SetThread(t, r)
      /\ UNCHANGED <<chainVars, netVars, cacheVars, runVars, lockVars>>
  BY DEF CollectNext
<1> HIDE DEF back, found
<1>4. /\ r \in ThreadRecords /\ r.pc = "link" /\ r.ret = back /\ r.blk = b
      /\ r.todo = th[t].todo /\ r.del = th[t].del /\ r.rej = th[t].rej
  BY ZenonT(30), <1>1, <1>2 DEF ThreadRecords, LoopSteps
<1> HIDE DEF r
<1>5. GoodReturn(r) /\ r.pc \in LoopSteps
  BY <1>2, <1>4 DEF GoodReturn, LoopSteps, ProcessSteps, NextSteps
<1>6. ThreadInv' /\ ThreadTypes'
  BY <1>0, <1>3, <1>4, <1>5, NextStep DEF cacheVars, runVars
<1> QED BY <1>3, <1>6, IInvPartsNext
    DEF chainVars, netVars, cacheVars, runVars, lockVars, ChainTypes, NetTypes,
        CacheTypes, RunTypes

\* It links one of them.
LEMMA LinkNextIInv ==
    ASSUME IInv, NEW t \in Threads, NEW n \in Blocks, LinkNext(t, n)
    PROVE  IInv'
<1> USE IInvParts
<1> DEFINE b == th[t].blk
           upd == th[t].updated \/ n \notin chain[tip]
           r == [th[t] EXCEPT !.nexts = @ \ {n}, !.done = @ \cup {n},
                              !.updated = upd]
<1>0. th[t].pc \in LoopSteps \ {"item"} /\ th[t].pc = "link"
  BY DEF LinkNext, LoopSteps
<1>1. th[t] \in ThreadRecords /\ GoodReturn(th[t])
  BY SMTT(30), <1>0, LoopFacts, ThreadInvRecords
<1>2. upd \in BOOLEAN
  BY SMTT(30), <1>1 DEF ThreadRecords
<1>3. SetThread(t, r) /\ csMain' = t
      /\ UNCHANGED <<index, failed, data, tip, netVars, cacheVars, runVars, cacheLock>>
  BY DEF LinkNext
<1> HIDE DEF upd
<1>4. /\ r \in ThreadRecords /\ r.pc = th[t].pc /\ r.ret = th[t].ret
      /\ r.blk = b /\ r.todo = th[t].todo /\ r.del = th[t].del
      /\ r.rej = th[t].rej
  BY ZenonT(30), <1>1, <1>2 DEF ThreadRecords
<1> HIDE DEF r
<1>5. GoodReturn(r)
  BY <1>1, <1>4 DEF GoodReturn
<1>6. ThreadInv' /\ ThreadTypes'
  BY <1>0, <1>3, <1>4, <1>5, NextStep DEF cacheVars, runVars
<1>7. ChainTypes'
  <2>1. CASE n \in chain[tip]
    BY ZenonT(30), <2>1, <1>3 DEF LinkNext, ChainTypes
  <2>2. CASE n \notin chain[tip]
    <3>1. PICK link \in UpdateChainTx(n, data, linked, waiting) : SetChainTx(link)
      BY Zenon, <2>2 DEF LinkNext
    <3>2. linked' \in SUBSET Blocks /\ waiting' \in SUBSET Blocks
      BY ZenonT(30), <3>1, UpdateTypes DEF SetChainTx, ChainTypes
    <3> QED BY ZenonT(30), <1>3, <3>2 DEF ChainTypes
  <2> QED BY <2>1, <2>2
<1>8. NetTypes' /\ CacheTypes' /\ RunTypes'
  BY <1>3 DEF netVars, cacheVars, runVars, NetTypes, CacheTypes, RunTypes
<1> QED BY <1>6, <1>7, <1>8, IInvPartsNext

\* It leaves cs_main, erases what it linked, and activates the best chain.
LEMMA LinkEndIInv ==
    ASSUME IInv, NEW t \in Threads,
           LinkEnd(t) \/ EraseLinked(t) \/ ActivateNext(t)
    PROVE  IInv'
<1> USE IInvParts
<1> DEFINE b == th[t].blk
<1>0. th[t].pc \in LoopSteps \ {"item"} /\ th[t].pc \in NextSteps
  BY DEF LinkEnd, EraseLinked, ActivateNext, LoopSteps, NextSteps
<1>1. th[t] \in ThreadRecords /\ GoodReturn(th[t])
  BY SMTT(30), <1>0, LoopFacts, ThreadInvRecords
<1>2. th[t].ret = "verify" \/ (th[t].ret = "item" /\ b \in th[t].del)
  BY <1>0, <1>1 DEF GoodReturn
<1>3. PICK pc \in {"unlink", "activateNext", th[t].ret} :
         SetThread(t, [th[t] EXCEPT !.pc = pc])
  BY DEF LinkEnd, EraseLinked, ActivateNext
<1> DEFINE r == [th[t] EXCEPT !.pc = pc]
<1>4. /\ r \in ThreadRecords /\ r.pc = pc /\ r.ret = th[t].ret
      /\ r.blk = b /\ r.todo = th[t].todo /\ r.del = th[t].del
      /\ r.rej = th[t].rej
  <2>1. pc \in LoopSteps
    BY <1>2 DEF LoopSteps
  <2> QED BY <1>1, <2>1 DEF ThreadRecords
<1>5. SetThread(t, r)
  BY <1>3
<1> HIDE DEF r
<1>6. GoodReturn(r) /\ r.pc \in LoopSteps
  BY <1>2, <1>4 DEF GoodReturn, LoopSteps, ProcessSteps, NextSteps
<1>7. UNCHANGED <<cached, item, processing, validFork, netVars, cacheLock>>
      /\ csMain' \in {csMain, NoThread}
  BY DEF LinkEnd, EraseLinked, ActivateNext, cacheVars, runVars, lockVars
<1>8. ThreadInv' /\ ThreadTypes'
  BY <1>0, <1>2, <1>4, <1>5, <1>6, <1>7, NextStep
<1>9. ChainTypes'
  BY ActivateTypes DEF LinkEnd, EraseLinked, ActivateNext, chainVars, ChainTypes
<1>10. unlinked' \in SUBSET (Blocks \X Blocks)
  BY DEF LinkEnd, EraseLinked, ActivateNext, cacheVars, CacheTypes
<1>11. NetTypes' /\ CacheTypes' /\ RunTypes'
  BY <1>7, <1>10 DEF netVars, NetTypes, CacheTypes, RunTypes
<1> QED BY <1>8, <1>9, <1>11, IInvPartsNext

\* The end of revalidate_blocks: the only executor deletes what it owns.
LEMMA EndIInv ==
    ASSUME IInv, NEW t \in Threads, RevalidateEnd(t)
    PROVE  IInv'
<1> USE IInvParts
<1>0. th[t].pc \in LoopSteps /\ th[t].pc = "item"
  BY DEF RevalidateEnd, LoopSteps
<1>1. Exec(th[t]) /\ Own(th[t]) = th[t].del \cup th[t].rej
  BY <1>0 DEF Exec, Own
<1>2. \A u \in Threads : Exec(th[u]) => u = t
  BY <1>1, ThreadInvRecords
<1>3. SetThread(t, IdleThread) /\ processing' = FALSE
      /\ DeleteCacheItems(th[t].del \cup th[t].rej)
  BY DEF RevalidateEnd
<1>4. CacheTypes'
  BY <1>3, DeleteTypes
<1>5. ThreadTypes' /\ th'[t] = IdleThread
      /\ \A u \in Threads : u # t => th'[u] = th[u]
  BY <1>3, Blanks, OneThread
<1>6. ~Exec(IdleThread) /\ GoodReturn(IdleThread)
  BY DEF IdleThread, Exec, LoopSteps, ProcessSteps, NextSteps, GoodReturn
<1>7. \A u \in Threads : ~Exec(th'[u]) /\ GoodReturn(th'[u])
  BY <1>2, <1>5, <1>6, ThreadInvRecords
<1>8. \A b \in cached' : ~item'[b].revalidating
  <2> SUFFICES ASSUME NEW b \in cached' PROVE ~item'[b].revalidating
    OBVIOUS
  <2>1. b \in cached /\ b \notin Own(th[t]) /\ item'[b] = item[b]
    BY <1>1, <1>3 DEF DeleteCacheItems, CacheTypes
  <2> QED BY <2>1, <1>2, ThreadInvRecords
<1>9. ThreadInv'
  BY <1>3, <1>7, <1>8, ThreadInvNext
<1> QED BY Zenon, <1>4, <1>5, <1>9, <1>3, IInvPartsNext
    DEF RevalidateEnd, chainVars, netVars, lockVars, ChainTypes, NetTypes, RunTypes

-----------------------------------------------------------------------------
(***************************************************************************)
(* The theorems                                                            *)
(***************************************************************************)

\* Every step keeps the inductive invariant.
LEMMA NextIInv == IInv /\ [Next]_vars => IInv'
<1> SUFFICES ASSUME IInv, [Next]_vars PROVE IInv'
  OBVIOUS
<1>1. ASSUME NEW t \in Threads, Step(t) PROVE IInv'
  BY <1>1, ProcessNewBlockIInv, AddBlockIInv, NextItemIInv, LookupIInv,
     RevalidateIInv, ResultIInv, ReconsiderForkedIInv, CollectNextIInv,
     LinkNextIInv, LinkEndIInv, EndIInv
     DEF Step
<1>2. ASSUME NEW t \in MsgThreads,
             Receive(t) \/ RevalidateNothing(t) \/ RevalidateBegin(t)
      PROVE  IInv'
  <2>1. t \in Threads
    BY DEF Threads
  <2> QED BY <1>2, <2>1, RequestIInv, ArrivalIInv, BeginIInv DEF Receive
<1>3. ASSUME NEW t \in Submitters, NEW b \in Blocks, SubmitBlock(t, b)
      PROVE  IInv'
  BY <1>3, ArrivalIInv DEF Threads
<1>4. CASE Environment
  BY <1>4, EnvironmentIInv
<1>5. CASE UNCHANGED vars
  <2>1. ThreadInv'
    BY <1>5, QuietStep, IInvParts DEF vars, cacheVars, runVars
  <2> QED BY <1>5, <2>1, IInvParts, IInvPartsNext
    DEF vars, chainVars, netVars, cacheVars, runVars, lockVars, ChainTypes,
        NetTypes, CacheTypes, RunTypes, ThreadTypes
<1> QED BY <1>1, <1>2, <1>3, <1>4, <1>5 DEF Next

\* The inductive invariant holds in every state of every execution.
THEOREM Invariance == Spec => []IInv
BY InitIInv, NextIInv, PTL DEF Spec

\* The block index, the cache and the threads keep their types.
THEOREM TypeCorrect == Spec => []TypeOK
<1>1. IInv => TypeOK
  BY DEF IInv
<1> QED BY <1>1, Invariance, PTL

\* However many threads call revalidate_blocks, one at a time executes it.
THEOREM SingleExecutor == Spec => []OneExecutor
<1>1. IInv => OneExecutor
  BY DEF IInv
<1> QED BY <1>1, Invariance, PTL

\* The item pointers revalidate_blocks keeps while it releases the lock stay
\* valid until it has used them.
THEOREM PointersStayValid == Spec => []ItemsStay
<1>1. IInv => ItemsStay
  BY DEF IInv
<1> QED BY <1>1, Invariance, PTL

\* No item is left marked bRevalidating, and so skipped for ever, when
\* revalidate_blocks is through with it.
THEOREM NoItemLeftMarked == Spec => []MarkOwned
<1>1. IInv => MarkOwned
  BY DEF IInv
<1> QED BY <1>1, Invariance, PTL

=============================================================================
