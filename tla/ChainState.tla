---------------------------- MODULE ChainState ----------------------------
(***************************************************************************)
(* The chain state of the node: ConnectTip, DisconnectTip and              *)
(* FlushStateToDisk (src/src/main.cpp) on top of the coins views of        *)
(* CoinsCache, with crashes.                                               *)
(*                                                                         *)
(* db is the coin database, tip the cache gl_pCoinsTip over it and view    *)
(* the scratch cache over tip in which ConnectBlock and DisconnectBlock    *)
(* work.  All of it happens under cs_main, one block after the other; job  *)
(* is the place of the thread that holds it.  A process that is killed     *)
(* loses the caches and keeps what it handed to the files and databases.   *)
(*                                                                         *)
(* Scripts, amounts, maturity and the other rules that do not read or      *)
(* change these maps may reject a block at any moment.                     *)
(***************************************************************************)
EXTENDS Blockchain

VARIABLES
    db,         \* the coin database
    tip,        \* gl_pCoinsTip
    view,       \* the scratch view of the block at work
    active,     \* chainActive.Tip()
    rev,        \* the undo data in the rev files
    undoPos,    \* the blocks whose index entry in memory has an undo position
    diskUndoPos, \* the same in the block index database
    job         \* where the thread that holds cs_main is

vars == <<db, tip, view, active, rev, undoPos, diskUndoPos, job>>
others == <<db, active, rev, undoPos, diskUndoPos>>

Ready == [op |-> "none", blk |-> Genesis, pc |-> "ready", i |-> 0, j |-> 0,
          undo |-> <<>>, clean |-> TRUE]

\* A new node after InitBlockIndex, which connects the genesis block and
\* flushes the chain state.
Init ==
    /\ db = [coins |-> [k \in Txids |-> Absent], nullifiers |-> {},
             anchors |-> {}, best |-> Genesis, root |-> EmptyRoot]
    /\ tip = Cleared(Genesis, Absent)
    /\ view = Cleared(Absent, Absent)
    /\ active = Genesis
    /\ rev = [b \in Blocks |-> Absent]
    /\ undoPos = {}
    /\ diskUndoPos = {}
    /\ job = Ready

\* The transaction at work, and the job at another place.
Tx == vtx[job.blk][job.i]
At(pc, i, j) == [job EXCEPT !.pc = pc, !.i = i, !.j = j]
TxNullifiers == {Tx.nf} \ {Absent}

\* All inputs of the transaction are there; an undo record is begun.
Checked == [At("spend", job.i, 1) EXCEPT !.undo = Append(job.undo, <<>>)]

-----------------------------------------------------------------------------
(* Lookups through the caches.                                             *)

TipWithCoins(k) == FetchCoins(tip, k, db.coins[k])
TipWithNullifier(n) == FetchNullifier(tip, n, n \in db.nullifiers)
TipWithAnchor(r) == FetchAnchor(tip, r, DbHasAnchor(db, r))

\* What gl_pCoinsTip answers to the view.
CoinsInTip(k) == CachedCoins(TipWithCoins(k), k)
NullifierInTip(n) == TipWithNullifier(n).nullifiers[n].entered
AnchorInTip(r) == LET e == TipWithAnchor(r).anchors[r]
                  IN  e # Absent /\ e.entered
TipRoot == IF tip.root = Absent THEN db.root ELSE tip.root
ViewRoot == IF view.root = Absent THEN TipRoot ELSE view.root

\* gl_pCoinsTip after a lookup in the view: it is asked on a miss only.
TipAsked(k) == IF view.coins[k] = Absent THEN TipWithCoins(k) ELSE tip

\* Whether the view has the anchor r.
HaveAnchor(r) == IF view.anchors[r] # Absent THEN view.anchors[r].entered
                 ELSE AnchorInTip(r)

\* The memory pool, the miner or an RPC looks something up in gl_pCoinsTip.
ReadTip ==
    /\ job.pc = "ready"
    /\ \/ \E k \in Txids : tip' = TipWithCoins(k)
       \/ \E n \in Nullifiers : tip' = TipWithNullifier(n)
       \/ \E r \in Roots : tip' = TipWithAnchor(r)
    /\ UNCHANGED <<view, job, others>>

-----------------------------------------------------------------------------
(* ConnectTip and ConnectBlock.                                            *)

ConnectTip(b) ==
    /\ job.pc = "ready"
    /\ b # Genesis
    /\ parent[b] = active
    /\ tip' = [TipWithAnchor(TipRoot) EXCEPT !.root = TipRoot]
    /\ view' = [view EXCEPT !.best = tip.best]
    /\ job' = [Ready EXCEPT !.op = "connect", !.blk = b, !.pc = "bip30",
                            !.i = 1, !.j = 1]
    /\ UNCHANGED others

\* The block is refused, or was only being tested: the view is thrown away.
Abandon ==
    /\ view' = Cleared(Absent, Absent)
    /\ job' = Ready
    /\ UNCHANGED others

\* "Do not allow blocks that contain transactions which 'overwrite' older
\* transactions, unless those are already completely spent."
CheckBip30 ==
    /\ job.pc = "bip30"
    /\ tip' = TipAsked(Tx.id)
    /\ LET seen == FetchCoins(view, Tx.id, CoinsInTip(Tx.id))
           coins == CachedCoins(seen, Tx.id)
       IN  IF coins # Absent /\ ~IsPruned(coins) THEN Abandon
           ELSE /\ view' = seen
                /\ job' = IF job.i < Len(vtx[job.blk]) THEN At("bip30", job.i + 1, 1)
                          ELSE At("tree", 1, 1)
                /\ UNCHANGED others

\* The commitment tree at the best anchor; the coinbase has no inputs.
LoadTree ==
    /\ job.pc = "tree"
    /\ tip' = IF view.anchors[ViewRoot] = Absent THEN TipWithAnchor(ViewRoot) ELSE tip
    /\ view' = [FetchAnchor(view, ViewRoot, AnchorInTip(ViewRoot)) EXCEPT
                   !.root = ViewRoot]
    /\ job' = At("outputs", 1, 1)
    /\ UNCHANGED others

\* A mutant of HaveInput that looks for the transaction and not for the output.
HaveInputAtAll ==
    /\ job.pc = "inputs"
    /\ job.j <= Len(Tx.vin)
    /\ LET k == Tx.vin[job.j][1]
           seen == FetchCoins(view, k, CoinsInTip(k))
           coins == CachedCoins(seen, k)
       IN  /\ tip' = TipAsked(k)
           /\ IF coins = Absent THEN Abandon
              ELSE /\ view' = seen
                   /\ job' = At("inputs", job.i, job.j + 1)
                   /\ UNCHANGED others

\* HaveInputs, one input at a time.
HaveInput ==
    /\ job.pc = "inputs"
    /\ job.j <= Len(Tx.vin)
    /\ LET k == Tx.vin[job.j][1]
           seen == FetchCoins(view, k, CoinsInTip(k))
           coins == CachedCoins(seen, k)
       IN  /\ tip' = TipAsked(k)
           /\ IF coins = Absent \/ Tx.vin[job.j][2] \notin coins.outs THEN Abandon
              ELSE /\ view' = seen
                   /\ job' = At("inputs", job.i, job.j + 1)
                   /\ UNCHANGED others

\* HaveShieldedRequirements: the nullifier is new ...
CheckNullifier ==
    /\ job.pc = "inputs"
    /\ job.j > Len(Tx.vin)
    /\ IF Tx.nf = Absent
       THEN /\ job' = Checked
            /\ UNCHANGED <<tip, view, others>>
       ELSE /\ tip' = IF view.nullifiers[Tx.nf] = Absent
                      THEN TipWithNullifier(Tx.nf) ELSE tip
            /\ LET seen == FetchNullifier(view, Tx.nf, NullifierInTip(Tx.nf))
               IN  IF seen.nullifiers[Tx.nf].entered THEN Abandon
                   ELSE /\ view' = seen
                        /\ job' = At("anchor", job.i, 1)
                        /\ UNCHANGED others

\* A mutant of CheckAnchor that takes every anchor.
CheckNoAnchor ==
    /\ job.pc = "anchor"
    /\ tip' = IF view.anchors[Tx.anchor] = Absent THEN TipWithAnchor(Tx.anchor) ELSE tip
    /\ IF FALSE THEN Abandon
       ELSE /\ view' = FetchAnchor(view, Tx.anchor, AnchorInTip(Tx.anchor))
            /\ job' = Checked
            /\ UNCHANGED others

\* ... and the anchor is known.
CheckAnchor ==
    /\ job.pc = "anchor"
    /\ tip' = IF view.anchors[Tx.anchor] = Absent THEN TipWithAnchor(Tx.anchor) ELSE tip
    /\ IF ~HaveAnchor(Tx.anchor) THEN Abandon
       ELSE /\ view' = FetchAnchor(view, Tx.anchor, AnchorInTip(Tx.anchor))
            /\ job' = Checked
            /\ UNCHANGED others

\* UpdateCoins, one input at a time.  The undo record keeps the height of the
\* coins only when their last output is spent.
SpendInput ==
    /\ job.pc = "spend"
    /\ job.j <= Len(Tx.vin)
    /\ LET k == Tx.vin[job.j][1]
           entry == Opened(view, k, CoinsInTip(k))
           left == [entry.coins EXCEPT !.outs = @ \ {Tx.vin[job.j][2]}]
           kept == IF left.outs = {} THEN left.height ELSE 0
       IN  /\ view' = [view EXCEPT !.coins[k] = Closed(entry, left)]
           /\ tip' = TipAsked(k)
           /\ job' = [At("spend", job.i, job.j + 1) EXCEPT
                         !.undo[job.i - 1] = Append(@, kept)]
    /\ UNCHANGED others

\* A mutant of AddOutputs that looks for one transaction more.
AddOutputsPastEnd ==
    /\ \/ job.pc = "spend" /\ job.j > Len(Tx.vin)
       \/ job.pc = "outputs"
    /\ LET new == Closed(NewEntry, [outs |-> Tx.outs, height |-> height[job.blk]])
       IN  view' = [SetNullifiers(view, TxNullifiers, TRUE) EXCEPT !.coins[Tx.id] = new]
    /\ job' = IF job.i <= Len(vtx[job.blk]) THEN At("inputs", job.i + 1, 1)
              ELSE At("push", 1, 1)
    /\ UNCHANGED <<tip, others>>

\* UpdateCoins: the nullifier is marked and the outputs are added.
AddOutputs ==
    /\ \/ job.pc = "spend" /\ job.j > Len(Tx.vin)
       \/ job.pc = "outputs"
    /\ LET new == Closed(NewEntry, [outs |-> Tx.outs, height |-> height[job.blk]])
       IN  view' = [SetNullifiers(view, TxNullifiers, TRUE) EXCEPT !.coins[Tx.id] = new]
    /\ job' = IF job.i < Len(vtx[job.blk]) THEN At("inputs", job.i + 1, 1)
              ELSE At("push", 1, 1)
    /\ UNCHANGED <<tip, others>>

\* The end of ConnectBlock.  Undo data is written unless the index entry of the
\* block has a position for it already.
FinishConnect ==
    /\ job.pc = "push"
    /\ view' = [PushAnchor(view, ViewRoot, rootOf[job.blk]) EXCEPT !.best = job.blk]
    /\ rev' = IF job.blk \in undoPos THEN rev ELSE [rev EXCEPT ![job.blk] = job.undo]
    /\ undoPos' = undoPos \cup {job.blk}
    /\ job' = At("commit", 1, 1)
    /\ UNCHANGED <<db, tip, active, diskUndoPos>>

\* ConnectBlock fails one of the checks that the model leaves out.
RejectBlock ==
    /\ job.op = "connect"
    /\ job.pc \notin {"committed", "indexed", "done"}
    /\ Abandon
    /\ UNCHANGED tip

-----------------------------------------------------------------------------
(* DisconnectTip and DisconnectBlock.  Without undo data they do nothing.  *)

DisconnectTip ==
    /\ job.pc = "ready"
    /\ active # Genesis
    /\ active \in undoPos
    /\ rev[active] # Absent
    /\ Len(rev[active]) + 1 = Len(vtx[active])
    /\ tip' = [tip EXCEPT !.root = TipRoot]
    /\ view' = [view EXCEPT !.best = tip.best]
    /\ job' = [Ready EXCEPT !.op = "disconnect", !.blk = active, !.pc = "unoutputs",
                            !.i = Len(vtx[active]), !.undo = rev[active]]
    /\ UNCHANGED others

\* A mutant of RemoveOutputs that leaves the nullifiers marked.
RemoveOutputsOnly ==
    /\ job.pc = "unoutputs"
    /\ LET entry == Opened(view, Tx.id, CoinsInTip(Tx.id))
           expected == [outs |-> Tx.outs, height |-> height[job.blk]]
           next == IF job.i = 1 THEN At("pop", 1, 1)
                   ELSE At("uninputs", job.i, Len(Tx.vin))
       IN  /\ view' = [view EXCEPT
                          !.coins[Tx.id] = Closed(entry, NoCoins)]
           /\ tip' = TipAsked(Tx.id)
           /\ job' = [next EXCEPT !.clean = job.clean /\ SameCoins(entry.coins, expected)]
    /\ UNCHANGED others

\* The outputs must be those of the block, and are removed.
RemoveOutputs ==
    /\ job.pc = "unoutputs"
    /\ LET entry == Opened(view, Tx.id, CoinsInTip(Tx.id))
           expected == [outs |-> Tx.outs, height |-> height[job.blk]]
           next == IF job.i = 1 THEN At("pop", 1, 1)
                   ELSE At("uninputs", job.i, Len(Tx.vin))
       IN  /\ view' = [SetNullifiers(view, TxNullifiers, FALSE) EXCEPT
                          !.coins[Tx.id] = Closed(entry, NoCoins)]
           /\ tip' = TipAsked(Tx.id)
           /\ job' = [next EXCEPT !.clean = job.clean /\ SameCoins(entry.coins, expected)]
    /\ UNCHANGED others

\* ApplyTxInUndo.
RestoreInput ==
    /\ job.pc = "uninputs"
    /\ job.j > 0
    /\ LET k == Tx.vin[job.j][1]
           n == Tx.vin[job.j][2]
           h == job.undo[job.i - 1][job.j]
           entry == Opened(view, k, CoinsInTip(k))
           base == IF h # 0 THEN [outs |-> {}, height |-> h] ELSE entry.coins
           fine == /\ (h # 0) = IsPruned(entry.coins)
                   /\ n \notin base.outs
       IN  /\ view' = [view EXCEPT !.coins[k] =
                          Closed(entry, [base EXCEPT !.outs = @ \cup {n}])]
           /\ tip' = TipAsked(k)
           /\ job' = [At("uninputs", job.i, job.j - 1) EXCEPT !.clean = job.clean /\ fine]
    /\ UNCHANGED others

NextUndone ==
    /\ job.pc = "uninputs"
    /\ job.j = 0
    /\ job' = At("unoutputs", job.i - 1, 0)
    /\ UNCHANGED <<tip, view, others>>

\* The root of the block before becomes the best anchor again.
FinishDisconnect ==
    /\ job.pc = "pop"
    /\ LET r == rootOf[parent[job.blk]]
       IN  /\ view' = [PopAnchor(view, ViewRoot, r) EXCEPT !.best = parent[job.blk]]
           /\ tip' = IF ViewRoot # r /\ view.anchors[ViewRoot] = Absent
                     THEN TipWithAnchor(ViewRoot) ELSE tip
    /\ job' = At("commit", 1, 1)
    /\ UNCHANGED others

\* DisconnectTip gives up on an unclean block; VerifyDB only looks.
GiveUp ==
    /\ job.op = "disconnect"
    /\ job.pc = "commit"
    /\ Abandon
    /\ UNCHANGED tip

-----------------------------------------------------------------------------
(* The changes reach gl_pCoinsTip, and from there the disk.                *)

\* view.Flush(): the changes of the block are taken over as a whole.
Commit ==
    /\ job.pc = "commit"
    /\ job.clean
    /\ tip' = BatchWrite(tip, view)
    /\ view' = Cleared(Absent, Absent)
    /\ job' = At("committed", 0, 0)
    /\ UNCHANGED others

UpdateTip ==
    /\ job.pc \in {"committed", "done"}
    /\ active' = tip.best
    /\ job' = Ready
    /\ UNCHANGED <<db, tip, view, rev, undoPos, diskUndoPos>>

\* A mutant of WriteBlockIndex for a flush of the coins alone.
SkipBlockIndex ==
    /\ job.pc \in {"ready", "committed"}
    /\ diskUndoPos' = diskUndoPos
    /\ job' = At("indexed", 0, 0)
    /\ UNCHANGED <<db, tip, view, active, rev, undoPos>>

\* FlushStateToDisk, inside ConnectTip or DisconnectTip if the cache is full, or
\* called by itself: first the block index ...
WriteBlockIndex ==
    /\ job.pc \in {"ready", "committed"}
    /\ diskUndoPos' = undoPos
    /\ job' = At("indexed", 0, 0)
    /\ UNCHANGED <<db, tip, view, active, rev, undoPos>>

Written == IF job.op = "none" THEN Ready ELSE At("done", 0, 0)

\* ... then the coins ...
FlushCoins ==
    /\ job.pc = "indexed"
    /\ db' = DbBatchWrite(db, tip)
    /\ tip' = Cleared(tip.best, tip.root)
    /\ job' = Written
    /\ UNCHANGED <<view, active, rev, undoPos, diskUndoPos>>

\* ... unless only the block index was due.
KeepCoins ==
    /\ job.pc = "indexed"
    /\ job' = Written
    /\ UNCHANGED <<tip, view, others>>

\* The process is killed at any moment and started again (LoadBlockIndexDB).
Restart ==
    /\ tip' = Cleared(db.best, Absent)
    /\ view' = Cleared(Absent, Absent)
    /\ active' = db.best
    /\ undoPos' = diskUndoPos
    /\ job' = Ready
    /\ UNCHANGED <<db, rev, diskUndoPos>>

ConnectStep ==
    \/ CheckBip30 \/ LoadTree \/ HaveInput \/ CheckNullifier \/ CheckAnchor
    \/ SpendInput \/ AddOutputs \/ FinishConnect \/ RejectBlock

DisconnectStep ==
    \/ RemoveOutputs \/ RestoreInput \/ NextUndone \/ FinishDisconnect \/ GiveUp

FlushStep ==
    \/ Commit \/ UpdateTip \/ WriteBlockIndex \/ FlushCoins \/ KeepCoins

Next ==
    \/ ReadTip
    \/ \E b \in Blocks : ConnectTip(b)
    \/ ConnectStep
    \/ DisconnectTip
    \/ DisconnectStep
    \/ FlushStep
    \/ Restart

Spec == Init /\ [][Next]_vars

\* The database throws: BatchWrite has emptied the maps it was given by then, the
\* hashes stay, and the node is told to shut down, which flushes once more.
FlushFails ==
    /\ job.pc = "indexed"
    /\ tip' = Cleared(tip.best, tip.root)
    /\ job' = Ready
    /\ UNCHANGED <<db, view, active, rev, undoPos, diskUndoPos>>

\* A node whose coin database may refuse a write.
FailingSpec == Init /\ [][Next \/ FlushFails]_vars

-----------------------------------------------------------------------------
(* The ledgers that the three views stand for.                             *)

\* What the database, gl_pCoinsTip and the view answer.
CoinsOnDisk(k) == Visible(db.coins[k])
CoinsAtTip(k) == IF tip.coins[k] = Absent THEN CoinsOnDisk(k)
                 ELSE Visible(tip.coins[k].coins)
CoinsInView(k) == IF view.coins[k] = Absent THEN CoinsAtTip(k)
                  ELSE Visible(view.coins[k].coins)

NullifierAtTip(n) == IF tip.nullifiers[n] = Absent THEN n \in db.nullifiers
                     ELSE tip.nullifiers[n].entered
NullifierInView(n) == IF view.nullifiers[n] = Absent THEN NullifierAtTip(n)
                      ELSE view.nullifiers[n].entered

AnchorAtTip(r) == IF tip.anchors[r] = Absent THEN DbHasAnchor(db, r)
                  ELSE tip.anchors[r].entered
AnchorInView(r) == IF view.anchors[r] = Absent THEN AnchorAtTip(r)
                   ELSE view.anchors[r].entered

TipBest == IF tip.best = Absent THEN db.best ELSE tip.best
ViewBest == IF view.best = Absent THEN TipBest ELSE view.best

DiskLedger ==
    [coins |-> [k \in Txids |-> CoinsOnDisk(k)],
     nullifiers |-> db.nullifiers,
     anchors |-> {r \in Roots : DbHasAnchor(db, r)},
     best |-> db.best, root |-> db.root]

TipLedger ==
    [coins |-> [k \in Txids |-> CoinsAtTip(k)],
     nullifiers |-> {n \in Nullifiers : NullifierAtTip(n)},
     anchors |-> {r \in Roots : AnchorAtTip(r)},
     best |-> TipBest, root |-> TipRoot]

ViewLedger ==
    [coins |-> [k \in Txids |-> CoinsInView(k)],
     nullifiers |-> {n \in Nullifiers : NullifierInView(n)},
     anchors |-> {r \in Roots : AnchorInView(r)},
     best |-> ViewBest, root |-> ViewRoot]

L == INSTANCE CoinsLedger WITH disk <- DiskLedger, tip <- TipLedger, work <- ViewLedger

-----------------------------------------------------------------------------
(* Properties.                                                             *)

Steps == {"ready", "bip30", "tree", "inputs", "anchor", "spend", "outputs", "push",
          "unoutputs", "uninputs", "pop", "commit", "committed", "indexed", "done"}

Jobs == [op : {"none", "connect", "disconnect"}, blk : Blocks, pc : Steps,
         i : Nat, j : Nat, undo : Seq(Seq(Nat)), clean : BOOLEAN]

\* The views, files and the job are well formed, the job is at a transaction of
\* its block while it works on one, and the scratch view is empty between blocks.
TypeOK ==
    /\ db \in Database
    /\ tip \in Cache
    /\ view \in Cache
    /\ active \in Blocks
    /\ rev \in [Blocks -> Seq(Seq(Nat)) \cup {Absent}]
    /\ undoPos \subseteq Blocks
    /\ diskUndoPos \subseteq Blocks
    /\ job \in Jobs
    /\ job.pc \in {"bip30", "inputs", "anchor", "spend", "outputs", "unoutputs", "uninputs"}
          => job.i \in 1..Len(vtx[job.blk])
    /\ job.pc \in {"ready", "committed", "indexed", "done"} => view = Cleared(Absent, Absent)

\* The assertions of the code hold where they are reached: an entry of the view
\* that is new to gl_pCoinsTip is FRESH (coins.cpp:550), an input is there when
\* it is spent (main.cpp:957), the best anchor is known (main.cpp:1554, 1974,
\* 2034, coins.cpp:313), and the view is at the right block (main.cpp:1248, 1488).
AssertionsHold ==
    /\ job.pc = "commit" =>
          \A k \in Txids : LET e == view.coins[k] IN
             e # Absent => \/ ~e.dirty \/ IsPruned(e.coins)
                           \/ e.fresh \/ tip.coins[k] # Absent
    /\ job.pc = "spend" /\ job.j <= Len(Tx.vin) =>
          LET o == Tx.vin[job.j] IN o[2] \in CoinsInView(o[1]).outs
    /\ AnchorAtTip(TipRoot)
    /\ AnchorInView(ViewRoot)
    /\ job.op = "connect" /\ job.pc = "bip30" => view.best = parent[job.blk]
    /\ job.op = "disconnect" /\ job.pc = "unoutputs" => view.best = job.blk

\* Whatever was cached, flushed, disconnected or lost before, gl_pCoinsTip answers
\* between blocks as a node would that has only ever connected the active chain.
TipFollowsChain == job.pc = "ready" => TipLedger = Replay[active]

\* "the block hash whose state this CCoinsView currently represents": the database
\* always holds the state of its best block, so a restart continues from there.
DiskConsistent == DiskLedger = Replay[db.best]

\* Every block of the active chain can be disconnected, also after a crash: its undo
\* position is in the index, on disk for the chain of the database, and the undo
\* data is there.  DisconnectBlock never meets outputs or undo data that do not fit
\* (UNCLEAN).
Reversible ==
    /\ job.clean
    /\ \A b \in ChainOf[active] : b \in undoPos /\ rev[b] # Absent
    /\ \A b \in ChainOf[db.best] : b \in diskUndoPos /\ rev[b] # Absent

\* No output and no nullifier is spent twice on the active chain, no anchor is
\* unknown to it and no unspent transaction is overwritten by it.
ChainAcceptable == ChainOf[active] \subseteq AcceptableBlocks

\* The cache over the cache over the database behaves as three plain ledgers.
ImplementsLedger == L!Spec

=============================================================================
