----------------------------- MODULE Blockchain -----------------------------
(***************************************************************************)
(* The blocks that a node may meet: a tree of blocks with their            *)
(* transactions and the roots in their headers, all constants, and the     *)
(* ledger of a chain of them as a reference, computed without caches, undo *)
(* data or disk.  ChainState shows that gl_pCoinsTip answers as this       *)
(* ledger does; Mempool reads the chain through it.                        *)
(***************************************************************************)
EXTENDS CoinsCache, Integers, Sequences

CONSTANTS
    Genesis,    \* the genesis block, connected without its transactions
    parent,     \* the block before each other block
    height,     \* the height of each block
    vtx,        \* the transactions of each block, the coinbase first
    rootOf      \* hashFinalSaplingRoot of each block

\* A transaction: its inputs, its outputs, and the nullifier and anchor of its
\* shielded spend, if it has one.
Transactions == [id : Txids, vin : Seq(Txids \X Outs), outs : SUBSET Outs,
                 nf : Nullifiers \cup {Absent}, anchor : Roots]

\* The blocks form a tree.  They have passed CheckBlock: a block has a coinbase and
\* no transaction twice, a transaction no input twice.  The commitment tree only
\* grows.
ASSUME ChainAssumption ==
    /\ Genesis \in Blocks
    /\ parent \in [Blocks \ {Genesis} -> Blocks]
    /\ height \in [Blocks -> Nat]
    /\ \A b \in Blocks \ {Genesis} : height[b] = height[parent[b]] + 1
    /\ vtx \in [Blocks -> Seq(Transactions)]
    /\ \A b \in Blocks \ {Genesis} : vtx[b] # <<>>
    /\ \A b \in Blocks : \A i, j \in DOMAIN vtx[b] :
          vtx[b][i].id = vtx[b][j].id => i = j
    /\ \A b \in Blocks : \A i \in DOMAIN vtx[b] : \A p, q \in DOMAIN vtx[b][i].vin :
          vtx[b][i].vin[p] = vtx[b][i].vin[q] => p = q
    /\ rootOf \in [Blocks -> Roots]
    /\ rootOf[Genesis] = EmptyRoot
    /\ \A b \in Blocks \ {Genesis} :
          rootOf[b] = EmptyRoot => rootOf[parent[b]] = EmptyRoot

-----------------------------------------------------------------------------
(* The ledger of a chain.                                                  *)

\* Coins without unspent outputs are as good as none.
Visible(c) == IF c = Absent \/ IsPruned(c) THEN NoCoins ELSE c

Start == [coins |-> [k \in Txids |-> NoCoins], nullifiers |-> {},
          anchors |-> {EmptyRoot}, best |-> Genesis, root |-> EmptyRoot]

Txs(b) == {vtx[b][i] : i \in DOMAIN vtx[b]}

\* The inputs of a block by transaction and position, and what they spend.
Inputs(b) == UNION {{<<i, j>> : j \in DOMAIN vtx[b][i].vin} : i \in DOMAIN vtx[b]}
Spent(b, p) == vtx[b][p[1]].vin[p[2]]

\* A ledger after block b.
After(b, led) ==
    LET made(k) == {t \in Txs(b) : t.id = k}
        had(k) == IF made(k) = {} THEN led.coins[k]
                  ELSE [outs |-> UNION {t.outs : t \in made(k)}, height |-> height[b]]
        left(k) == {n \in had(k).outs : \A p \in Inputs(b) : Spent(b, p) # <<k, n>>}
    IN  [coins |-> [k \in Txids |->
                       Visible([outs |-> left(k), height |-> had(k).height])],
         nullifiers |-> led.nullifiers \cup ({t.nf : t \in Txs(b)} \ {Absent}),
         anchors |-> led.anchors \cup {rootOf[b]},
         best |-> b, root |-> rootOf[b]]

\* The ledger of the chain that ends in b, and the blocks of that chain.
Replay[b \in Blocks] == IF b = Genesis THEN Start ELSE After(b, Replay[parent[b]])
ChainOf[b \in Blocks] == IF b = Genesis THEN {} ELSE {b} \cup ChainOf[parent[b]]

\* Block b may follow a chain with the given ledger: no id is in use, every input
\* spends an output of the chain or of an earlier transaction of the block, no
\* output and no nullifier is used twice, and anchors are roots of the chain.
Acceptable(b, led) ==
    /\ \A t \in Txs(b) : led.coins[t.id] = NoCoins
    /\ \A p \in Inputs(b) :
          LET o == Spent(b, p)
          IN  /\ \/ o[2] \in led.coins[o[1]].outs
                 \/ \E i \in 1..(p[1] - 1) :
                       vtx[b][i].id = o[1] /\ o[2] \in vtx[b][i].outs
              /\ \A q \in Inputs(b) : q # p => Spent(b, q) # o
    /\ \A i \in DOMAIN vtx[b] : vtx[b][i].nf # Absent =>
          /\ vtx[b][i].nf \notin led.nullifiers
          /\ vtx[b][i].anchor \in led.anchors
          /\ \A j \in DOMAIN vtx[b] : vtx[b][j].nf = vtx[b][i].nf => j = i

AcceptableBlocks == {b \in Blocks \ {Genesis} : Acceptable(b, Replay[parent[b]])}

=============================================================================
