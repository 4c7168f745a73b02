---------------------------- MODULE MCChainState ----------------------------
(***************************************************************************)
(* An instance of ChainState.  Two branches leave block b1.  b2 spends both *)
(* outputs of A at once and b3 contains A again; c2 spends them one by     *)
(* one, the second together with an output of the same block.  The         *)
(* branches reveal the same nullifier, and c3 reaches the commitment tree  *)
(* that b2 reached.  The other blocks are refused: w2 for the id A, which  *)
(* is in use, x3 for an anchor of the other branch, y3 for a spent output, *)
(* z3 for a spent nullifier.                                               *)
(***************************************************************************)
EXTENDS ChainState

CONSTANTS g, b1, b2, b3, c2, c3, w2, x3, y3, z3, r0, r1, r2, n1, n2,
          A, B, D, R, S, T, U, V

Transaction(id, vin, outs, nf, anchor) ==
    [id |-> id, vin |-> vin, outs |-> outs, nf |-> nf, anchor |-> anchor]

TxA == Transaction(A, <<>>, {1, 2}, Absent, r0)
TxB == Transaction(B, <<>>, {1}, Absent, r0)
TxD == Transaction(D, <<>>, {1}, Absent, r0)
TxR == Transaction(R, <<<<B, 1>>>>, {1}, n2, r2)
TxS == Transaction(S, <<>>, {}, n1, r0)
TxT == Transaction(T, <<<<A, 1>>, <<A, 2>>>>, {2}, n1, r1)
TxU == Transaction(U, <<<<A, 2>>>>, {1}, Absent, r0)
TxV == Transaction(V, <<<<U, 1>>, <<A, 1>>>>, {1}, Absent, r0)

MCparent == [b \in Blocks \ {g} |->
    CASE b = b1 -> g
      [] b \in {b2, c2, w2} -> b1
      [] b \in {b3, z3} -> b2
      [] b \in {c3, x3, y3} -> c2]

MCheight == [b \in Blocks |->
    CASE b = g -> 0 [] b = b1 -> 1 [] b \in {b2, c2, w2} -> 2 [] OTHER -> 3]

MCrootOf == [b \in Blocks |->
    CASE b = g -> r0 [] b \in {b1, c2, w2, x3, y3} -> r1 [] OTHER -> r2]

MCvtx == [b \in Blocks |->
    CASE b = g -> <<>>
      [] b = b1 -> <<TxA>>
      [] b = b2 -> <<TxB, TxT>>
      [] b = b3 -> <<TxA, TxR>>
      [] b = c2 -> <<TxB, TxU, TxV, TxS>>
      [] b = c3 -> <<TxD>>
      [] b = w2 -> <<TxA>>
      [] b = x3 -> <<TxD, TxR>>
      [] b = y3 -> <<TxD, TxU>>
      [] b = z3 -> <<TxD, TxS>>]

=============================================================================
