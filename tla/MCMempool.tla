----------------------------- MODULE MCMempool -----------------------------
(***************************************************************************)
(* An instance of Mempool.  Two branches leave block b1.  P and X spend    *)
(* its coinbase A, Q spends P and R both of them; K spends the coinbase D  *)
(* of c2.  S and T reveal the same nullifier, S with the commitment tree   *)
(* of b2, T not before height 2.  W expires after height 2 and the ticket  *)
(* Y spends it.  Coinbases mature after two blocks, and the branch changes *)
(* at height 4, after b3 and c3.                                           *)
(***************************************************************************)
EXTENDS Mempool

CONSTANTS g, b1, b2, b3, c2, c3, r0, r1, r2, n1, n2,
          A, D, E, P, Q, R, X, S, T, W, Y, K, p1, p2

Transaction(id, vin, outs, nf, anchor) ==
    [id |-> id, vin |-> vin, outs |-> outs, nf |-> nf, anchor |-> anchor]

MCtx == [t \in Txids |->
    CASE t = A -> Transaction(A, <<>>, {1}, Absent, r0)
      [] t = D -> Transaction(D, <<>>, {1}, Absent, r0)
      [] t = E -> Transaction(E, <<>>, {}, Absent, r0)
      [] t = P -> Transaction(P, <<<<A, 1>>>>, {1, 2}, Absent, r0)
      [] t = X -> Transaction(X, <<<<A, 1>>>>, {}, Absent, r0)
      [] t = Q -> Transaction(Q, <<<<P, 1>>>>, {1}, Absent, r0)
      [] t = R -> Transaction(R, <<<<P, 2>>, <<Q, 1>>>>, {}, Absent, r0)
      [] t = K -> Transaction(K, <<<<D, 1>>>>, {}, Absent, r0)
      [] t = S -> Transaction(S, <<>>, {}, n1, r1)
      [] t = T -> Transaction(T, <<>>, {}, n1, r0)
      [] t = W -> Transaction(W, <<>>, {1}, n2, r0)
      [] t = Y -> Transaction(Y, <<<<W, 1>>>>, {}, Absent, r0)]

MCparent == [b \in Blocks \ {g} |->
    CASE b = b1 -> g [] b = b2 -> b1 [] b = b3 -> b2
      [] b = c2 -> b1 [] b = c3 -> c2]

MCheight == [b \in Blocks |->
    CASE b = g -> 0 [] b = b1 -> 1 [] b \in {b2, c2} -> 2 [] b \in {b3, c3} -> 3]

MCrootOf == [b \in Blocks |->
    CASE b \in {g, b1} -> r0 [] b \in {b2, b3} -> r1 [] OTHER -> r2]

MCvtx == [b \in Blocks |->
    CASE b = g -> <<>>
      [] b = b1 -> <<MCtx[A]>>
      [] b = b2 -> <<MCtx[E]>>
      [] b = b3 -> <<MCtx[E], MCtx[P], MCtx[Q], MCtx[S]>>
      [] b = c2 -> <<MCtx[D], MCtx[T]>>
      [] b = c3 -> <<MCtx[E], MCtx[X]>>]

MClockTime == [t \in Txids |-> IF t = T THEN 1 ELSE 0]
MCexpiry == [t \in Txids |-> IF t = W THEN 2 ELSE 0]
MCsignedFor == [t \in Txids |-> IF t = K THEN 1 ELSE 0]

=============================================================================
