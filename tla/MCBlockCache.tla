---------------------------- MODULE MCBlockCache ----------------------------
(***************************************************************************)
(* Instances of BlockCache: block trees, and which blocks hold the inputs  *)
(* of which.  Blocks are numbered along each branch.                       *)
(***************************************************************************)
EXTENDS BlockCache, TLC

CONSTANTS g, b1, b2, b3, b4, p1, p2

\* One chain b1 - b2 - b3 - b4; b2 and b3 spend from b1.
LineParent == (b1 :> g) @@ (b2 :> b1) @@ (b3 :> b2) @@ (b4 :> b3)
LineHeight == (g :> 0) @@ (b1 :> 1) @@ (b2 :> 2) @@ (b3 :> 3) @@ (b4 :> 4)
LineChain == (g :> {}) @@ (b1 :> {b1}) @@ (b2 :> {b1, b2}) @@ (b3 :> {b1, b2, b3})
             @@ (b4 :> {b1, b2, b3, b4})
LineNeeds == (b1 :> {}) @@ (b2 :> {b1}) @@ (b3 :> {b1}) @@ (b4 :> {})

\* The branches b1 and b2 - b3 - b4.
ForkParent == (b1 :> g) @@ (b2 :> g) @@ (b3 :> b2) @@ (b4 :> b3)
ForkHeight == (g :> 0) @@ (b1 :> 1) @@ (b2 :> 1) @@ (b3 :> 2) @@ (b4 :> 3)
ForkChain == (g :> {}) @@ (b1 :> {b1}) @@ (b2 :> {b2}) @@ (b3 :> {b2, b3})
             @@ (b4 :> {b2, b3, b4})
ForkNeeds == (b1 :> {}) @@ (b2 :> {}) @@ (b3 :> {b2}) @@ (b4 :> {})

=============================================================================
