---------------------------- MODULE MCCheckQueue ----------------------------
(***************************************************************************)
(* The check queue on a small pool.  Four checks let one thread take a     *)
(* batch of two; one of them fails.                                        *)
(***************************************************************************)
EXTENDS CheckQueue

CONSTANTS c1, c2, c3, c4

\* A transaction with one input and one with three.
MCTxs == {<<c1>>, <<c2, c3, c4>>}
=============================================================================
