---------------------------- MODULE CoinsLedger ----------------------------
(***************************************************************************)
(* What the coins views promise together: three plain ledgers without      *)
(* caches.  disk survives a crash, tip is the state of the active chain,   *)
(* and work is tip with the changes of the block being connected or        *)
(* disconnected, which are taken over or thrown away as a whole.  What is  *)
(* spent was there, what is created was not.                               *)
(***************************************************************************)
EXTENDS Naturals

CONSTANTS
    Txids, Outs, Nullifiers, Roots, Blocks,
    Start       \* the ledger of a new node

VARIABLES disk, tip, work

vars == <<disk, tip, work>>

\* Of a transaction without unspent outputs nothing is known.
Gone == [outs |-> {}, height |-> 0]

Init == /\ disk = Start
        /\ tip = Start
        /\ work = Start

-----------------------------------------------------------------------------
(* The ledgers that may follow ledger w.                                   *)

\* An output that is there is spent.
Spend(w, k, n) ==
    [w EXCEPT !.coins[k] = IF w.coins[k].outs = {n} THEN Gone
                           ELSE [w.coins[k] EXCEPT !.outs = @ \ {n}]]

\* A transaction that has no unspent outputs gets coins c, and reveals nullifiers
\* that were not there.
Create(w, k, c, nfs) ==
    [w EXCEPT !.coins[k] = c, !.nullifiers = w.nullifiers \cup nfs]

\* A transaction of a disconnected block loses its outputs and takes its
\* nullifiers back.
Remove(w, k, nfs) ==
    [w EXCEPT !.coins[k] = Gone, !.nullifiers = w.nullifiers \ nfs]

\* An output that a disconnected transaction had spent is there again.
Restore(w, k, c) == [w EXCEPT !.coins[k] = c]

\* The end of a connected block: its root is an anchor from now on.
Append(w, b, r) ==
    [w EXCEPT !.best = b, !.root = r, !.anchors = w.anchors \cup {r}]

\* The end of a disconnected block: its root is no anchor any more, unless the
\* block before it has the same.
Retract(w, b, r) ==
    [w EXCEPT !.best = b, !.root = r,
              !.anchors = IF r = w.root THEN w.anchors ELSE w.anchors \ {w.root}]

-----------------------------------------------------------------------------

\* The block at work changes w to v.
Changes(w, v) ==
    \/ \E k \in Txids, n \in Outs :
          \/ n \in w.coins[k].outs /\ v = Spend(w, k, n)
          \/ n \in v.coins[k].outs /\ v = Restore(w, k, v.coins[k])
    \/ \E k \in Txids, nfs \in SUBSET Nullifiers :
          \/ /\ w.coins[k] = Gone
             /\ nfs \cap w.nullifiers = {}
             /\ v = Create(w, k, v.coins[k], nfs)
          \/ v = Remove(w, k, nfs)
    \/ \E b \in Blocks, r \in Roots : v = Append(w, b, r) \/ v = Retract(w, b, r)

Work ==
    /\ UNCHANGED <<disk, tip>>
    /\ LET w == work
           v == work'
       IN  Changes(w, v)

TakeOver ==
    /\ tip' = work
    /\ UNCHANGED <<disk, work>>

ThrowAway ==
    /\ work' = tip
    /\ UNCHANGED <<disk, tip>>

\* All changes since the last flush reach the disk, or none.
Persist ==
    /\ work = tip
    /\ disk' = tip
    /\ UNCHANGED <<tip, work>>

Crash ==
    /\ tip' = disk
    /\ work' = disk
    /\ UNCHANGED disk

\* A step that changes no ledger is a stuttering step.
Next ==
    /\ vars' # vars
    /\ ThrowAway \/ TakeOver \/ Persist \/ Crash \/ Work

Spec == Init /\ [][Next]_vars

=============================================================================
