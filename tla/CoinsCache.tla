----------------------------- MODULE CoinsCache -----------------------------
(***************************************************************************)
(* CCoinsViewCache (src/src/coins.cpp) over a base view, and CCoinsViewDB  *)
(* (src/src/txdb/txdb.cpp) under it, as operators on values.               *)
(*                                                                         *)
(* A cache maps transaction ids to entries with the flags DIRTY and FRESH, *)
(* Sapling nullifiers and anchors to entries with the flag DIRTY, and has a *)
(* best block and a best anchor, which are null until they are asked for.  *)
(* Absent stands for an entry that is not in a map, for a null hash and    *)
(* for a lookup without result.  The coins of a transaction are the set of *)
(* its unspent outputs and its height (the other metadata goes with it);   *)
(* trailing spent outputs, which Cleanup drops from vout, are not in the   *)
(* set.  An anchor stands for the note commitment tree it is the root of.  *)
(* Sprout trees and nullifiers never change in this code and are left out. *)
(***************************************************************************)
EXTENDS Naturals

CONSTANTS
    Txids,      \* transaction ids
    Outs,       \* indices of outputs
    Nullifiers, \* Sapling nullifiers
    Roots,      \* roots of Sapling note commitment trees
    EmptyRoot,  \* the root of the empty tree
    Blocks,     \* block hashes
    Absent      \* no entry, no result, the null hash

Coins == [outs : SUBSET Outs, height : Nat]
CoinsEntry == [coins : Coins, dirty : BOOLEAN, fresh : BOOLEAN]
MarkEntry == [entered : BOOLEAN, dirty : BOOLEAN]

\* Absent is no entry and no hash; the empty tree has a root.
ASSUME AbsentAssumption ==
    /\ Absent \notin Coins \cup CoinsEntry \cup MarkEntry
    /\ Absent \notin Blocks \cup Roots
    /\ EmptyRoot \in Roots

Cache == [coins : [Txids -> CoinsEntry \cup {Absent}],
          nullifiers : [Nullifiers -> MarkEntry \cup {Absent}],
          anchors : [Roots -> MarkEntry \cup {Absent}],
          best : Blocks \cup {Absent},
          root : Roots \cup {Absent}]

Database == [coins : [Txids -> Coins \cup {Absent}],
             nullifiers : SUBSET Nullifiers,
             anchors : SUBSET Roots,
             best : Blocks,
             root : Roots]

\* CCoins::Clear and CCoins::IsPruned.
NoCoins == [outs |-> {}, height |-> 0]
IsPruned(c) == c.outs = {}

\* operator== of CCoins: pruned coins are all the same.
SameCoins(c, d) == c = d \/ (IsPruned(c) /\ IsPruned(d))

\* A cache that holds nothing; Flush leaves the two hashes in place.
Cleared(best, root) ==
    [coins |-> [k \in Txids |-> Absent],
     nullifiers |-> [n \in Nullifiers |-> Absent],
     anchors |-> [r \in Roots |-> Absent],
     best |-> best, root |-> root]

-----------------------------------------------------------------------------
(* Lookups.  found is what the base view answers; a lookup that reaches the *)
(* base leaves its answer in the cache.                                    *)

FetchCoins(cache, k, found) ==
    IF cache.coins[k] # Absent \/ found = Absent THEN cache
    ELSE [cache EXCEPT !.coins[k] =
             [coins |-> found, dirty |-> FALSE, fresh |-> IsPruned(found)]]

\* GetCoins after FetchCoins.
CachedCoins(cache, k) ==
    IF cache.coins[k] = Absent THEN Absent ELSE cache.coins[k].coins

\* GetNullifier keeps negative answers as well.
FetchNullifier(cache, n, found) ==
    IF cache.nullifiers[n] # Absent THEN cache
    ELSE [cache EXCEPT !.nullifiers[n] = [entered |-> found, dirty |-> FALSE]]

\* GetSaplingAnchorAt keeps positive answers only.
FetchAnchor(cache, r, found) ==
    IF cache.anchors[r] # Absent \/ ~found THEN cache
    ELSE [cache EXCEPT !.anchors[r] = [entered |-> TRUE, dirty |-> FALSE]]

-----------------------------------------------------------------------------
(* Modifications of a cache.                                               *)

\* The entry that ModifyCoins hands out.
Opened(cache, k, found) ==
    IF cache.coins[k] # Absent THEN cache.coins[k]
    ELSE IF found = Absent
         THEN [coins |-> NoCoins, dirty |-> TRUE, fresh |-> TRUE]
         ELSE [coins |-> found, dirty |-> TRUE, fresh |-> IsPruned(found)]

\* The destructor of CCoinsModifier, after the entry was set to c.
Closed(entry, c) ==
    IF entry.fresh /\ IsPruned(c) THEN Absent
    ELSE [coins |-> c, dirty |-> TRUE, fresh |-> entry.fresh]

\* ModifyNewCoins does not look at what was there before.
NewEntry == [coins |-> NoCoins, dirty |-> TRUE, fresh |-> TRUE]

SetNullifiers(cache, nfs, spent) ==
    [cache EXCEPT !.nullifiers =
        [n \in Nullifiers |-> IF n \in nfs THEN [entered |-> spent, dirty |-> TRUE]
                              ELSE cache.nullifiers[n]]]

\* PushAnchor and PopAnchor on a cache whose best anchor is current.
PushAnchor(cache, current, r) ==
    IF current = r THEN [cache EXCEPT !.root = current]
    ELSE [cache EXCEPT !.anchors[r] = [entered |-> TRUE, dirty |-> TRUE],
                       !.root = r]

PopAnchor(cache, current, r) ==
    IF current = r THEN [cache EXCEPT !.root = current]
    ELSE [cache EXCEPT !.anchors[current] = [entered |-> FALSE, dirty |-> TRUE],
                       !.root = r]

-----------------------------------------------------------------------------
(* BatchWrite of a cache, called with the maps of the cache above it.      *)

\* A mutant of MergedCoins for a parent that takes over the flags of the child.
MergedCoinsFlags(ours, child) ==
    IF child = Absent \/ ~child.dirty THEN ours
    ELSE IF ours = Absent
    THEN IF IsPruned(child.coins) THEN Absent
         ELSE [coins |-> child.coins, dirty |-> TRUE, fresh |-> TRUE]
    ELSE IF ours.fresh /\ IsPruned(child.coins) THEN Absent
         ELSE [coins |-> child.coins, dirty |-> TRUE, fresh |-> child.fresh]

MergedCoins(ours, child) ==
    IF child = Absent \/ ~child.dirty THEN ours
    ELSE IF ours = Absent
    THEN IF IsPruned(child.coins) THEN Absent
         ELSE [coins |-> child.coins, dirty |-> TRUE, fresh |-> TRUE]
    ELSE IF ours.fresh /\ IsPruned(child.coins) THEN Absent
         ELSE [coins |-> child.coins, dirty |-> TRUE, fresh |-> ours.fresh]

\* BatchWriteNullifiers and BatchWriteAnchors.
MergedMark(ours, child) ==
    IF child = Absent \/ ~child.dirty THEN ours
    ELSE IF ours # Absent /\ ours.entered = child.entered THEN ours
    ELSE [entered |-> child.entered, dirty |-> TRUE]

BatchWrite(cache, child) ==
    [coins |-> [k \in Txids |-> MergedCoins(cache.coins[k], child.coins[k])],
     nullifiers |-> [n \in Nullifiers |->
                        MergedMark(cache.nullifiers[n], child.nullifiers[n])],
     anchors |-> [r \in Roots |-> MergedMark(cache.anchors[r], child.anchors[r])],
     best |-> child.best, root |-> child.root]

-----------------------------------------------------------------------------
(* CCoinsViewDB: its lookups and its BatchWrite, one atomic LevelDB batch.  *)

DbHasAnchor(db, r) == r = EmptyRoot \/ r \in db.anchors

\* A mutant of WrittenCoins for a batch that leaves spent coins where they are.
WrittenCoinsKept(old, entry) ==
    IF entry = Absent \/ ~entry.dirty \/ IsPruned(entry.coins) THEN old ELSE entry.coins

WrittenCoins(old, entry) ==
    IF entry = Absent \/ ~entry.dirty THEN old
    ELSE IF IsPruned(entry.coins) THEN Absent ELSE entry.coins

\* Whether a key is in the database after the batch.
WrittenMark(old, entry) ==
    IF entry = Absent \/ ~entry.dirty THEN old ELSE entry.entered

DbBatchWrite(db, cache) ==
    [coins |-> [k \in Txids |-> WrittenCoins(db.coins[k], cache.coins[k])],
     nullifiers |-> {n \in Nullifiers :
                        WrittenMark(n \in db.nullifiers, cache.nullifiers[n])},
     anchors |-> {r \in Roots \ {EmptyRoot} :
                        WrittenMark(r \in db.anchors, cache.anchors[r])},
     best |-> IF cache.best = Absent THEN db.best ELSE cache.best,
     root |-> IF cache.root = Absent THEN db.root ELSE cache.root]

=============================================================================
