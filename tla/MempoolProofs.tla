--------------------------- MODULE MempoolProofs ---------------------------
(***************************************************************************)
(* The theorems about the memory pool and the orphan transactions, for any *)
(* tree of blocks and any transactions.                                    *)
(***************************************************************************)
EXTENDS Mempool, FiniteSetTheorems, TLAPS

\* The maps of pool p say what its transactions spend, and no two spend the same.
Exact(p) ==
    /\ p.next = UNION {Ins(t) \X {t} : t \in Held(p)}
    /\ p.nfs = {<<tx[t].nf, t>> : t \in {t \in Held(p) : Shielded(t)}}
    /\ p.tickets = Tickets \cap Held(p)
    /\ \A s, t \in Held(p) : s # t => /\ Ins(s) \cap Ins(t) = {}
                                      /\ Shielded(s) => tx[s].nf # tx[t].nf

\* The index of the orphans is exact, and they are few.
Indexed ==
    /\ \A t \in Txids : {k \in Txids : t \in byPrev[k]} =
                           IF t \in Orphans THEN Parents(t) ELSE {}
    /\ Cardinality(Orphans) <= MaxOrphans
    /\ \A t \in Orphans : ~Shielded(t)

\* There are finitely many orphans, and those to be tried stay until the end.
OrphansStay ==
    /\ IsFiniteSet(Orphans)
    /\ job.op = "orphans" => job.todo \subseteq Orphans

\* The inductive invariant, and the parts of it that the steps keep one by one: about the
\* pool, the orphans, and the thread that holds cs_main.
IInv == TypeOK /\ MapsInStep /\ OrphansStay

PoolOK(p) == p \in Pools /\ Exact(p)

IndexOK ==
    /\ orphans \in [Txids -> Peers \cup {Absent}]
    /\ byPrev \in [Txids -> SUBSET Txids]
    /\ Indexed
    /\ IsFiniteSet(Orphans)

JobOK ==
    /\ active \in Blocks
    /\ best \in Blocks
    /\ job \in {Idle} \cup OrphanJobs \cup MoveJobs
    /\ Moving /\ job.pc = "resurrect" => /\ active # Genesis
                                         /\ best = parent[active]
                                         /\ job.i \in 1..(Len(vtx[active]) + 1)
    /\ Moving /\ job.pc = "confirm" => /\ best # Genesis
                                       /\ active = parent[best]
                                       /\ job.i \in 1..(Len(vtx[best]) + 1)
    /\ ~(Moving /\ job.pc \in {"resurrect", "confirm"}) => best = active
    /\ job.op = "orphans" => job.todo \subseteq Orphans

LEMMA Parts == IInv <=> PoolOK(pool) /\ IndexOK /\ JobOK
  BY DEF IInv, TypeOK, MapsInStep, OrphansStay, PoolOK, Exact, IndexOK, Indexed, JobOK

-----------------------------------------------------------------------------
(* The data: transactions, the maps of the pool and those of the orphans.  *)

\* What the maps hold of a transaction has its type.
LEMMA TransactionType ==
    ASSUME NEW t \in Txids
    PROVE  /\ Ins(t) \subseteq OutPoints
           /\ Parents(t) \subseteq Txids
           /\ Shielded(t) => tx[t].nf \in Nullifiers
           /\ tx[t].nf \in Nullifiers \cup {Absent}
<1>1. tx[t] \in Transactions
  BY MempoolAssumption
<1>2. /\ tx[t].vin \in Seq(Txids \X Outs)
      /\ tx[t].nf \in Nullifiers \cup {Absent}
  BY <1>1 DEF Transactions
<1>3. \A j \in DOMAIN tx[t].vin : tx[t].vin[j] \in Txids \X Outs
  BY <1>2
<1>4. Ins(t) \subseteq OutPoints
  BY <1>3 DEF Ins, OutPoints
<1>5. Parents(t) \subseteq Txids
  BY <1>4 DEF Parents, OutPoints
<1> QED
  BY <1>2, <1>4, <1>5 DEF Shielded

\* The transactions of a block have ids.
LEMMA BlockTransactions ==
    ASSUME NEW b \in Blocks, NEW i \in Nat, i >= 1, i <= Len(vtx[b])
    PROVE  vtx[b][i].id \in Txids
<1>1. vtx[b] \in Seq(Transactions)
  BY ChainAssumption
<1>2. vtx[b][i] \in Transactions
  BY <1>1
<1> QED
  BY <1>2 DEF Transactions

\* A transaction that is not expired at a height, or soon after it, was not before; one
\* that is final stays so.
LEMMA ExpiresLater ==
    ASSUME NEW t \in Txids, NEW h \in Nat
    PROVE  /\ ~IsExpiringSoonTx(t, h + 1) => ~IsExpiredTx(t, h)
           /\ ~IsExpiredTx(t, h + 1) => ~IsExpiredTx(t, h)
           /\ IsFinalTx(t, h) => IsFinalTx(t, h + 1)
<1>1. /\ expiry[t] \in Nat /\ lockTime[t] \in Nat
      /\ TX_EXPIRING_SOON_THRESHOLD \in Nat
  BY MempoolAssumption
<1> QED
  BY <1>1 DEF IsExpiringSoonTx, IsExpiredTx, IsFinalTx

\* A pool holds transactions.
LEMMA HeldType ==
    ASSUME NEW p \in Pools
    PROVE  Held(p) \subseteq Txids /\ \A e \in p.tx : e.txid \in Txids
  BY DEF Pools, Entry, Held

\* addUnchecked keeps the maps exact for a transaction that conflicts with none in the
\* pool (accept_to_mempool.cpp asks before).
LEMMA AddKeepsExact ==
    ASSUME NEW p \in Pools, Exact(p), NEW t \in Txids, NEW br \in {0, 1},
           NEW c \in BOOLEAN, t \notin Held(p),
           \A m \in p.next : m[1] \notin Ins(t),
           \A m \in p.nfs : m[1] # tx[t].nf
    PROVE  LET q == addUnchecked(p, t, br, c)
           IN  q \in Pools /\ Exact(q)
<1> DEFINE e == [txid |-> t, branch |-> br, coinbase |-> c]
           q == addUnchecked(p, t, br, c)
<1>1. /\ q.tx = p.tx \cup {e}
      /\ q.next = {m \in p.next : m[1] \notin Ins(t)} \cup (Ins(t) \X {t})
      /\ q.nfs = {m \in p.nfs : m[1] # tx[t].nf} \cup (({tx[t].nf} \ {Absent}) \X {t})
      /\ q.tickets = p.tickets \cup (Tickets \cap {t})
  BY DEF addUnchecked
<1>2. e \in Entry /\ e.txid = t
  BY DEF Entry
<1>3. Held(q) = Held(p) \cup {t}
  BY <1>1, <1>2 DEF Held
<1>4. q.next = p.next \cup (Ins(t) \X {t})
  BY <1>1
<1>5. q.nfs = p.nfs \cup (({tx[t].nf} \ {Absent}) \X {t})
  BY <1>1
<1>6. q \in Pools
  <2>1. p.tx \subseteq Entry /\ p.next \subseteq OutPoints \X Txids
        /\ p.nfs \subseteq Nullifiers \X Txids /\ p.tickets \subseteq Txids
    BY DEF Pools
  <2>2. q.tx \subseteq Entry
    BY <2>1, <1>1, <1>2
  <2>3. q.next \subseteq OutPoints \X Txids
    BY <2>1, <1>4, TransactionType
  <2>4. q.nfs \subseteq Nullifiers \X Txids
    BY <2>1, <1>5, TransactionType
  <2>5. q.tickets \subseteq Txids
    BY <2>1, <1>1
  <2>6. q = [tx |-> q.tx, next |-> q.next, nfs |-> q.nfs, tickets |-> q.tickets]
    BY DEF addUnchecked
  <2> HIDE DEF q
  <2> QED
    BY <2>2, <2>3, <2>4, <2>5, <2>6 DEF Pools
<1> HIDE DEF q, e
<1>7. q.next = UNION {Ins(s) \X {s} : s \in Held(q)}
  BY <1>3, <1>4 DEF Exact
<1>8. q.nfs = {<<tx[s].nf, s>> : s \in {s \in Held(q) : Shielded(s)}}
  BY <1>3, <1>5 DEF Exact, Shielded
<1>9. q.tickets = Tickets \cap Held(q)
  BY <1>1, <1>3 DEF Exact
<1>10. \A s \in Held(p) : Ins(s) \cap Ins(t) = {}
  <2> SUFFICES ASSUME NEW s \in Held(p), NEW o \in Ins(s)
               PROVE  o \notin Ins(t)
    OBVIOUS
  <2>1. <<o, s>> \in p.next
    BY DEF Exact
  <2> QED
    BY <2>1
<1>11. \A s \in Held(p) : Shielded(s) => tx[s].nf # tx[t].nf
  <2> SUFFICES ASSUME NEW s \in Held(p), Shielded(s)
               PROVE  tx[s].nf # tx[t].nf
    OBVIOUS
  <2>1. <<tx[s].nf, s>> \in p.nfs
    BY DEF Exact
  <2> QED
    BY <2>1
<1>12. \A s, u \in Held(q) : s # u => /\ Ins(s) \cap Ins(u) = {}
                                      /\ Shielded(s) => tx[s].nf # tx[u].nf
  <2> SUFFICES ASSUME NEW s \in Held(q), NEW u \in Held(q), s # u
               PROVE  /\ Ins(s) \cap Ins(u) = {}
                      /\ Shielded(s) => tx[s].nf # tx[u].nf
    OBVIOUS
  <2>1. CASE s \in Held(p) /\ u \in Held(p)
    BY <2>1 DEF Exact
  <2>2. CASE s = t /\ u \in Held(p)
    BY <2>2, <1>10, <1>11 DEF Shielded
  <2>3. CASE s \in Held(p) /\ u = t
    BY <2>3, <1>10, <1>11
  <2> QED
    BY <2>1, <2>2, <2>3, <1>3
<1> QED
  BY <1>3, <1>6, <1>7, <1>8, <1>9, <1>12 DEF Exact, q

\* The loop of remove keeps the maps exact, whatever it removes: what a transaction
\* spends is spent by no other, so nothing else is taken out of the maps.
LEMMA WithoutKeepsExact ==
    ASSUME NEW p, PoolOK(p), NEW S
    PROVE  PoolOK(Without(p, S))
<1> DEFINE gone == S \cap Held(p)
           spent == UNION {Ins(t) : t \in gone}
           revealed == {tx[t].nf : t \in gone}
           q == Without(p, S)
<1>1. /\ q.tx = {e \in p.tx : e.txid \notin gone}
      /\ q.next = {m \in p.next : m[1] \notin spent}
      /\ q.nfs = {m \in p.nfs : m[1] \notin revealed}
      /\ q.tickets = p.tickets \ gone
      /\ q = [tx |-> q.tx, next |-> q.next, nfs |-> q.nfs, tickets |-> q.tickets]
  BY DEF Without
<1> HIDE DEF q
<1>2. q \in Pools
  <2>1. /\ p.tx \subseteq Entry /\ p.next \subseteq OutPoints \X Txids
        /\ p.nfs \subseteq Nullifiers \X Txids /\ p.tickets \subseteq Txids
    BY DEF PoolOK, Pools
  <2>2. /\ q.tx \subseteq Entry /\ q.next \subseteq OutPoints \X Txids
        /\ q.nfs \subseteq Nullifiers \X Txids /\ q.tickets \subseteq Txids
    BY <2>1, <1>1
  <2> QED
    BY <2>2, <1>1 DEF Pools
<1>3. Held(q) = Held(p) \ gone
  BY <1>1 DEF Held
<1>4. \A s, t \in Held(p) : s # t => /\ Ins(s) \cap Ins(t) = {}
                                     /\ Shielded(s) => tx[s].nf # tx[t].nf
  BY DEF PoolOK, Exact
<1>5. q.next = UNION {Ins(t) \X {t} : t \in Held(q)}
  <2>1. p.next = UNION {Ins(t) \X {t} : t \in Held(p)}
    BY DEF PoolOK, Exact
  <2>2. ASSUME NEW m \in q.next
        PROVE  m \in UNION {Ins(t) \X {t} : t \in Held(q)}
    <3>1. PICK t \in Held(p) : m \in Ins(t) \X {t}
      BY <2>1, <1>1
    <3>2. t \notin gone
      BY <3>1, <1>1
    <3> QED
      BY <3>1, <3>2, <1>3
  <2>3. ASSUME NEW t \in Held(q), NEW m \in Ins(t) \X {t}
        PROVE  m \in q.next
    <3>1. m \in p.next /\ t \in Held(p) /\ t \notin gone
      BY <2>1, <1>3
    <3>2. m[1] \notin spent
      BY <3>1, <1>4
    <3> QED
      BY <3>1, <3>2, <1>1
  <2> QED
    BY <2>2, <2>3
<1>6. q.nfs = {<<tx[t].nf, t>> : t \in {t \in Held(q) : Shielded(t)}}
  <2>1. p.nfs = {<<tx[t].nf, t>> : t \in {t \in Held(p) : Shielded(t)}}
    BY DEF PoolOK, Exact
  <2>2. ASSUME NEW m \in q.nfs
        PROVE  m \in {<<tx[t].nf, t>> : t \in {t \in Held(q) : Shielded(t)}}
    <3>1. PICK t \in Held(p) : Shielded(t) /\ m = <<tx[t].nf, t>>
      BY <2>1, <1>1
    <3>2. t \notin gone
      BY <3>1, <1>1
    <3> QED
      BY <3>1, <3>2, <1>3
  <2>3. ASSUME NEW t \in Held(q), Shielded(t)
        PROVE  <<tx[t].nf, t>> \in q.nfs
    <3>1. <<tx[t].nf, t>> \in p.nfs /\ t \in Held(p) /\ t \notin gone
      BY <2>1, <2>3, <1>3
    <3>2. tx[t].nf \notin revealed
      BY <3>1, <2>3, <1>4
    <3> QED
      BY <3>1, <3>2, <1>1
  <2> QED
    BY <2>2, <2>3
<1>7. q.tickets = Tickets \cap Held(q)
  BY <1>1, <1>3 DEF PoolOK, Exact
<1>8. \A s, t \in Held(q) : s # t => /\ Ins(s) \cap Ins(t) = {}
                                     /\ Shielded(s) => tx[s].nf # tx[t].nf
  BY <1>3, <1>4
<1>9. PoolOK(q)
  BY <1>2, <1>5, <1>6, <1>7, <1>8 DEF PoolOK, Exact
<1> QED
  BY SMTT(30), <1>9 DEF q

\* So does remove, with all that depends on the transactions it is called for.
LEMMA RemoveKeepsExact ==
    ASSUME NEW p, PoolOK(p), NEW S, remove(p, S)
    PROVE  PoolOK(pool')
<1>1. pool' = Without(p, Doomed(p, S))
  BY DEF remove
<1> QED
  BY <1>1, WithoutKeepsExact

\* AcceptToMemoryPool adds only what conflicts with nothing.
LEMMA AcceptedKeepsExact ==
    ASSUME PoolOK(pool), NEW t \in Txids, "accepted" \in Verdicts(t)
    PROVE  PoolOK(Added(t))
<1>1. Eligible(t)
  BY DEF Verdicts
<1>2. CurrentEpochBranchId(NextHeight) \in {0, 1}
  BY DEF CurrentEpochBranchId
<1>3. (\E k \in Parents(t) \ Held(pool) : k \in Coinbases) \in BOOLEAN
  OBVIOUS
<1>4. /\ t \notin Held(pool)
      /\ \A m \in pool.next : m[1] \notin Ins(t)
      /\ \A m \in pool.nfs : m[1] # tx[t].nf
  BY <1>1 DEF Eligible
<1> QED
  BY Zenon, <1>2, <1>3, <1>4, AddKeepsExact DEF PoolOK, Added

\* AddOrphanTx, LimitOrphanTxSize and EraseOrphanTx keep the index of the orphans exact:
\* those that go leave it, the one that comes enters it under all it spends from.
LEMMA KeepIndex ==
    ASSUME IndexOK, NEW all \in [Txids -> Peers \cup {Absent}], NEW K \in SUBSET Txids,
           \A t \in K : all[t] # Absent /\ ~Shielded(t),
           IsFiniteSet(K), Cardinality(K) <= MaxOrphans, Keep(all, K)
    PROVE  IndexOK' /\ Orphans' = K
<1>1. /\ orphans' = [t \in Txids |-> IF t \in K THEN all[t] ELSE Absent]
      /\ byPrev' = [k \in Txids |->
                       (byPrev[k] \cap K) \cup {t \in K \ Orphans : k \in Parents(t)}]
  BY DEF Keep
<1>2. orphans' \in [Txids -> Peers \cup {Absent}]
  BY <1>1
<1>3. byPrev' \in [Txids -> SUBSET Txids]
  BY <1>1 DEF IndexOK
<1>4. Orphans' = K
  BY <1>1 DEF Orphans
<1>5. ASSUME NEW t \in Txids
      PROVE  {k \in Txids : t \in byPrev'[k]} = IF t \in K THEN Parents(t) ELSE {}
  <2>1. {k \in Txids : t \in byPrev[k]} = IF t \in Orphans THEN Parents(t) ELSE {}
    BY DEF IndexOK, Indexed
  <2>2. \A k \in Txids : t \in byPrev'[k] <=>
                             t \in K /\ (t \in byPrev[k] \/ (t \notin Orphans /\ k \in Parents(t)))
    BY <1>1
  <2>3. Parents(t) \subseteq Txids
    BY TransactionType
  <2>4. CASE t \notin K
    BY <2>2, <2>4
  <2>5. CASE t \in K /\ t \in Orphans
    BY <2>1, <2>2, <2>3, <2>5
  <2>6. CASE t \in K /\ t \notin Orphans
    BY <2>1, <2>2, <2>3, <2>6
  <2> QED
    BY <2>4, <2>5, <2>6
<1>6. Indexed'
  BY <1>4, <1>5 DEF Indexed
<1> QED
  BY <1>2, <1>3, <1>4, <1>6 DEF IndexOK

\* Erasing orphans, whichever they are.
LEMMA EraseKeepsIndex ==
    ASSUME IndexOK, NEW K \in SUBSET Orphans, Keep(orphans, K)
    PROVE  IndexOK' /\ Orphans' = K
<1>1. IsFiniteSet(K) /\ Cardinality(K) <= Cardinality(Orphans)
  BY FS_Subset DEF IndexOK
<1>2. Cardinality(K) \in Nat /\ Cardinality(Orphans) \in Nat
  BY <1>1, FS_CardinalityType DEF IndexOK
<1>3. Cardinality(K) <= MaxOrphans
  BY <1>1, <1>2, MempoolAssumption DEF IndexOK, Indexed
<1>4. K \in SUBSET Txids /\ \A t \in K : orphans[t] # Absent /\ ~Shielded(t)
  BY DEF Orphans, IndexOK, Indexed
<1>5. orphans \in [Txids -> Peers \cup {Absent}]
  BY DEF IndexOK
<1> QED
  BY <1>1, <1>3, <1>4, <1>5, KeepIndex

\* An orphan comes, and as many go at random as are too many.
LEMMA AddKeepsIndex ==
    ASSUME IndexOK, NEW t \in Txids, NEW from \in Peers, ~Shielded(t), AddOrphanTx(t, from)
    PROVE  IndexOK'
<1> DEFINE all == [orphans EXCEPT ![t] = from]
           some == Orphans \cup {t}
<1>1. PICK K \in SUBSET some :
         /\ Cardinality(K) = IF Cardinality(some) > MaxOrphans THEN MaxOrphans
                             ELSE Cardinality(some)
         /\ Keep(all, K)
  BY DEF AddOrphanTx
<1>2. IsFiniteSet(some)
  BY FS_AddElement DEF IndexOK
<1>3. IsFiniteSet(K)
  BY <1>2, FS_Subset
<1>4. Cardinality(some) \in Nat
  BY <1>2, FS_CardinalityType
<1>5. Cardinality(K) <= MaxOrphans
  BY <1>1, <1>4, MempoolAssumption
<1>6. all \in [Txids -> Peers \cup {Absent}]
  BY DEF IndexOK
<1>7. K \in SUBSET Txids
  BY DEF Orphans
<1>8. \A u \in K : all[u] # Absent /\ ~Shielded(u)
  BY MempoolAssumption DEF Orphans, IndexOK, Indexed
<1> HIDE DEF all
<1> QED
  BY <1>1, <1>3, <1>5, <1>6, <1>7, <1>8, KeepIndex

\* remove leaves nothing that it was called for.
LEMMA RemoveLeaves ==
    ASSUME NEW p, NEW S, remove(p, S)
    PROVE  pool'.tx \subseteq {e \in p.tx : e.txid \notin S}
<1>1. pool' = Without(p, Doomed(p, S))
  BY DEF remove
<1>2. S \subseteq Doomed(p, S)
  BY DEF Doomed
<1> HIDE DEF Doomed
<1>3. pool'.tx = {e \in p.tx : e.txid \notin Doomed(p, S) \cap Held(p)}
  BY <1>1 DEF Without
<1>4. \A e \in p.tx : e.txid \in Held(p)
  BY DEF Held
<1> QED
  BY <1>2, <1>3, <1>4

\* What AcceptToMemoryPool adds is final and signed for the next block, and not expired.
LEMMA AcceptedFits ==
    ASSUME TypeOK, NEW t \in Txids, "accepted" \in Verdicts(t), NEW e \in Added(t).tx,
           e \notin pool.tx
    PROVE  /\ e.txid = t
           /\ e.branch = signedFor[e.txid]
           /\ e.branch = CurrentEpochBranchId(NextHeight)
           /\ IsFinalTx(e.txid, NextHeight)
           /\ ~IsExpiredTx(e.txid, height[active])
<1>1. Eligible(t) /\ Complete(t)
  BY DEF Verdicts
<1>2. e.txid = t /\ e.branch = CurrentEpochBranchId(NextHeight)
  BY DEF Added, addUnchecked
<1>3. signedFor[t] = CurrentEpochBranchId(NextHeight)
  BY <1>1 DEF Complete
<1>4. IsFinalTx(t, NextHeight) /\ ~IsExpiringSoonTx(t, NextHeight)
  BY <1>1 DEF Eligible
<1>5. height[active] \in Nat
  BY ChainAssumption DEF TypeOK
<1>6. ~IsExpiredTx(t, height[active])
  BY <1>4, <1>5, ExpiresLater DEF NextHeight
<1> QED
  BY <1>2, <1>3, <1>4, <1>6

-----------------------------------------------------------------------------
(* The inductive invariant.                                                *)

\* What the thread that holds cs_main is at tells which fields its job has.
LEMMA JobKinds ==
    ASSUME JobOK
    PROVE  /\ Moving => job \in MoveJobs
           /\ job.op = "orphans" => job \in OrphanJobs
           /\ job = Idle => ~Moving /\ job.op # "orphans"
           /\ ~(Moving /\ job.op = "orphans")
<1>1. job \in {Idle} \cup OrphanJobs \cup MoveJobs
  BY DEF JobOK
<1>2. CASE job = Idle
  BY <1>2 DEF Idle, Moving
<1>3. CASE job \in OrphanJobs
  <2>1. job.op = "orphans"
    BY <1>3 DEF OrphanJobs
  <2> QED
    BY <1>3, <2>1 DEF Moving, Idle
<1>4. CASE job \in MoveJobs
  <2>1. job.op \in {"activate", "invalidate"}
    BY <1>4 DEF MoveJobs
  <2> QED
    BY <1>4, <2>1 DEF Moving, Idle
<1> QED
  BY <1>1, <1>2, <1>3, <1>4

\* What a step does to the pool: it stays, an eligible transaction is added, or
\* transactions are removed.
LEMMA PoolStep ==
    ASSUME IInv, [Next]_vars
    PROVE  PoolOK(pool')
<1> USE Parts
<1>1. PoolOK(pool)
  OBVIOUS
<1>2. CASE UNCHANGED pool
  BY <1>1, <1>2
<1>3. ASSUME NEW t \in Txids, NEW from \in Peers, ReceiveTx(t, from)
      PROVE  PoolOK(pool')
  BY <1>1, <1>3, AcceptedKeepsExact DEF ReceiveTx
<1>4. ASSUME NEW t \in Txids, LocalTx(t)
      PROVE  PoolOK(pool')
  BY <1>1, <1>4, AcceptedKeepsExact DEF LocalTx
<1>5. ASSUME NEW t \in Txids, TryOrphan(t)
      PROVE  PoolOK(pool')
  BY <1>1, <1>5, AcceptedKeepsExact DEF TryOrphan
<1>6. CASE Resurrect
  <2> DEFINE t == vtx[active][job.i].id
  <2>1. t \in Txids
    <3>1. active \in Blocks /\ job.i \in Nat /\ job.i >= 1 /\ job.i <= Len(vtx[active])
      BY <1>6, ChainAssumption DEF Resurrect, JobOK
    <3> QED
      BY <3>1, BlockTransactions
  <2>2. PICK v \in Verdicts(t) :
           IF v = "accepted" THEN pool' = Added(t) ELSE remove(pool, {t})
    BY SMTT(30), <1>6 DEF Resurrect
  <2> QED
    BY <1>1, <2>1, <2>2, AcceptedKeepsExact, RemoveKeepsExact
<1>7. CASE FinishDisconnect
  BY <1>1, <1>2, <1>7, RemoveKeepsExact DEF FinishDisconnect, removeWithAnchor
<1>8. CASE removeForBlock
  <2> DEFINE t == vtx[best][job.i].id
  <2>1. removeConflicts(Without(pool, {t}), t)
    BY <1>8 DEF removeForBlock
  <2> QED
    BY Zenon, <1>1, <2>1, WithoutKeepsExact, RemoveKeepsExact DEF removeConflicts
<1>9. CASE FinishConnect
  BY <1>1, <1>9, RemoveKeepsExact DEF FinishConnect, removeExpired
<1>10. CASE RemoveForReorg
  BY <1>1, <1>2, <1>10, RemoveKeepsExact DEF RemoveForReorg, removeForReorg
<1>11. CASE RemoveWithoutBranchId
  BY <1>1, <1>11, RemoveKeepsExact DEF RemoveWithoutBranchId, removeWithoutBranchId
<1> QED
  BY Zenon, <1>2, <1>3, <1>4, <1>5, <1>6, <1>7, <1>8, <1>9, <1>10, <1>11
     DEF Next, OrphanStep, MoveStep, vars, EraseOrphansFor, ActivateBestChainStep,
         InvalidateBlock, TakeWork, EraseDecided, DisconnectTip, ConnectTip, StopWalking

\* What a step does to the orphans: they stay, one comes, or some go.
LEMMA IndexStep ==
    ASSUME IInv, [Next]_vars
    PROVE  IndexOK'
<1> USE Parts
<1>1. CASE UNCHANGED orphanMaps
  BY <1>1 DEF orphanMaps, IndexOK, Indexed, Orphans
<1>2. ASSUME NEW t \in Txids, NEW from \in Peers, ReceiveTx(t, from)
      PROVE  IndexOK'
  BY <1>1, <1>2, AddKeepsIndex DEF ReceiveTx
<1>3. CASE EraseDecided
  <2>1. Keep(orphans, Orphans \ job.erase)
    BY <1>3 DEF EraseDecided
  <2> QED
    BY <2>1, EraseKeepsIndex
<1>4. ASSUME NEW from \in Peers, EraseOrphansFor(from)
      PROVE  IndexOK'
  <2>1. Keep(orphans, {t \in Orphans : orphans[t] # from})
    BY <1>4 DEF EraseOrphansFor
  <2> QED
    BY <2>1, EraseKeepsIndex
<1> QED
  BY <1>1, <1>2, <1>3, <1>4
     DEF Next, OrphanStep, MoveStep, vars, orphanMaps, LocalTx, ActivateBestChainStep,
         InvalidateBlock, TakeWork, TryOrphan, DisconnectTip, Resurrect, FinishDisconnect,
         ConnectTip, removeForBlock, FinishConnect, StopWalking, RemoveForReorg,
         RemoveWithoutBranchId

\* A step of ProcessOrphanTxs leaves the tip alone, and what it still has to try is among
\* the orphans.
LEMMA OrphanJobStep ==
    ASSUME IInv, job' \in OrphanJobs, job'.todo \subseteq Orphans',
           job = Idle \/ job.op = "orphans", UNCHANGED chain
    PROVE  JobOK'
<1>1. JobOK
  BY Parts
<1>2. ~Moving
  BY <1>1, JobKinds
<1>3. job'.op = "orphans" /\ ~Moving'
  BY DEF OrphanJobs, Moving
<1> QED
  BY <1>1, <1>2, <1>3 DEF JobOK, chain

\* The end of what a thread does under cs_main.
LEMMA IdleStep ==
    ASSUME IInv, job' = Idle, UNCHANGED chain, Moving => job.pc = "branch"
    PROVE  JobOK'
<1>1. JobOK
  BY Parts
<1>2. job'.op = "none" /\ ~Moving'
  BY DEF Idle, Moving
<1> QED
  BY <1>1, <1>2 DEF JobOK, chain

\* A step of a thread that moves the tip, by the place it goes to.
LEMMA MoveJobStep ==
    ASSUME IInv, job' \in MoveJobs, active' \in Blocks, best' \in Blocks,
           job'.pc = "resurrect" => /\ active' # Genesis
                                    /\ best' = parent[active']
                                    /\ job'.i \in 1..(Len(vtx[active']) + 1),
           job'.pc = "confirm" => /\ best' # Genesis
                                  /\ active' = parent[best']
                                  /\ job'.i \in 1..(Len(vtx[best']) + 1),
           job'.pc \notin {"resurrect", "confirm"} => best' = active'
    PROVE  JobOK'
<1>1. job'.op \in {"activate", "invalidate"}
  BY DEF MoveJobs
<1> QED
  BY <1>1 DEF JobOK, Moving

LEMMA JobStep ==
    ASSUME IInv, [Next]_vars
    PROVE  JobOK'
<1>1. JobOK /\ IndexOK
  BY Parts
<1>2. /\ active \in Blocks /\ best \in Blocks
      /\ height[active] \in Nat
      /\ Len(vtx[active]) \in Nat /\ Len(vtx[best]) \in Nat
      /\ active # Genesis => parent[active] \in Blocks
  BY <1>1, ChainAssumption DEF JobOK
<1>3. CASE UNCHANGED vars
  BY <1>1, <1>3 DEF JobOK, Moving, Orphans, vars
<1>4. ASSUME NEW t \in Txids, NEW from \in Peers, ReceiveTx(t, from)
      PROVE  JobOK'
  <2>1. CASE /\ job' = [op |-> "orphans", txid |-> t, queue |-> <<t>>, todo |-> {},
                        bad |-> {}, erase |-> {}]
             /\ job = Idle
             /\ UNCHANGED chain
    <3>1. job' \in OrphanJobs /\ job'.todo = {}
      BY <2>1 DEF OrphanJobs
    <3> QED
      BY <2>1, <3>1, OrphanJobStep
  <2>2. CASE UNCHANGED job /\ job = Idle /\ UNCHANGED chain
    BY <1>1, <2>2, JobKinds, IdleStep
  <2> QED
    BY <1>4, <2>1, <2>2 DEF ReceiveTx
<1>5. ASSUME NEW t \in Txids, LocalTx(t)
      PROVE  JobOK'
  BY <1>1, <1>5, JobKinds, IdleStep DEF LocalTx
<1>6. ASSUME NEW from \in Peers, EraseOrphansFor(from)
      PROVE  JobOK'
  BY <1>1, <1>6 DEF EraseOrphansFor, JobOK, Moving, chain
<1>7. ASSUME NEW b \in Blocks, ActivateBestChainStep(b)
      PROVE  JobOK'
  <2>1. job' \in MoveJobs /\ job'.pc = "walk"
    BY <1>2, <1>7 DEF ActivateBestChainStep, MoveJobs
  <2>2. active' = active /\ best' = best /\ best = active
    BY <1>1, <1>7, JobKinds DEF ActivateBestChainStep, chain, JobOK
  <2> QED
    BY <1>2, <2>1, <2>2, MoveJobStep
<1>8. ASSUME NEW b \in Blocks \ {Genesis}, InvalidateBlock(b)
      PROVE  JobOK'
  <2>1. job' \in MoveJobs /\ job'.pc = "walk"
    BY <1>2, <1>8, ChainAssumption DEF InvalidateBlock, MoveJobs
  <2>2. active' = active /\ best' = best /\ best = active
    BY <1>1, <1>8, JobKinds DEF InvalidateBlock, chain, JobOK
  <2> QED
    BY <1>2, <2>1, <2>2, MoveJobStep
<1>9. CASE TakeWork
  <2>1. job \in OrphanJobs /\ job.queue # <<>>
    BY <1>1, <1>9, JobKinds DEF TakeWork
  <2>2. job.queue \in Seq(Txids)
    BY <2>1 DEF OrphanJobs
  <2>3. Head(job.queue) \in Txids /\ Tail(job.queue) \in Seq(Txids)
    BY <2>1, <2>2
  <2>4. byPrev[Head(job.queue)] \subseteq Orphans
    <3> SUFFICES ASSUME NEW t \in byPrev[Head(job.queue)]
                 PROVE  t \in Orphans
      OBVIOUS
    <3>1. t \in Txids
      BY <1>1, <2>3 DEF IndexOK
    <3>2. Head(job.queue) \in {k \in Txids : t \in byPrev[k]}
      BY <2>3
    <3> QED
      BY <1>1, <3>1, <3>2 DEF IndexOK, Indexed
  <2>5. job' = [job EXCEPT !.queue = Tail(job.queue), !.todo = byPrev[Head(job.queue)]]
    BY <1>9 DEF TakeWork
  <2>6. byPrev[Head(job.queue)] \subseteq Txids
    BY <2>4 DEF Orphans
  <2>7. job' \in OrphanJobs /\ job'.todo = byPrev[Head(job.queue)]
    BY <2>1, <2>3, <2>5, <2>6 DEF OrphanJobs
  <2>8. Orphans' = Orphans /\ UNCHANGED chain
    BY <1>9 DEF TakeWork, orphanMaps, Orphans
  <2> QED
    BY <1>9, <2>4, <2>7, <2>8, OrphanJobStep DEF TakeWork
<1>10. ASSUME NEW t \in Txids, TryOrphan(t)
       PROVE  JobOK'
  <2>1. job \in OrphanJobs /\ job.todo \subseteq Orphans
    BY <1>1, <1>10, JobKinds DEF TryOrphan, JobOK
  <2>2. Orphans' = Orphans /\ UNCHANGED chain
    BY <1>10 DEF TryOrphan, orphanMaps, Orphans
  <2>3. orphans[t] \in Peers
    BY <1>1, <1>10, <2>1 DEF TryOrphan, Orphans, IndexOK
  <2>4. job' \in OrphanJobs /\ job'.todo = job.todo \ {t}
    <3>1. CASE job' = [job EXCEPT !.todo = job.todo \ {t}]
      BY <2>1, <3>1 DEF OrphanJobs
    <3>2. ASSUME NEW v, job' = Tried(t, v)
          PROVE  job' \in OrphanJobs /\ job'.todo = job.todo \ {t}
      <4> DEFINE q == IF v = "accepted" THEN Append(job.queue, t) ELSE job.queue
                 b == IF v = "punished" THEN job.bad \cup {orphans[t]} ELSE job.bad
                 e == IF v = "missing" THEN job.erase ELSE job.erase \cup {t}
      <4>1. q \in Seq(Txids) /\ b \subseteq Peers /\ e \subseteq Txids
        BY <2>1, <2>3 DEF OrphanJobs
      <4>2. job' = [job EXCEPT !.todo = job.todo \ {t}, !.queue = q, !.bad = b, !.erase = e]
        BY <3>2 DEF Tried
      <4> HIDE DEF q, b, e
      <4> QED
        BY <2>1, <4>1, <4>2 DEF OrphanJobs
    <3> QED
      BY <1>10, <3>1, <3>2 DEF TryOrphan
  <2> QED
    BY <1>10, <2>1, <2>2, <2>4, OrphanJobStep DEF TryOrphan
<1>11. CASE EraseDecided
  BY <1>1, <1>11, JobKinds, IdleStep DEF EraseDecided
<1>12. CASE DisconnectTip
  <2>1. job \in MoveJobs /\ best = active /\ active # Genesis
    BY <1>1, <1>12, JobKinds DEF DisconnectTip, JobOK
  <2>2. job' = [job EXCEPT !.pc = "resurrect", !.i = 1, !.disconnected = TRUE]
    BY <1>12 DEF DisconnectTip
  <2>3. job' \in MoveJobs /\ job'.pc = "resurrect" /\ job'.i = 1
    BY Zenon, <2>1, <2>2 DEF MoveJobs
  <2>4. active' = active /\ best' = parent[active]
    BY <1>12 DEF DisconnectTip
  <2> QED
    BY <1>2, <2>1, <2>3, <2>4, MoveJobStep
<1>13. CASE Resurrect
  <2>1. /\ job \in MoveJobs /\ best = parent[active] /\ active # Genesis
        /\ job.i \in 1..(Len(vtx[active]) + 1) /\ job.i <= Len(vtx[active])
        /\ job.pc = "resurrect"
    BY <1>1, <1>13, JobKinds DEF Resurrect, JobOK
  <2>2. job' = [job EXCEPT !.i = job.i + 1]
    BY <1>13 DEF Resurrect
  <2>3. job' \in MoveJobs /\ job'.pc = "resurrect" /\ job'.i = job.i + 1
    BY <2>1, <2>2 DEF MoveJobs
  <2>4. active' = active /\ best' = best
    BY <1>13 DEF Resurrect, chain
  <2> QED
    BY <1>2, <2>1, <2>3, <2>4, MoveJobStep
<1>14. CASE FinishDisconnect
  <2>1. job \in MoveJobs
    BY <1>1, <1>14, JobKinds DEF FinishDisconnect
  <2>2. job' = [job EXCEPT !.pc = "walk", !.i = 0]
    BY <1>14 DEF FinishDisconnect
  <2>3. job' \in MoveJobs /\ job'.pc = "walk"
    BY <2>1, <2>2 DEF MoveJobs
  <2>4. active' = best /\ best' = best
    BY <1>14 DEF FinishDisconnect
  <2> QED
    BY <1>2, <2>3, <2>4, MoveJobStep
<1>15. ASSUME NEW b \in Blocks \ {Genesis}, ConnectTip(b)
       PROVE  JobOK'
  <2>1. job \in MoveJobs /\ best = active
    BY <1>1, <1>15, JobKinds DEF ConnectTip, JobOK
  <2>2. job' = [job EXCEPT !.pc = "confirm", !.i = 1]
    BY <1>15 DEF ConnectTip
  <2>3. job' \in MoveJobs /\ job'.pc = "confirm" /\ job'.i = 1
    BY Zenon, <2>1, <2>2 DEF MoveJobs
  <2>4. active' = parent[b] /\ best' = b /\ active' = active
    BY <1>15 DEF ConnectTip
  <2>5. Len(vtx[b]) \in Nat
    BY ChainAssumption
  <2> QED
    BY <1>2, <2>3, <2>4, <2>5, MoveJobStep
<1>16. CASE removeForBlock
  <2>1. /\ job \in MoveJobs /\ active = parent[best] /\ best # Genesis
        /\ job.i \in 1..(Len(vtx[best]) + 1) /\ job.i <= Len(vtx[best])
        /\ job.pc = "confirm"
    BY <1>1, <1>16, JobKinds DEF removeForBlock, JobOK
  <2>2. job' = [job EXCEPT !.i = job.i + 1]
    BY <1>16 DEF removeForBlock
  <2>3. job' \in MoveJobs /\ job'.pc = "confirm" /\ job'.i = job.i + 1
    BY <2>1, <2>2 DEF MoveJobs
  <2>4. active' = active /\ best' = best
    BY <1>16 DEF removeForBlock, chain
  <2> QED
    BY <1>2, <2>1, <2>3, <2>4, MoveJobStep
<1>17. CASE FinishConnect
  <2>1. job \in MoveJobs
    BY <1>1, <1>17, JobKinds DEF FinishConnect
  <2>2. job' = [job EXCEPT !.pc = IF height[best] > job.from THEN "reorg" ELSE "walk", !.i = 0]
    BY <1>17 DEF FinishConnect
  <2>3. job' \in MoveJobs /\ job'.pc \in {"walk", "reorg"}
    BY <2>1, <2>2 DEF MoveJobs
  <2>4. active' = best /\ best' = best
    BY <1>17 DEF FinishConnect
  <2> QED
    BY <1>2, <2>3, <2>4, MoveJobStep
<1>18. CASE StopWalking
  <2>1. job \in MoveJobs /\ best = active
    BY <1>1, <1>18, JobKinds DEF StopWalking, JobOK
  <2>2. job' = [job EXCEPT !.pc = "reorg"] /\ UNCHANGED chain
    BY <1>18 DEF StopWalking
  <2>3. job' \in MoveJobs /\ job'.pc = "reorg"
    BY <2>1, <2>2 DEF MoveJobs
  <2> QED
    BY <1>2, <2>1, <2>2, <2>3, MoveJobStep DEF chain
<1>19. CASE RemoveForReorg
  <2>1. job \in MoveJobs /\ best = active
    BY <1>1, <1>19, JobKinds DEF RemoveForReorg, JobOK
  <2>2. job' = [job EXCEPT !.pc = "branch"] /\ UNCHANGED chain
    BY <1>19 DEF RemoveForReorg
  <2>3. job' \in MoveJobs /\ job'.pc = "branch"
    BY <2>1, <2>2 DEF MoveJobs
  <2> QED
    BY <1>2, <2>1, <2>2, <2>3, MoveJobStep DEF chain
<1>20. CASE RemoveWithoutBranchId
  BY <1>20, IdleStep DEF RemoveWithoutBranchId
<1> QED
  BY SMTT(30), <1>3, <1>4, <1>5, <1>6, <1>7, <1>8, <1>9, <1>10, <1>11, <1>12, <1>13, <1>14, <1>15,
     <1>16, <1>17, <1>18, <1>19, <1>20 DEF Next, OrphanStep, MoveStep

\* Init: nothing is anywhere.
LEMMA InitIInv == Init => IInv
<1> SUFFICES ASSUME Init
             PROVE  PoolOK(pool) /\ IndexOK /\ JobOK
  BY Parts
<1>1. PoolOK(pool)
  BY DEF Init, PoolOK, Pools, Exact, Held
<1>2. IndexOK
  <2>1. Orphans = {}
    BY DEF Init, Orphans
  <2>2. IsFiniteSet(Orphans) /\ Cardinality(Orphans) = 0
    BY <2>1, FS_EmptySet
  <2> QED
    BY <2>1, <2>2, MempoolAssumption DEF Init, IndexOK, Indexed
<1>3. JobOK
  BY SMTT(30), ChainAssumption DEF Init, JobOK, Idle, Moving
<1> QED
  BY <1>1, <1>2, <1>3

LEMMA NextIInv == IInv /\ [Next]_vars => IInv'
<1> SUFFICES ASSUME IInv, [Next]_vars
             PROVE  IInv'
  OBVIOUS
<1>1. PoolOK(pool)' /\ IndexOK' /\ JobOK'
  BY PoolStep, IndexStep, JobStep
<1> QED
  BY <1>1 DEF IInv, TypeOK, MapsInStep, OrphansStay, PoolOK, Exact, IndexOK, Indexed, JobOK

\* The maps of the pool and of the orphans have their types, and the coins are those of
\* the block that the thread moving the tip has reached.
THEOREM TypeCorrect == Spec => []TypeOK
<1>1. IInv => TypeOK
  BY DEF IInv
<1> QED
  BY InitIInv, NextIInv, <1>1, PTL DEF Spec

\* CTxMemPool::addUnchecked and remove keep mapNextTx, the nullifier map and the ticket
\* tracker in step with mapTx, the pool never holds a double spend, and the orphan index
\* is exact and bounded: through every interleaving of transactions, peers and
\* reorganizations, for any tree of blocks.
THEOREM PoolMapsInStep == Spec => []MapsInStep
<1>1. IInv => MapsInStep
  BY SMTT(30) DEF IInv
<1> QED
  BY InitIInv, NextIInv, <1>1, PTL DEF Spec

-----------------------------------------------------------------------------
(* What is left in the pool may be mined.                                  *)

\* An entry keeps the branch its transaction is signed for.  Nothing in the pool is
\* expired at the height of the tip, even while it moves.  Only a thread that has
\* disconnected a block may leave transactions that are not final, until the end.
Fits ==
    /\ \A e \in pool.tx : e.branch = signedFor[e.txid]
    /\ \A e \in pool.tx : ~IsExpiredTx(e.txid, height[active])
    /\ (Moving => ~job.disconnected \/ job.pc = "branch") =>
          \A e \in pool.tx : IsFinalTx(e.txid, NextHeight)
    /\ Moving /\ job.pc = "resurrect" => job.disconnected
    /\ ~Moving => \A e \in pool.tx : e.branch = CurrentEpochBranchId(NextHeight)

FInv == IInv /\ Fits

\* A step that adds at most an accepted transaction and leaves the tip and the place of
\* the thread as they are to Fits.
LEMMA FitsIfAccepted ==
    ASSUME FInv, NEW t \in Txids, UNCHANGED active,
           pool'.tx \subseteq pool.tx \/ ("accepted" \in Verdicts(t) /\ pool' = Added(t)),
           Moving' => Moving /\ job'.disconnected = job.disconnected /\ job'.pc = job.pc,
           Moving => Moving'
    PROVE  Fits'
<1>1. TypeOK /\ Fits
  BY DEF FInv, IInv
<1>2. \A e \in pool'.tx : e \notin pool.tx =>
         /\ e.branch = signedFor[e.txid]
         /\ e.branch = CurrentEpochBranchId(NextHeight)
         /\ IsFinalTx(e.txid, NextHeight)
         /\ ~IsExpiredTx(e.txid, height[active])
  BY <1>1, AcceptedFits
<1>3. NextHeight' = NextHeight /\ height[active'] = height[active]
  BY DEF NextHeight
<1>4. \A e \in pool'.tx : e.branch = signedFor[e.txid] /\ ~IsExpiredTx(e.txid, height[active'])
  BY <1>1, <1>2, <1>3 DEF Fits
<1>5. (Moving' => ~job'.disconnected \/ job'.pc = "branch") =>
         \A e \in pool'.tx : IsFinalTx(e.txid, NextHeight')
  BY <1>1, <1>2, <1>3 DEF Fits
<1>6. ~Moving' => \A e \in pool'.tx : e.branch = CurrentEpochBranchId(NextHeight')
  BY <1>1, <1>2, <1>3 DEF Fits
<1>7. Moving' /\ job'.pc = "resurrect" => job'.disconnected
  BY <1>1 DEF Fits
<1> QED
  BY Zenon, <1>4, <1>5, <1>6, <1>7 DEF Fits, IsExpiredTx, IsFinalTx, CurrentEpochBranchId

\* The heights at which the tip may be after a step.
LEMMA Heights ==
    ASSUME IInv
    PROVE  /\ height[active] \in Nat /\ height[best] \in Nat
           /\ Moving /\ job.pc = "resurrect" => height[active] = height[best] + 1
           /\ Moving /\ job.pc = "confirm" => height[best] = height[active] + 1
  BY SMTT(30), ChainAssumption DEF IInv, TypeOK

\* A step that only removes and keeps the tip.
LEMMA FitsIfFewer ==
    ASSUME FInv, UNCHANGED active, pool'.tx \subseteq pool.tx,
           Moving' /\ job'.pc = "resurrect" => job'.disconnected,
           (Moving' => ~job'.disconnected \/ job'.pc = "branch") =>
              \A e \in pool'.tx : IsFinalTx(e.txid, NextHeight),
           ~Moving' => \A e \in pool'.tx : e.branch = CurrentEpochBranchId(NextHeight)
    PROVE  Fits'
<1>1. \A e \in pool'.tx : e.branch = signedFor[e.txid] /\ ~IsExpiredTx(e.txid, height[active'])
  BY DEF FInv, Fits
<1>2. NextHeight' = NextHeight
  BY DEF NextHeight
<1> QED
  BY <1>1, <1>2 DEF Fits, IsExpiredTx, IsFinalTx, CurrentEpochBranchId

\* A step that removes and goes on with the move without reaching a new tip.
LEMMA FitsOnTheWay ==
    ASSUME FInv, UNCHANGED active, pool'.tx \subseteq pool.tx, Moving, Moving',
           job.pc # "branch", job'.pc # "branch", job.disconnected => job'.disconnected,
           job'.pc = "resurrect" => job'.disconnected,
           job.disconnected \in BOOLEAN, job'.disconnected \in BOOLEAN
    PROVE  Fits'
<1>1. ~job'.disconnected => \A e \in pool'.tx : IsFinalTx(e.txid, NextHeight)
  BY DEF FInv, Fits
<1> QED
  BY <1>1, FitsIfFewer

LEMMA FitsStep ==
    ASSUME FInv, [Next]_vars
    PROVE  Fits'
<1>1. IInv /\ Fits /\ JobOK /\ PoolOK(pool)
  BY Parts DEF FInv
<1>2. IInv'
  BY <1>1, NextIInv
<1>3. JobOK'
  BY <1>2 DEF IInv, TypeOK, OrphansStay, JobOK
<1>4. CASE UNCHANGED <<active, pool, job>>
  BY <1>1, <1>4 DEF Fits, Moving, NextHeight, IsExpiredTx, IsFinalTx, CurrentEpochBranchId
<1>5. ASSUME NEW t \in Txids, NEW from \in Peers, ReceiveTx(t, from)
      PROVE  Fits'
  <2>1. ~Moving
    BY <1>1, <1>5, JobKinds DEF ReceiveTx
  <2>2. ~Moving'
    BY <1>5, <2>1 DEF ReceiveTx, Moving
  <2> QED
    BY <1>5, <2>1, <2>2, FitsIfAccepted DEF ReceiveTx, chain
<1>6. ASSUME NEW t \in Txids, LocalTx(t)
      PROVE  Fits'
  BY <1>1, <1>6, JobKinds, FitsIfAccepted DEF LocalTx, chain, Moving
<1>7. ASSUME NEW b \in Blocks, ActivateBestChainStep(b)
      PROVE  Fits'
  <2>1. ~Moving /\ UNCHANGED <<active, pool>>
    BY <1>1, <1>7, JobKinds DEF ActivateBestChainStep, chain
  <2>2. Moving' /\ job'.pc = "walk" /\ job'.disconnected = FALSE
    BY SMTT(30), <1>7 DEF ActivateBestChainStep, Moving
  <2>3. \A e \in pool.tx : IsFinalTx(e.txid, NextHeight)
    BY SMTT(30), <1>1, <2>1 DEF Fits
  <2> QED
    BY <2>1, <2>2, <2>3, FitsIfFewer
<1>8. ASSUME NEW b \in Blocks \ {Genesis}, InvalidateBlock(b)
      PROVE  Fits'
  <2>1. UNCHANGED <<active, pool>>
    BY <1>8 DEF InvalidateBlock, chain
  <2>2. Moving' /\ job'.pc = "walk" /\ job'.disconnected = TRUE
    BY <1>8 DEF InvalidateBlock, Moving
  <2> QED
    BY SMTT(30), <2>1, <2>2, FitsIfFewer
<1>9. CASE TakeWork
  <2>1. ~Moving /\ UNCHANGED <<active, pool>>
    BY <1>9, <1>1, JobKinds DEF TakeWork, chain
  <2>2. ~Moving'
    <3>1. job \in OrphanJobs
      BY <1>1, <1>9, JobKinds DEF TakeWork
    <3>2. job'.op = job.op
      BY <1>9, <3>1 DEF TakeWork, OrphanJobs
    <3> QED
      BY <2>1, <3>2 DEF Moving
  <2>3. /\ \A e \in pool.tx : IsFinalTx(e.txid, NextHeight)
        /\ \A e \in pool.tx : e.branch = CurrentEpochBranchId(NextHeight)
    BY <1>1, <2>1 DEF Fits
  <2> QED
    BY <2>1, <2>2, <2>3, FitsIfFewer
<1>10. ASSUME NEW t \in Txids, TryOrphan(t)
       PROVE  Fits'
  <2>1. job \in OrphanJobs /\ ~Moving
    BY SMTT(30), <1>1, <1>10, JobKinds DEF TryOrphan
  <2>2. job'.op = job.op
    BY Zenon, <1>10, <2>1 DEF TryOrphan, Tried, OrphanJobs
  <2>3. ~Moving'
    BY <2>1, <2>2 DEF Moving
  <2> QED
    BY <1>10, <2>1, <2>3, FitsIfAccepted DEF TryOrphan, chain
<1>11. CASE EraseDecided
  <2>1. ~Moving /\ UNCHANGED <<active, pool>>
    BY <1>11, <1>1, JobKinds DEF EraseDecided, chain
  <2>2. ~Moving'
    BY <1>11 DEF EraseDecided, Idle, Moving
  <2>3. /\ \A e \in pool.tx : IsFinalTx(e.txid, NextHeight)
        /\ \A e \in pool.tx : e.branch = CurrentEpochBranchId(NextHeight)
    BY <1>1, <2>1 DEF Fits
  <2> QED
    BY <2>1, <2>2, <2>3, FitsIfFewer
<1>12. CASE DisconnectTip
  <2>1. job \in MoveJobs /\ Moving /\ job.pc = "walk"
    BY <1>1, <1>12, JobKinds DEF DisconnectTip
  <2>2. job' = [job EXCEPT !.pc = "resurrect", !.i = 1, !.disconnected = TRUE]
    BY <1>12 DEF DisconnectTip
  <2>3. job'.op = job.op /\ job'.pc = "resurrect" /\ job'.disconnected = TRUE
    BY <2>1, <2>2 DEF MoveJobs
  <2>4. Moving'
    BY <2>1, <2>3 DEF Moving
  <2> QED
    BY <1>12, <2>3, <2>4, FitsIfFewer DEF DisconnectTip
<1>13. CASE Resurrect
  <2> DEFINE t == vtx[active][job.i].id
  <2>1. job \in MoveJobs /\ Moving
    BY <1>1, <1>13, JobKinds DEF Resurrect
  <2>2. job' = [job EXCEPT !.i = job.i + 1]
    BY <1>13 DEF Resurrect
  <2>3. job'.op = job.op /\ job'.pc = job.pc /\ job'.disconnected = job.disconnected
    BY <2>1, <2>2 DEF MoveJobs
  <2>4. Moving'
    BY <2>1, <2>3 DEF Moving
  <2>5. t \in Txids
    <3>1. active \in Blocks /\ job.i \in Nat /\ job.i >= 1 /\ job.i <= Len(vtx[active])
      BY <1>1, <1>13, ChainAssumption DEF Resurrect, JobOK
    <3> QED
      BY <3>1, BlockTransactions
  <2>6. PICK v \in Verdicts(t) :
           IF v = "accepted" THEN pool' = Added(t) ELSE remove(pool, {t})
    BY <1>13 DEF Resurrect
  <2>7. pool'.tx \subseteq pool.tx \/ ("accepted" \in Verdicts(t) /\ pool' = Added(t))
    BY <2>6, RemoveLeaves
  <2> QED
    BY <1>13, <2>1, <2>3, <2>4, <2>5, <2>7, FitsIfAccepted DEF Resurrect, chain
<1>14. CASE FinishDisconnect
  <2>1. job \in MoveJobs /\ Moving /\ job.disconnected
    BY <1>1, <1>14, JobKinds DEF FinishDisconnect, Fits
  <2>2. job' = [job EXCEPT !.pc = "walk", !.i = 0]
    BY <1>14 DEF FinishDisconnect
  <2>3. job'.op = job.op /\ job'.pc = "walk" /\ job'.disconnected
    BY <2>1, <2>2 DEF MoveJobs
  <2>4. Moving'
    BY <2>1, <2>3 DEF Moving
  <2>5. pool'.tx \subseteq pool.tx
    BY <1>14, RemoveLeaves DEF FinishDisconnect, removeWithAnchor
  <2>6. height[active] \in Nat /\ height[best] \in Nat /\ height[active] = height[best] + 1
    BY <1>1, <1>14, Heights DEF FinishDisconnect
  <2>7. \A e \in pool'.tx : ~IsExpiredTx(e.txid, height[active'])
    <3> SUFFICES ASSUME NEW e \in pool'.tx
                 PROVE  ~IsExpiredTx(e.txid, height[best])
      BY <1>14 DEF FinishDisconnect
    <3>1. ~IsExpiredTx(e.txid, height[active])
      BY <1>1, <2>5 DEF Fits
    <3>2. e.txid \in Txids
      BY <1>1, <2>5, HeldType DEF PoolOK
    <3> QED
      BY <3>1, <3>2, <2>6, ExpiresLater
  <2>8. \A e \in pool'.tx : e.branch = signedFor[e.txid]
    BY <1>1, <2>5 DEF Fits
  <2> QED
    BY <2>3, <2>4, <2>7, <2>8 DEF Fits, IsExpiredTx
<1>15. ASSUME NEW b \in Blocks \ {Genesis}, ConnectTip(b)
       PROVE  Fits'
  <2>1. job \in MoveJobs /\ Moving /\ job.pc = "walk"
    BY <1>1, <1>15, JobKinds DEF ConnectTip
  <2>2. job' = [job EXCEPT !.pc = "confirm", !.i = 1]
    BY <1>15 DEF ConnectTip
  <2>3. /\ job'.op = job.op /\ job'.pc = "confirm"
        /\ job'.disconnected = job.disconnected /\ job.disconnected \in BOOLEAN
    BY <2>1, <2>2 DEF MoveJobs
  <2>4. Moving'
    BY <2>1, <2>3 DEF Moving
  <2> QED
    BY <1>15, <2>1, <2>3, <2>4, FitsOnTheWay DEF ConnectTip
<1>16. CASE removeForBlock
  <2> DEFINE t == vtx[best][job.i].id
  <2>1. job \in MoveJobs /\ Moving /\ job.pc = "confirm"
    BY <1>1, <1>16, JobKinds DEF removeForBlock
  <2>2. job' = [job EXCEPT !.i = job.i + 1]
    BY <1>16 DEF removeForBlock
  <2>3. /\ job'.op = job.op /\ job'.pc = "confirm"
        /\ job'.disconnected = job.disconnected /\ job.disconnected \in BOOLEAN
    BY <2>1, <2>2 DEF MoveJobs
  <2>4. Moving'
    BY <2>1, <2>3 DEF Moving
  <2>5. removeConflicts(Without(pool, {t}), t)
    BY <1>16 DEF removeForBlock
  <2>6. pool'.tx \subseteq Without(pool, {t}).tx
    BY ZenonT(30), <2>5, RemoveLeaves DEF removeConflicts
  <2>7. Without(pool, {t}).tx \subseteq pool.tx
    BY SMTT(30) DEF Without
  <2> QED
    BY ZenonT(30), <1>16, <2>1, <2>3, <2>4, <2>6, <2>7, FitsOnTheWay DEF removeForBlock, chain
<1>17. CASE FinishConnect
  <2>1. job \in MoveJobs /\ Moving /\ job.pc = "confirm"
    BY <1>1, <1>17, JobKinds DEF FinishConnect
  <2>2. job' = [job EXCEPT !.pc = IF height[best] > job.from THEN "reorg" ELSE "walk", !.i = 0]
    BY <1>17 DEF FinishConnect
  <2>3. job'.op = job.op /\ job'.pc \in {"walk", "reorg"} /\ job'.disconnected = job.disconnected
    BY <2>1, <2>2 DEF MoveJobs
  <2>4. Moving'
    BY <2>1, <2>3 DEF Moving
  <2>5. pool'.tx \subseteq
           {e \in pool.tx : e.txid \notin {t \in Held(pool) : IsExpiredTx(t, height[best])}}
    BY <1>17, RemoveLeaves DEF FinishConnect, removeExpired
  <2>6. height[active] \in Nat /\ height[best] = height[active] + 1 /\ active' = best
    BY SMTT(30), <1>1, <1>17, Heights DEF FinishConnect
  <2>7. \A e \in pool'.tx : ~IsExpiredTx(e.txid, height[active'])
    BY SMTT(30), <2>5, <2>6 DEF Held
  <2>8. \A e \in pool'.tx : IsFinalTx(e.txid, NextHeight) => IsFinalTx(e.txid, height[best] + 1)
    <3>1. \A e \in pool'.tx : e.txid \in Txids
      BY <1>1, <2>5, HeldType DEF PoolOK
    <3>2. NextHeight \in Nat /\ height[best] + 1 = NextHeight + 1
      BY <2>6 DEF NextHeight
    <3> QED
      BY <3>1, <3>2, ExpiresLater
  <2>9. ~job'.disconnected => \A e \in pool'.tx : IsFinalTx(e.txid, height[best] + 1)
    BY SMTT(30), <1>1, <2>3, <2>5, <2>8 DEF Fits
  <2>10. \A e \in pool'.tx : e.branch = signedFor[e.txid]
    BY <1>1, <2>5 DEF Fits
  <2>11. NextHeight' = height[best] + 1
    BY <2>6 DEF NextHeight
  <2> QED
    BY <2>3, <2>4, <2>7, <2>9, <2>10, <2>11 DEF Fits, IsExpiredTx, IsFinalTx
<1>18. CASE StopWalking
  <2>1. job \in MoveJobs /\ Moving /\ job.pc = "walk"
    BY <1>1, <1>18, JobKinds DEF StopWalking
  <2>2. job' = [job EXCEPT !.pc = "reorg"]
    BY <1>18 DEF StopWalking
  <2>3. /\ job'.op = job.op /\ job'.pc = "reorg"
        /\ job'.disconnected = job.disconnected /\ job.disconnected \in BOOLEAN
    BY <2>1, <2>2 DEF MoveJobs
  <2>4. Moving'
    BY <2>1, <2>3 DEF Moving
  <2> QED
    BY <1>18, <2>1, <2>3, <2>4, FitsOnTheWay DEF StopWalking, chain
<1>19. CASE RemoveForReorg
  <2>1. job \in MoveJobs /\ Moving /\ job.pc = "reorg"
    BY <1>1, <1>19, JobKinds DEF RemoveForReorg
  <2>2. job' = [job EXCEPT !.pc = "branch"]
    BY <1>19 DEF RemoveForReorg
  <2>3. job'.op = job.op /\ job'.pc = "branch"
    BY <2>1, <2>2 DEF MoveJobs
  <2>4. Moving'
    BY <2>1, <2>3 DEF Moving
  <2>5. /\ pool'.tx \subseteq pool.tx
        /\ \A e \in pool'.tx : IsFinalTx(e.txid, NextHeight)
    <3>1. CASE job.disconnected
      <4> DEFINE S == {e.txid : e \in {e \in pool.tx :
                          ~IsFinalTx(e.txid, NextHeight) \/ LostCoinbase(e)}}
      <4>1. remove(pool, S)
        BY <1>19, <3>1 DEF RemoveForReorg, removeForReorg
      <4>2. pool'.tx \subseteq {e \in pool.tx : e.txid \notin S}
        BY <4>1, RemoveLeaves
      <4> QED
        BY <4>2
    <3>2. CASE ~job.disconnected
      BY <1>1, <1>19, <3>2 DEF RemoveForReorg, Fits
    <3> QED
      BY <3>1, <3>2
  <2> QED
    BY <1>19, <2>3, <2>4, <2>5, FitsIfFewer DEF RemoveForReorg, chain
<1>20. CASE RemoveWithoutBranchId
  <2> DEFINE S == {e.txid : e \in {e \in pool.tx : e.branch # CurrentEpochBranchId(NextHeight)}}
  <2>1. remove(pool, S)
    BY <1>20 DEF RemoveWithoutBranchId, removeWithoutBranchId
  <2>2. pool'.tx \subseteq {e \in pool.tx : e.txid \notin S}
    BY <2>1, RemoveLeaves
  <2>3. \A e \in pool'.tx : e \in pool.tx /\ e.branch = CurrentEpochBranchId(NextHeight)
    BY <2>2
  <2>4. \A e \in pool.tx : IsFinalTx(e.txid, NextHeight)
    BY <1>1, <1>20 DEF RemoveWithoutBranchId, Fits
  <2>5. ~Moving' /\ UNCHANGED active
    BY <1>20 DEF RemoveWithoutBranchId, Idle, Moving, chain
  <2> QED
    BY <2>3, <2>4, <2>5, FitsIfFewer
<1> QED
  BY Zenon, <1>4, <1>5, <1>6, <1>7, <1>8, <1>9, <1>10, <1>11, <1>12, <1>13, <1>14, <1>15,
     <1>16, <1>17, <1>18, <1>19, <1>20
     DEF Next, OrphanStep, MoveStep, vars, EraseOrphansFor, chain

\* Whenever no thread moves the tip, and so whenever a block template may be made, all of
\* the pool is final and signed for the branch of the next block, and nothing in it was
\* expired at the height of the tip: removeForReorg, removeExpired and
\* removeWithoutBranchId together make up for every move of the tip, however far back
\* and to whichever branch.
THEOREM PoolMayBeMined == Spec => []MayBeMined
<1>1. Init => Fits
  BY DEF Init, Fits, Idle, Moving
<1>2. FInv /\ [Next]_vars => FInv'
  BY NextIInv, FitsStep DEF FInv
<1>3. FInv => MayBeMined
  BY DEF FInv, Fits, MayBeMined, Held
<1> QED
  BY InitIInv, <1>1, <1>2, <1>3, PTL DEF Spec, FInv

=============================================================================
