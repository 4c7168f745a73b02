------------------------ MODULE CheckQueueLoopProofs ------------------------
(***************************************************************************)
(* The inductive invariant of the check queue, for any number of workers,  *)
(* masters and checks, and the lemmas about the critical sections of Loop. *)
(***************************************************************************)
EXTENDS CheckQueue, FiniteSetTheorems, TLAPS

Counted == {t \in Threads : InLoop(t)}
Idle == {t \in Threads : thr[t].pc \in {"wait", "woken"}}

\* A check is in one place: once in the queue, or in the batch of one thread.
OnePlace ==
    /\ \A i, j \in DOMAIN queue : queue[i] = queue[j] => i = j
    /\ \A t \in Threads : thr[t].batch \cap Elems(queue) = {}
    /\ \A t, u \in Threads : t # u => thr[t].batch \cap thr[u].batch = {}

InSession == {"adding", "waiting", "dropping", "dropped"}

\* Where a master is in Loop, and what it has been told, follow from where it
\* is in ConnectBlock; Main enters Loop when every master has ended.
Sessions ==
    /\ \A m \in Masters :
          /\ user[m] \in InSession <=> control = m
          /\ thr[m].pc # "out" <=> user[m] \in {"waiting", "dropping", "dropped"}
          /\ user[m] = "dropped" => thr[m].pc = "done"
          /\ verdict[m] # "none" <=> thr[m].pc = "done"
    /\ thr[Main].pc \in {"out", "lock", "done"}
    /\ thr[Main].batch = {}
    /\ thr[Main].pc # "out" => down.phase = "clearing"
    /\ down.phase \in {"clearing", "down"} => \A m \in Masters : user[m] = "ended"

\* Between two blocks, and once the answer is given, nothing is left over.
Quiet ==
    control = Nobody \/ verdict[control] # "none" => Outstanding = {} /\ fAllOk

\* A blocked master has taken everything from the queue.
MasterWaits ==
    \A m \in Masters : thr[m].pc \in {"wait", "woken"} => queue = <<>>

MasterNeedsWork ==
    \A m \in Masters : thr[m].pc = "wait" => nTodo # 0

\* A worker that is not running is not in Loop.
WorkersOut ==
    \A w \in Workers : ~svc[w].running => thr[w].pc \in {"out", "done"}

IInv == /\ TypeOK /\ OnePlace /\ CountersExact /\ Sessions /\ Quiet
        /\ MasterWaits /\ MasterNeedsWork /\ WorkersOut
-----------------------------------------------------------------------------
(* The data: batches, the queue and the counters.                          *)

LEMMA ShareBound ==
    ASSUME NEW a \in Nat, NEW b \in Nat, b > 0
    PROVE  a \div b \in Nat /\ a \div b <= a
<1> DEFINE q == a \div b
           r == a % b
<1>1. q \in Int /\ r \in 0 .. b - 1 /\ a = b * q + r
  OBVIOUS
<1> HIDE DEF q, r
<1>2. q \in Nat
  <2> SUFFICES ASSUME q < 0 PROVE FALSE
    BY <1>1
  <2>1. (-q - 1) * b \in Nat
    BY <1>1
  <2>2. (-q - 1) * b = -(b * q) - b
    BY <1>1
  <2> QED
    BY <1>1, <2>1, <2>2
<1>3. (b - 1) * q \in Nat /\ b * q = (b - 1) * q + q
  BY <1>2
<1>4. q <= a
  BY <1>1, <1>2, <1>3
<1> QED
  BY <1>2, <1>4 DEF q

\* A batch has at least one check and at most those in the queue.
LEMMA BatchCountBound ==
    ASSUME queue \in Seq(Checks), queue # <<>>,
           NEW total \in Nat, NEW idle \in Nat
    PROVE  BatchCount(total, idle) \in 1 .. Len(queue)
<1> DEFINE share == Len(queue) \div (total + idle + 1)
<1>1. Len(queue) \in Nat /\ Len(queue) >= 1
  BY SMT
<1>2. share \in Nat /\ share <= Len(queue)
  BY <1>1, ShareBound, total + idle + 1 \in Nat, total + idle + 1 > 0
<1> HIDE DEF share
<1>3. BatchCount(total, idle) =
        LET capped == IF share < BatchSize THEN share ELSE BatchSize
        IN  IF capped > 1 THEN capped ELSE 1
  BY DEF BatchCount, share
<1> QED
  BY <1>1, <1>2, <1>3, CheckAssumption

LEMMA Finite ==
    ASSUME TypeOK
    PROVE  /\ IsFiniteSet(Threads)
           /\ Outstanding \subseteq Checks
           /\ IsFiniteSet(Outstanding)
<1>1. IsFiniteSet(Threads)
  BY CheckAssumption, FS_Union, FS_Singleton DEF Threads
<1>2. Outstanding \subseteq Checks
  BY DEF TypeOK, Outstanding, Elems
<1> QED
  BY <1>1, <1>2, FS_Subset, CheckAssumption

\* A list of different checks is as long as the set of its elements.
LEMMA ElemsCount ==
    ASSUME NEW s \in Seq(Checks), \A i, j \in DOMAIN s : s[i] = s[j] => i = j
    PROVE  IsFiniteSet(Elems(s)) /\ Cardinality(Elems(s)) = Len(s)
<1> DEFINE n == Len(s)
<1>1. n \in Nat /\ DOMAIN s = 1 .. n
  OBVIOUS
<1>2. IsFiniteSet(1 .. n) /\ Cardinality(1 .. n) = n
  BY SMTT(30), <1>1, FS_Interval
<1>3. s \in Bijection(1 .. n, Elems(s))
  BY <1>1 DEF Bijection, Injection, Surjection, IsInjective, Elems
<1>4. ExistsBijection(1 .. n, Elems(s))
  BY <1>3 DEF ExistsBijection
<1> QED
  BY <1>1, <1>2, <1>4, FS_Bijection

-----------------------------------------------------------------------------
(* One pass through lines 150 to 182 of Loop, on behalf of the three       *)
(* critical sections that end with it.                                     *)

PoolTyped ==
    /\ queue \in Seq(Checks)
    /\ nTodo \in Nat
    /\ nTotal \in Nat
    /\ nIdle \in Nat
    /\ fAllOk \in BOOLEAN
    /\ thr \in [Threads -> [pc : LoopSteps, batch : SUBSET Checks,
                            fOk : BOOLEAN]]
    /\ \A t \in Threads :
          /\ thr[t].pc = "work" => thr[t].batch # {}
          /\ thr[t].batch # {} => thr[t].pc \in {"work", "lock"}

Locals == [pc : LoopSteps, batch : SUBSET Checks, fOk : BOOLEAN]

\* A notification changes nothing but the step of the threads it wakes.
LEMMA WokenFields ==
    ASSUME TypeOK, NEW S
    PROVE  /\ Woken(S) \in [Threads -> Locals]
           /\ \A u \in Threads :
                 /\ Woken(S)[u].batch = thr[u].batch
                 /\ Woken(S)[u].fOk = thr[u].fOk
                 /\ Woken(S)[u].pc = IF u \in S THEN "woken" ELSE thr[u].pc
<1> USE DEF TypeOK, Locals, LoopSteps, Woken
<1>1. ASSUME NEW u \in Threads
      PROVE  /\ Woken(S)[u] \in Locals
             /\ Woken(S)[u].batch = thr[u].batch
             /\ Woken(S)[u].fOk = thr[u].fOk
             /\ Woken(S)[u].pc = IF u \in S THEN "woken" ELSE thr[u].pc
  <2>1. CASE u \in S
    <3>1. Woken(S)[u] = [pc |-> "woken", batch |-> thr[u].batch, fOk |-> thr[u].fOk]
      BY <2>1
    <3> QED
      BY <2>1, <3>1
  <2>2. CASE u \notin S
    BY <2>2
  <2> QED
    BY <2>1, <2>2
<1> QED
  BY Zenon, <1>1

\* ... and the update of one thread on top of it changes that thread only.
LEMMA WokenExcept ==
    ASSUME TypeOK, NEW S, NEW t \in Threads, NEW loc \in Locals
    PROVE  LET th == [Woken(S) EXCEPT ![t] = loc]
           IN  /\ th \in [Threads -> Locals]
               /\ th[t] = loc
               /\ \A u \in Threads \ {t} :
                     /\ th[u].batch = thr[u].batch
                     /\ th[u].fOk = thr[u].fOk
                     /\ th[u].pc = IF u \in S THEN "woken" ELSE thr[u].pc
BY WokenFields

\* What Proceed leaves in the thread that runs it and in the queue.
ProceedPost(t, todo, ok, total, idle, S) ==
    /\ queue' \in Seq(Checks)
    /\ \A i \in DOMAIN queue' : i \in DOMAIN queue /\ queue'[i] = queue[i]
    /\ thr' \in [Threads -> Locals]
    /\ thr'[t].batch \cap Elems(queue) = thr'[t].batch
    /\ thr'[t].batch \cup Elems(queue') = Elems(queue)
    /\ \A u \in Threads \ {t} :
          /\ thr'[u].batch = thr[u].batch
          /\ thr'[u].fOk = thr[u].fOk
          /\ thr'[u].pc = IF u \in S THEN "woken" ELSE thr[u].pc
    /\ thr'[t].batch # {} <=> thr'[t].pc = "work"
    /\ nTodo' = todo
    /\ \/ /\ thr'[t] = [pc |-> "done", batch |-> {}, fOk |-> ok]
          /\ queue = <<>> /\ queue' = <<>> /\ MayLeave(t, todo)
          /\ nTotal' = total - 1 /\ nIdle' = idle
          /\ fAllOk' = (bMaster(t) \/ ok)
       \/ /\ thr'[t] = [pc |-> "wait", batch |-> {}, fOk |-> TRUE]
          /\ queue = <<>> /\ queue' = <<>> /\ ~MayLeave(t, todo)
          /\ nTotal' = total /\ nIdle' = idle + 1
          /\ fAllOk' = ok
       \/ /\ thr'[t].pc = "work" /\ thr'[t].fOk = ok
          /\ queue # <<>>
          /\ nTotal' = total /\ nIdle' = idle
          /\ fAllOk' = ok
    /\ \A i \in DOMAIN queue : i \notin DOMAIN queue' => queue[i] \in thr'[t].batch
    /\ \A c \in thr'[t].batch : \E i \in DOMAIN queue :
          i \notin DOMAIN queue' /\ c = queue[i]

LEMMA ProceedThread ==
    ASSUME TypeOK, NEW t \in Threads, NEW todo, NEW ok \in BOOLEAN,
           NEW total \in Nat, NEW idle \in Nat, NEW S,
           S \subseteq Blocked(TRUE), t \notin S,
           Proceed(t, todo, ok, total, idle, S)
    PROVE  ProceedPost(t, todo, ok, total, idle, S)
<1> USE DEF TypeOK, Elems, ProceedPost
<1>1. CASE Leave(t, todo, ok, total, idle, S)
  <2> DEFINE loc == [pc |-> "done", batch |-> {}, fOk |-> ok]
  <2>1. loc \in Locals
    BY DEF Locals, LoopSteps
  <2>2. /\ thr' \in [Threads -> Locals]
        /\ thr'[t] = loc
        /\ \A u \in Threads \ {t} :
                 /\ thr'[u].batch = thr[u].batch
                 /\ thr'[u].fOk = thr[u].fOk
                 /\ thr'[u].pc = IF u \in S THEN "woken" ELSE thr[u].pc
    BY <1>1, <2>1, WokenExcept DEF Leave
  <2> QED
    BY <1>1, <2>2 DEF Leave
<1>2. CASE Block(t, todo, ok, total, idle, S)
  <2> DEFINE loc == [pc |-> "wait", batch |-> {}, fOk |-> TRUE]
  <2>1. loc \in Locals
    BY DEF Locals, LoopSteps
  <2>2. /\ thr' \in [Threads -> Locals]
        /\ thr'[t] = loc
        /\ \A u \in Threads \ {t} :
                 /\ thr'[u].batch = thr[u].batch
                 /\ thr'[u].fOk = thr[u].fOk
                 /\ thr'[u].pc = IF u \in S THEN "woken" ELSE thr[u].pc
    BY <1>2, <2>1, WokenExcept DEF Block
  <2> QED
    BY <1>2, <2>2 DEF Block
<1>3. CASE Take(t, todo, ok, total, idle, S)
  <2> DEFINE n == BatchCount(total, idle)
             kept == Len(queue) - n
             B == {queue[i] : i \in kept + 1 .. Len(queue)}
  <2>1. n \in 1 .. Len(queue)
    BY <1>3, BatchCountBound DEF Take
  <2> HIDE DEF n
  <2>2. kept \in 0 .. Len(queue) - 1 /\ Len(queue) \in Nat
    BY <2>1
  <2>3. /\ queue' = SubSeq(queue, 1, kept)
        /\ thr' = [Woken(S) EXCEPT ![t] = [pc |-> "work", fOk |-> ok, batch |-> B]]
        /\ queue # <<>>
        /\ nTodo' = todo /\ nTotal' = total /\ nIdle' = idle /\ fAllOk' = ok
    BY <1>3 DEF Take, n
  <2>4. /\ queue' \in Seq(Checks) /\ DOMAIN queue' = 1 .. kept
        /\ \A i \in 1 .. kept : queue'[i] = queue[i]
        /\ DOMAIN queue = 1 .. Len(queue)
    BY <2>2, <2>3
  <2> HIDE DEF kept
  <2> DEFINE D == DOMAIN queue
             low == DOMAIN queue'
             high == kept + 1 .. Len(queue)
  <2>10. /\ D = low \cup high /\ low \cap high = {} /\ Len(queue) \in high
    BY <2>2, <2>4
  <2>11. \A i \in D : queue[i] \in Checks
    OBVIOUS
  <2>12. \A i \in low : queue'[i] = queue[i]
    BY <2>4
  <2>13. B = {queue[i] : i \in high}
    OBVIOUS
  <2> HIDE DEF B, D, low, high
  <2>5. B \subseteq Checks /\ B # {}
    BY <2>10, <2>11, <2>13
  <2>6. B \cup Elems(queue') = Elems(queue) /\ B \subseteq Elems(queue)
    <3>1. Elems(queue) = {queue[i] : i \in D} /\ Elems(queue') = {queue'[i] : i \in low}
      BY DEF D, low
    <3>2. {queue'[i] : i \in low} = {queue[i] : i \in low}
      BY <2>12
    <3>3. {queue[i] : i \in D} = {queue[i] : i \in low} \cup {queue[i] : i \in high}
      BY <2>10
    <3> HIDE DEF Elems, TypeOK
    <3> QED
      BY Zenon, <2>13, <3>1, <3>2, <3>3
  <2>7. /\ \A i \in DOMAIN queue : i \notin DOMAIN queue' => queue[i] \in B
        /\ \A c \in B : \E i \in DOMAIN queue : i \notin DOMAIN queue' /\ c = queue[i]
    BY <2>10, <2>13 DEF D, low
  <2>9. \A i \in DOMAIN queue' : i \in DOMAIN queue /\ queue'[i] = queue[i]
    BY <2>10, <2>12 DEF D, low
  <2> HIDE DEF B, Elems
  <2>8. /\ thr'[t] = [pc |-> "work", fOk |-> ok, batch |-> B]
        /\ \A u \in Threads \ {t} :
                 /\ thr'[u].batch = thr[u].batch
                 /\ thr'[u].fOk = thr[u].fOk
                 /\ thr'[u].pc = IF u \in S THEN "woken" ELSE thr[u].pc
        /\ thr' \in [Threads -> Locals]
    <3>1. [pc |-> "work", fOk |-> ok, batch |-> B] \in Locals
      BY <2>5 DEF Locals, LoopSteps
    <3> QED
      BY <2>3, <3>1, WokenExcept
  <2> QED
    BY <2>3, <2>4, <2>5, <2>6, <2>7, <2>8, <2>9
<1> QED
  BY <1>1, <1>2, <1>3 DEF Proceed

\* The counters and the places of the checks after Proceed.
LEMMA ProceedKeeps ==
    ASSUME TypeOK, OnePlace, NEW t \in Threads, NEW todo, NEW ok \in BOOLEAN,
           NEW total, NEW idle, NEW S, S \subseteq Blocked(TRUE), t \notin S,
           todo = Cardinality(Outstanding \ thr[t].batch),
           total = Cardinality(Counted \cup {t}),
           idle = Cardinality(Idle \ {t}),
           Proceed(t, todo, ok, total, idle, S)
    PROVE  /\ total \in Nat /\ idle \in Nat
           /\ PoolTyped'
           /\ OnePlace'
           /\ CountersExact'
           /\ Outstanding' = Outstanding \ thr[t].batch
<1> DEFINE P == Threads
<1>1. /\ IsFiniteSet(Threads) /\ IsFiniteSet(Outstanding \ thr[t].batch)
      /\ todo \in Nat
  BY Finite, FS_Difference, FS_CardinalityType
<1>2. /\ IsFiniteSet(Counted \cup {t}) /\ total \in Nat
      /\ IsFiniteSet(Idle \ {t}) /\ idle \in Nat
  BY <1>1, FS_Subset, FS_CardinalityType DEF Counted, Idle
<1> HIDE DEF P
<1>3. /\ queue' \in Seq(Checks)
      /\ \A i \in DOMAIN queue' : i \in DOMAIN queue /\ queue'[i] = queue[i]
      /\ thr' \in [Threads -> Locals]
      /\ thr'[t].batch \cap Elems(queue) = thr'[t].batch
      /\ thr'[t].batch \cup Elems(queue') = Elems(queue)
      /\ \A u \in Threads \ {t} :
            /\ thr'[u].batch = thr[u].batch
            /\ thr'[u].fOk = thr[u].fOk
            /\ thr'[u].pc = IF u \in S THEN "woken" ELSE thr[u].pc
      /\ thr'[t].batch # {} <=> thr'[t].pc = "work"
      /\ nTodo' = todo
      /\ \/ thr'[t].pc = "done" /\ nTotal' = total - 1 /\ nIdle' = idle
         \/ thr'[t].pc = "wait" /\ nTotal' = total /\ nIdle' = idle + 1
         \/ thr'[t].pc = "work" /\ nTotal' = total /\ nIdle' = idle
      /\ \A c \in thr'[t].batch : \E i \in DOMAIN queue :
            i \notin DOMAIN queue' /\ c = queue[i]
  <2>1. ProceedPost(t, todo, ok, total, idle, S)
    BY Zenon, <1>2, ProceedThread
  <2> QED
    BY <2>1 DEF ProceedPost
<1>8. fAllOk' \in BOOLEAN
  BY Zenon DEF Proceed, Leave, Block, Take, bMaster
<1>4. OnePlace'
  <2>1. \A i, j \in DOMAIN queue' : queue'[i] = queue'[j] => i = j
    BY <1>3 DEF OnePlace
  <2>2. Elems(queue') \subseteq Elems(queue)
    BY <1>3
  <2>3. thr'[t].batch \cap Elems(queue') = {}
    <3> SUFFICES ASSUME NEW c \in thr'[t].batch, NEW j \in DOMAIN queue',
                        c = queue'[j]
                 PROVE  FALSE
      BY DEF Elems
    <3>1. PICK i \in DOMAIN queue : i \notin DOMAIN queue' /\ c = queue[i]
      BY <1>3
    <3> QED
      BY ZenonT(30), <1>3, <3>1 DEF OnePlace
  <2>4. \A u \in Threads : thr'[u].batch \cap Elems(queue') = {}
    BY <1>3, <2>2, <2>3 DEF OnePlace
  <2>5. \A u \in Threads \ {t} : thr'[t].batch \cap thr'[u].batch = {}
    BY <1>3 DEF OnePlace
  <2>6. \A u, v \in Threads : u # v => thr'[u].batch \cap thr'[v].batch = {}
    BY <1>3, <2>5 DEF OnePlace
  <2> QED
    BY <2>1, <2>4, <2>6 DEF OnePlace
<1>5. Outstanding' = Outstanding \ thr[t].batch
  <2> DEFINE others == UNION {thr[u].batch : u \in Threads \ {t}}
  <2>1. Outstanding = Elems(queue) \cup thr[t].batch \cup others
    BY DEF Outstanding
  <2>2. others \cap thr[t].batch = {} /\ Elems(queue) \cap thr[t].batch = {}
    BY DEF OnePlace
  <2>3. UNION {thr'[u].batch : u \in Threads \ {t}} = others
    BY <1>3
  <2>4. Outstanding' = Elems(queue') \cup thr'[t].batch \cup others
    BY <2>3 DEF Outstanding
  <2> HIDE DEF others
  <2> QED
    BY <1>3, <2>1, <2>2, <2>4
<1>6. PoolTyped'
  <2>1. \A u \in S : thr[u].pc = "wait"
    BY DEF Blocked
  <2>2. ASSUME NEW u \in Threads
        PROVE  /\ thr'[u].pc = "work" => thr'[u].batch # {}
               /\ thr'[u].batch # {} => thr'[u].pc \in {"work", "lock"}
    <3>1. /\ thr[u].pc = "work" => thr[u].batch # {}
          /\ thr[u].batch # {} => thr[u].pc \in {"work", "lock"}
      BY DEF TypeOK
    <3>2. CASE u = t
      <4>1. thr'[u].batch # {} <=> thr'[u].pc = "work"
        BY <1>3, <3>2
      <4> QED
        BY <4>1
    <3>3. CASE u # t
      <4>1. thr'[u].batch = thr[u].batch /\ thr'[u].pc = IF u \in S THEN "woken" ELSE thr[u].pc
        BY <1>3, <3>3
      <4> QED
        BY <2>1, <3>1, <4>1
    <3> QED
      BY <3>2, <3>3
  <2>3. nTotal' \in Nat
    <3>1. total - 1 = Cardinality((Counted \cup {t}) \ {t})
      BY Zenon, <1>2, FS_RemoveElement
    <3>2. total - 1 \in Nat
      BY <1>2, <3>1, FS_Subset, FS_CardinalityType
    <3> QED
      BY <1>2, <1>3, <3>2
  <2> QED
    BY <1>1, <1>2, <1>3, <1>8, <2>2, <2>3 DEF PoolTyped, Locals
<1>7. CountersExact'
  <2>1. /\ Counted' = IF thr'[t].pc = "done" THEN Counted \ {t} ELSE Counted \cup {t}
        /\ Idle' = IF thr'[t].pc = "wait" THEN Idle \cup {t} ELSE Idle \ {t}
    BY <1>3 DEF Counted, Idle, InLoop, Blocked
  <2>2. /\ Cardinality((Counted \cup {t}) \ {t}) = total - 1
        /\ (Counted \cup {t}) \ {t} = Counted \ {t}
    BY <1>2, FS_RemoveElement
  <2>3. /\ Cardinality((Idle \ {t}) \cup {t}) = idle + 1
        /\ (Idle \ {t}) \cup {t} = Idle \cup {t}
    BY Zenon, <1>2, FS_AddElement
  <2>4. nTotal' = Cardinality(Counted')
    BY Zenon, <1>3, <2>1, <2>2
  <2>5. nIdle' = Cardinality(Idle')
    BY Zenon, <1>3, <2>1, <2>3
  <2>6. nTodo' = Cardinality(Outstanding')
    BY <1>3, <1>5
  <2> QED
    BY <2>4, <2>5, <2>6 DEF CountersExact, Counted, Idle
<1> QED
  BY <1>2, <1>4, <1>5, <1>6, <1>7

-----------------------------------------------------------------------------
(* The three critical sections of Loop as one: the counters they bring to  *)
(* line 150, and whom they notify.                                         *)

SectionPre(t, todo, ok, total, idle, S) ==
    /\ thr[t].pc \in {"lock", "woken"}
    /\ ok = (fAllOk /\ (thr[t].batch # {} => thr[t].fOk))
    /\ S \subseteq Blocked(TRUE)
    /\ t \notin S
    /\ todo = Cardinality(Outstanding \ thr[t].batch)
    /\ total = Cardinality(Counted \cup {t})
    /\ idle = Cardinality(Idle \ {t})
    /\ todo = 0 /\ nTodo # 0 /\ ~bMaster(t) =>
          \A m \in Masters : thr[m].pc = "wait" => m \in S

SectionStep(t, todo, ok, total, idle, S) ==
    /\ SectionPre(t, todo, ok, total, idle, S)
    /\ Proceed(t, todo, ok, total, idle, S)
    /\ Told(t)
    /\ UNCHANGED outsidePool

Section(t) == \E todo, ok, total, idle, S : SectionStep(t, todo, ok, total, idle, S)

\* Main is never blocked, and one master at most is in a session.
LEMMA OneMaster ==
    ASSUME IInv, NEW x \in Blocked(TRUE)
    PROVE  /\ x \in Masters
           /\ \A m \in Masters : thr[m].pc # "out" => m = x
<1>1. x \in Masters
  BY DEF IInv, Sessions, Blocked, bMaster, Threads
<1>2. \A m \in Masters : thr[m].pc # "out" => control = m
  BY DEF IInv, Sessions, InSession
<1>3. thr[x].pc # "out"
  BY DEF Blocked
<1> QED
  BY <1>1, <1>2, <1>3

LEMMA FinishSection ==
    ASSUME IInv, NEW t \in Threads, FinishBatch(t)
    PROVE  Section(t)
<1> DEFINE B == thr[t].batch
           todo == nTodo - Cardinality(B)
           ok == fAllOk /\ thr[t].fOk
<1>1. /\ thr[t].pc = "lock" /\ B # {} /\ B \subseteq Outstanding
  BY DEF FinishBatch, Outstanding
<1>2. IsFiniteSet(Outstanding) /\ IsFiniteSet(Threads) /\ Cardinality(Outstanding) \in Nat
  BY Finite, FS_CardinalityType DEF IInv
<1>3. IsFiniteSet(B) /\ Cardinality(B) \in Nat
  BY <1>1, <1>2, FS_Subset, FS_CardinalityType
<1>4. todo = Cardinality(Outstanding \ B)
  <2>1. Outstanding \cap B = B
    BY <1>1
  <2>2. Cardinality(Outstanding \ B) =
           Cardinality(Outstanding) - Cardinality(Outstanding \cap B)
    BY <1>2, FS_Difference
  <2>3. nTodo = Cardinality(Outstanding)
    BY DEF IInv, CountersExact
  <2> QED
    BY <2>1, <2>2, <2>3
<1>5. nTotal = Cardinality(Counted \cup {t}) /\ nIdle = Cardinality(Idle \ {t})
  <2>1. Counted \cup {t} = Counted
    BY <1>1 DEF Counted, InLoop
  <2>2. Idle \ {t} = Idle
    BY <1>1 DEF Idle
  <2>3. nTotal = Cardinality(Counted) /\ nIdle = Cardinality(Idle)
    BY DEF IInv, CountersExact, Counted, Idle
  <2> QED
    BY <2>1, <2>2, <2>3
<1>6. PICK S \in IF todo = 0 /\ ~bMaster(t) THEN NotifyOne(TRUE) ELSE {{}} :
         Proceed(t, todo, ok, nTotal, nIdle, S)
  BY DEF FinishBatch
<1>7. S \subseteq Blocked(TRUE)
  BY Zenon, <1>6 DEF NotifyOne
<1>8. t \notin S
  BY <1>1, <1>7 DEF Blocked
<1>9. ASSUME todo = 0, ~bMaster(t), NEW m \in Masters, thr[m].pc = "wait"
      PROVE  m \in S
  <2>1. m \in Blocked(TRUE)
    BY <1>9, CheckAssumption DEF Blocked, bMaster, Threads
  <2>2. PICK x \in Blocked(TRUE) : S = {x}
    BY Zenon, <1>6, <1>9, <2>1 DEF NotifyOne
  <2> QED
    BY <1>9, <2>2, OneMaster
<1>10. ok = (fAllOk /\ (thr[t].batch # {} => thr[t].fOk))
  BY <1>1
<1> HIDE DEF B, todo, ok
<1>11. SectionPre(t, todo, ok, nTotal, nIdle, S)
  BY Zenon, <1>1, <1>4, <1>5, <1>7, <1>8, <1>9, <1>10 DEF SectionPre, B
<1>12. SectionStep(t, todo, ok, nTotal, nIdle, S)
  BY <1>6, <1>11 DEF SectionStep, FinishBatch
<1> QED
  BY <1>12 DEF Section

LEMMA EnterSection ==
    ASSUME IInv, NEW t \in Threads, Enter(t)
    PROVE  Section(t)
<1>1. thr[t].pc = "lock" /\ thr[t].batch = {}
  BY DEF Enter
<1>2. /\ IsFiniteSet(Counted) /\ t \notin Counted
  BY <1>1, Finite, FS_Subset DEF IInv, Counted, InLoop
<1>3. nTotal + 1 = Cardinality(Counted \cup {t})
  BY <1>2, FS_AddElement DEF IInv, CountersExact, Counted
<1>4. nIdle = Cardinality(Idle \ {t})
  <2>1. Idle \ {t} = Idle
    BY <1>1 DEF Idle
  <2> QED
    BY <2>1 DEF IInv, CountersExact, Idle
<1>5. nTodo = Cardinality(Outstanding \ thr[t].batch)
  <2>1. Outstanding \ thr[t].batch = Outstanding
    BY <1>1
  <2> QED
    BY <2>1 DEF IInv, CountersExact
<1>6. fAllOk = (fAllOk /\ (thr[t].batch # {} => thr[t].fOk))
  BY <1>1 DEF IInv, TypeOK
<1>7. SectionPre(t, nTodo, fAllOk, nTotal + 1, nIdle, {})
  BY <1>1, <1>3, <1>4, <1>5, <1>6 DEF SectionPre
<1>8. SectionStep(t, nTodo, fAllOk, nTotal + 1, nIdle, {})
  BY <1>7 DEF SectionStep, Enter
<1> QED
  BY <1>8 DEF Section

LEMMA ResumeSection ==
    ASSUME IInv, NEW t \in Threads, Resume(t)
    PROVE  Section(t)
<1>1. thr[t].pc = "woken" /\ thr[t].batch = {}
  BY DEF Resume, IInv, TypeOK
<1>2. IsFiniteSet(Idle) /\ t \in Idle
  BY <1>1, Finite, FS_Subset DEF IInv, Idle
<1>3. nIdle - 1 = Cardinality(Idle \ {t})
  BY Zenon, <1>2, FS_RemoveElement DEF IInv, CountersExact, Idle
<1>4. nTotal = Cardinality(Counted \cup {t})
  <2>1. Counted \cup {t} = Counted
    BY <1>1 DEF Counted, InLoop
  <2> QED
    BY <2>1 DEF IInv, CountersExact, Counted
<1>5. nTodo = Cardinality(Outstanding \ thr[t].batch)
  <2>1. Outstanding \ thr[t].batch = Outstanding
    BY <1>1
  <2> QED
    BY <2>1 DEF IInv, CountersExact
<1>6. fAllOk = (fAllOk /\ (thr[t].batch # {} => thr[t].fOk))
  BY <1>1 DEF IInv, TypeOK
<1>7. SectionPre(t, nTodo, fAllOk, nTotal, nIdle - 1, {})
  BY <1>1, <1>3, <1>4, <1>5, <1>6 DEF SectionPre
<1>8. SectionStep(t, nTodo, fAllOk, nTotal, nIdle - 1, {})
  BY <1>7 DEF SectionStep, Resume
<1> QED
  BY <1>8 DEF Section

\* What every critical section leaves behind, in terms of the state before.
SectionPost(t, todo, ok, total, idle, S) ==
    /\ PoolTyped' /\ OnePlace' /\ CountersExact'
    /\ Outstanding' = Outstanding \ thr[t].batch
    /\ ProceedPost(t, todo, ok, total, idle, S)

LEMMA SectionEffect ==
    ASSUME IInv, NEW t \in Threads, NEW todo, NEW ok, NEW total, NEW idle, NEW S,
           SectionStep(t, todo, ok, total, idle, S)
    PROVE  SectionPost(t, todo, ok, total, idle, S)
<1>1. ok \in BOOLEAN
  BY DEF SectionStep, SectionPre
<1>2. TypeOK /\ OnePlace
  BY DEF IInv
<1>3. /\ S \subseteq Blocked(TRUE) /\ t \notin S
      /\ todo = Cardinality(Outstanding \ thr[t].batch)
      /\ total = Cardinality(Counted \cup {t})
      /\ idle = Cardinality(Idle \ {t})
      /\ Proceed(t, todo, ok, total, idle, S)
  BY Zenon DEF SectionStep, SectionPre
<1>4. /\ total \in Nat /\ idle \in Nat
      /\ PoolTyped' /\ OnePlace' /\ CountersExact'
      /\ Outstanding' = Outstanding \ thr[t].batch
  BY ZenonT(30), <1>1, <1>2, <1>3, ProceedKeeps
<1>5. ProceedPost(t, todo, ok, total, idle, S)
  BY Zenon, <1>1, <1>2, <1>3, <1>4, ProceedThread
<1> QED
  BY <1>4, <1>5 DEF SectionPost

\* A critical section of Loop preserves the invariant.
LEMMA SectionKeeps ==
    ASSUME IInv, NEW t \in Threads, Section(t)
    PROVE  IInv'
<1>1. PICK todo, ok, total, idle, S : SectionStep(t, todo, ok, total, idle, S)
  BY DEF Section
<1>2. SectionPre(t, todo, ok, total, idle, S) /\ Told(t) /\ UNCHANGED outsidePool
  BY <1>1 DEF SectionStep
<1>3. SectionPost(t, todo, ok, total, idle, S)
  BY <1>1, SectionEffect
<1>4. /\ PoolTyped' /\ OnePlace' /\ CountersExact'
      /\ Outstanding' = Outstanding \ thr[t].batch
      /\ ProceedPost(t, todo, ok, total, idle, S)
  BY <1>3 DEF SectionPost
<1>5. UNCHANGED <<stopped, control, user, svc, down>>
  BY <1>2 DEF outsidePool
<1>6. /\ thr[t].pc \in {"lock", "woken"}
      /\ ok = (fAllOk /\ (thr[t].batch # {} => thr[t].fOk))
      /\ \A u \in S : thr[u].pc = "wait"
      /\ t \notin S
      /\ todo = 0 /\ nTodo # 0 /\ ~bMaster(t) =>
            \A m \in Masters : thr[m].pc = "wait" => m \in S
  BY SMTT(30), <1>2 DEF SectionPre, Blocked
<1>7. /\ \A u \in Threads \ {t} : thr'[u].pc = IF u \in S THEN "woken" ELSE thr[u].pc
      /\ \A u \in Threads \ {t} : thr'[u].batch = thr[u].batch
      /\ nTodo' = todo
      /\ \/ /\ thr'[t] = [pc |-> "done", batch |-> {}, fOk |-> ok]
            /\ queue = <<>> /\ queue' = <<>> /\ MayLeave(t, todo)
            /\ fAllOk' = (bMaster(t) \/ ok)
         \/ /\ thr'[t] = [pc |-> "wait", batch |-> {}, fOk |-> TRUE]
            /\ queue = <<>> /\ queue' = <<>> /\ ~MayLeave(t, todo)
            /\ fAllOk' = ok
         \/ /\ thr'[t].pc = "work" /\ queue # <<>>
            /\ fAllOk' = ok
  BY SMTT(30), <1>4 DEF ProceedPost
<1>8. thr'[t].pc \in {"done", "wait", "work"}
  BY <1>7
<1>9. /\ \A m \in Masters : m \in Threads /\ bMaster(m)
      /\ Main \in Threads /\ bMaster(Main) /\ Main \notin Masters
  BY CheckAssumption DEF Threads, bMaster
<1>10. verdict' = IF t \in Masters /\ thr'[t].pc = "done"
                  THEN [verdict EXCEPT ![t] = IF thr'[t].fOk THEN "good" ELSE "bad"]
                  ELSE verdict
  BY <1>2 DEF Told
<1>11. verdict \in [Masters -> {"none", "good", "bad"}] /\ fAllOk \in BOOLEAN
  BY DEF IInv, TypeOK
<1>12. TypeOK'
  <2>1. verdict' \in [Masters -> {"none", "good", "bad"}]
    BY <1>10, <1>11
  <2> QED
    BY <1>4, <1>5, <2>1 DEF IInv, TypeOK, PoolTyped
<1>13. t = Main => thr'[t].pc = "done"
  <2> SUFFICES ASSUME t = Main PROVE thr'[t].pc = "done"
    OBVIOUS
  <2>1. down.phase = "clearing"
    BY <1>6 DEF IInv, Sessions
  <2>2. \A m \in Masters : user[m] = "ended"
    BY <2>1 DEF IInv, Sessions
  <2>3. control \in Masters \cup {Nobody} /\ \A m \in Masters : user[m] \in InSession <=> control = m
    BY DEF IInv, Sessions, TypeOK
  <2>4. control = Nobody
    BY <2>2, <2>3 DEF InSession
  <2>5. Outstanding = {}
    BY <2>4 DEF IInv, Quiet
  <2>6. queue = <<>>
    <3>1. queue \in Seq(Checks)
      BY DEF IInv, TypeOK
    <3>2. DOMAIN queue = {}
      BY Zenon, <2>5 DEF Outstanding, Elems
    <3> QED
      BY <3>1, <3>2
  <2>7. todo = 0
    <3>1. Outstanding \ thr[t].batch = {}
      BY <2>5
    <3> QED
      BY SMTT(30), <1>2, <3>1, FS_EmptySet DEF SectionPre
  <2>8. MayLeave(t, todo)
    BY <1>9, <2>7 DEF MayLeave
  <2>9. thr'[t] = [pc |-> "done", batch |-> {}, fOk |-> ok]
    BY <1>7, <2>6, <2>8
  <2> QED
    BY <2>9
<1>14. Sessions'
  <2>1. ASSUME NEW m \in Masters
        PROVE  /\ user'[m] \in InSession <=> control' = m
               /\ thr'[m].pc # "out" <=> user'[m] \in {"waiting", "dropping", "dropped"}
               /\ user'[m] = "dropped" => thr'[m].pc = "done"
               /\ verdict'[m] # "none" <=> thr'[m].pc = "done"
    <3>1. /\ user[m] \in InSession <=> control = m
          /\ thr[m].pc # "out" <=> user[m] \in {"waiting", "dropping", "dropped"}
          /\ user[m] = "dropped" => thr[m].pc = "done"
          /\ verdict[m] # "none" <=> thr[m].pc = "done"
      BY DEF IInv, Sessions
    <3>2. CASE m = t
      BY <1>5, <1>6, <1>8, <1>10, <1>11, <3>1, <3>2
    <3>3. CASE m # t
      <4>1. verdict'[m] = verdict[m]
        BY SMTT(30), <1>10, <1>11, <3>3
      <4>2. thr'[m].pc = IF m \in S THEN "woken" ELSE thr[m].pc
        BY <1>7, <1>9, <3>3
      <4> QED
        BY <1>5, <1>6, <3>1, <4>1, <4>2
    <3> QED
      BY <3>2, <3>3
  <2>2. /\ thr'[Main].pc \in {"out", "lock", "done"}
        /\ thr'[Main].batch = {}
        /\ thr'[Main].pc # "out" => down'.phase = "clearing"
    <3>1. /\ thr[Main].pc \in {"out", "lock", "done"}
          /\ thr[Main].batch = {}
          /\ thr[Main].pc # "out" => down.phase = "clearing"
      BY DEF IInv, Sessions
    <3>2. CASE t = Main
      BY SMTT(30), <1>5, <1>6, <1>7, <1>13, <3>1, <3>2
    <3>3. CASE t # Main
      BY SMTT(30), <1>5, <1>6, <1>7, <1>9, <3>1, <3>3
    <3> QED
      BY <3>2, <3>3
  <2>3. down'.phase \in {"clearing", "down"} => \A m \in Masters : user'[m] = "ended"
    BY <1>5 DEF IInv, Sessions
  <2> QED
    BY <2>1, <2>2, <2>3 DEF Sessions
<1>15. Quiet'
  <2> SUFFICES ASSUME control = Nobody \/ verdict'[control] # "none"
               PROVE  Outstanding' = {} /\ fAllOk'
    BY SMTT(30), <1>5 DEF Quiet
  <2>1. CASE control = Nobody \/ verdict[control] # "none"
    <3>1. Outstanding = {} /\ fAllOk
      BY <2>1 DEF IInv, Quiet
    <3>2. thr[t].batch = {}
      BY SMTT(30), <3>1 DEF Outstanding
    <3> QED
      BY Zenon, <1>4, <1>6, <1>7, <3>1, <3>2
  <2>2. CASE control # Nobody /\ verdict[control] = "none"
    <3>1. control \in Masters
      BY <2>2 DEF IInv, TypeOK
    <3>2. t = control /\ thr'[t].pc = "done"
      BY <1>10, <1>11, <2>2, <3>1
    <3>3. todo = 0 /\ fAllOk'
      <4>1. bMaster(t)
        BY <1>9, <3>1, <3>2
      <4>2. MayLeave(t, todo) /\ fAllOk' = (bMaster(t) \/ ok)
        BY <1>7, <3>2
      <4> QED
        BY Zenon, <4>1, <4>2 DEF MayLeave
    <3>4. IsFiniteSet(Outstanding \ thr[t].batch)
      BY Zenon, Finite, FS_Difference DEF IInv
    <3>5. Outstanding \ thr[t].batch = {}
      BY Zenon, <1>2, <3>3, <3>4, FS_EmptySet DEF SectionPre
    <3> QED
      BY <1>4, <3>3, <3>5
  <2> QED
    BY <2>1, <2>2
<1>16. MasterWaits'
  <2> SUFFICES ASSUME NEW m \in Masters, thr'[m].pc \in {"wait", "woken"}
               PROVE  queue' = <<>>
    BY DEF MasterWaits
  <2>1. CASE m = t
    BY <1>7, <2>1
  <2>2. CASE m # t
    <3>3. thr'[m].pc = IF m \in S THEN "woken" ELSE thr[m].pc
      BY <1>7, <1>9, <2>2
    <3>1. thr[m].pc \in {"wait", "woken"}
      BY <1>6, <3>3
    <3>2. queue = <<>>
      BY <3>1 DEF IInv, MasterWaits
    <3> QED
      BY <1>7, <3>2
  <2> QED
    BY <2>1, <2>2
<1>17. MasterNeedsWork'
  <2> SUFFICES ASSUME NEW m \in Masters, thr'[m].pc = "wait"
               PROVE  nTodo' # 0
    BY DEF MasterNeedsWork
  <2>1. CASE m = t
    BY SMTT(30), <1>7, <1>9, <2>1 DEF MayLeave
  <2>2. CASE m # t
    <3>1. thr[m].pc = "wait" /\ m \notin S
      BY <1>7, <1>9, <2>2
    <3>2. nTodo # 0
      BY <3>1 DEF IInv, MasterNeedsWork
    <3>3. m \in Blocked(TRUE)
      BY <1>9, <3>1 DEF Blocked
    <3>4. t \notin Masters
      BY Zenon, <1>6, <2>2, <3>3, OneMaster
    <3>5. t # Main
      <4>1. user[m] # "ended"
        BY <3>1 DEF IInv, Sessions
      <4> QED
        BY <1>6, <4>1 DEF IInv, Sessions
    <3>6. ~bMaster(t)
      BY SMTT(30), <3>4, <3>5 DEF Threads, bMaster
    <3> QED
      BY SMTT(30), <1>6, <1>7, <3>1, <3>2, <3>6
  <2> QED
    BY <2>1, <2>2
<1>18. WorkersOut'
  <2> SUFFICES ASSUME NEW w \in Workers, ~svc[w].running
               PROVE  thr'[w].pc \in {"out", "done"}
    BY <1>5 DEF WorkersOut
  <2>1. thr[w].pc \in {"out", "done"} /\ w \in Threads
    BY DEF IInv, WorkersOut, Threads
  <2>2. w # t /\ w \notin S
    BY <1>6, <2>1
  <2> QED
    BY <1>7, <2>1, <2>2
<1> QED
  BY <1>4, <1>12, <1>14, <1>15, <1>16, <1>17, <1>18 DEF IInv

-----------------------------------------------------------------------------
(* The other steps leave the queue, the counters and the batches alone.    *)

PoolKept ==
    /\ UNCHANGED <<queue, nTodo, nTotal, nIdle, fAllOk>>
    /\ thr' \in [Threads -> Locals]
    /\ \A u \in Threads :
          /\ thr'[u].batch = thr[u].batch
          /\ thr'[u].pc \in {"wait", "woken"} <=> thr[u].pc \in {"wait", "woken"}
          /\ thr'[u].batch # {} => thr'[u].pc \in {"work", "lock"}
          /\ thr'[u].pc = "work" => thr[u].pc = "work"

LEMMA PoolKeptSame ==
    ASSUME IInv, PoolKept
    PROVE  /\ PoolTyped' /\ OnePlace' /\ CountersExact'
           /\ Outstanding' = Outstanding
<1>1. TypeOK /\ OnePlace /\ CountersExact
  BY DEF IInv
<1>2. \A u \in Threads : /\ thr'[u].batch = thr[u].batch
                         /\ thr'[u].pc \in {"wait", "woken"}
                              <=> thr[u].pc \in {"wait", "woken"}
  BY DEF PoolKept
<1>3. queue' = queue /\ nTodo' = nTodo /\ nTotal' = nTotal /\ nIdle' = nIdle /\ fAllOk' = fAllOk
  BY DEF PoolKept
<1>4. Outstanding' = Outstanding
  <2>1. {thr'[u].batch : u \in Threads} = {thr[u].batch : u \in Threads}
    BY <1>2
  <2>2. Elems(queue') = Elems(queue)
    BY <1>3
  <2> QED
    BY Zenon, <2>1, <2>2 DEF Outstanding
<1>5. OnePlace'
  BY <1>1, <1>2, <1>3 DEF OnePlace, Elems
<1>6. PoolTyped'
  <2>1. ASSUME NEW u \in Threads
        PROVE  /\ thr'[u].pc = "work" => thr'[u].batch # {}
               /\ thr'[u].batch # {} => thr'[u].pc \in {"work", "lock"}
    <3>1. thr[u].pc = "work" => thr[u].batch # {}
      BY DEF IInv, TypeOK
    <3> QED
      BY <3>1 DEF PoolKept
  <2> QED
    BY <1>3, <2>1 DEF IInv, TypeOK, PoolTyped, PoolKept, Locals
<1>7. Counted' = Counted /\ Idle' = Idle
  <2>1. Idle' = Idle
    BY <1>2 DEF Idle
  <2>2. ASSUME NEW u \in Threads PROVE InLoop(u)' <=> InLoop(u)
    <3>1. /\ thr[u].pc = "work" => thr[u].batch # {}
          /\ thr[u].batch # {} => thr[u].pc \in {"work", "lock"}
      BY DEF IInv, TypeOK
    <3>2. /\ thr'[u].batch # {} => thr'[u].pc \in {"work", "lock"}
          /\ thr'[u].pc = "work" => thr[u].pc = "work"
      BY DEF PoolKept
    <3> QED
      BY <1>2, <3>1, <3>2 DEF InLoop
  <2>3. Counted' = Counted
    BY <2>2 DEF Counted
  <2> QED
    BY <2>1, <2>3
<1>8. CountersExact'
  <2>1. nTotal = Cardinality(Counted) /\ nIdle = Cardinality(Idle) /\ nTodo = Cardinality(Outstanding)
    BY <1>1 DEF CountersExact, Counted, Idle
  <2>2. nTotal' = Cardinality(Counted') /\ nIdle' = Cardinality(Idle') /\ nTodo' = Cardinality(Outstanding')
    BY SMTT(30), <1>3, <1>4, <1>7, <2>1
  <2> QED
    BY <2>2 DEF CountersExact, Counted, Idle
<1> QED
  BY <1>4, <1>5, <1>6, <1>8

\* Such a step preserves the invariant when it keeps the masters' sessions.
LEMMA PoolKeptKeeps ==
    ASSUME IInv, PoolKept, TypeOK', Sessions', WorkersOut',
           \A m \in Masters : thr'[m].pc = "wait" => thr[m].pc = "wait",
           control' = Nobody \/ verdict'[control'] # "none" =>
              control = Nobody \/ verdict[control] # "none"
    PROVE  IInv'
<1>1. /\ OnePlace' /\ CountersExact' /\ Outstanding' = Outstanding
  BY PoolKeptSame
<1>2. UNCHANGED <<queue, nTodo, fAllOk>>
  BY DEF PoolKept
<1>3. Quiet'
  BY <1>1, <1>2 DEF IInv, Quiet
<1>4. \A m \in Masters : thr'[m].pc \in {"wait", "woken"} <=> thr[m].pc \in {"wait", "woken"}
  BY DEF PoolKept, Threads
<1>5. MasterWaits'
  BY <1>2, <1>4 DEF IInv, MasterWaits
<1>6. MasterNeedsWork'
  BY <1>2 DEF IInv, MasterNeedsWork
<1> QED
  BY <1>1, <1>3, <1>5, <1>6 DEF IInv

-----------------------------------------------------------------------------
(* Sessions by master, and the steps of Loop that are not critical.        *)

\* What the invariant says of one master, and of Main.
MasterInv(m) ==
    /\ user[m] \in InSession <=> control = m
    /\ thr[m].pc # "out" <=> user[m] \in {"waiting", "dropping", "dropped"}
    /\ user[m] = "dropped" => thr[m].pc = "done"
    /\ verdict[m] # "none" <=> thr[m].pc = "done"

MainInv ==
    /\ thr[Main].pc \in {"out", "lock", "done"}
    /\ thr[Main].batch = {}
    /\ thr[Main].pc # "out" => down.phase = "clearing"
    /\ down.phase \in {"clearing", "down"} => \A m \in Masters : user[m] = "ended"

LEMMA SessionsSplit ==
    Sessions <=> (\A m \in Masters : MasterInv(m)) /\ MainInv
BY DEF Sessions, MasterInv, MainInv

LEMMA SessionsSplitNext ==
    Sessions' <=> (\A m \in Masters : MasterInv(m)') /\ MainInv'
BY DEF Sessions, MasterInv, MainInv

LEMMA ThreadKinds ==
    /\ \A m \in Masters : m \in Threads /\ m # Main /\ m \notin Workers
    /\ Main \in Threads /\ Main \notin Masters /\ Main \notin Workers
    /\ \A w \in Workers : w \in Threads /\ w # Main /\ w \notin Masters
BY CheckAssumption DEF Threads

\* Locals of one thread replaced, the batch kept.
LEMMA OneThreadMoves ==
    ASSUME IInv, NEW t \in Threads, NEW loc \in Locals,
           thr' = [thr EXCEPT ![t] = loc],
           UNCHANGED <<queue, nTodo, nTotal, nIdle, fAllOk>>,
           loc.batch = thr[t].batch,
           loc.pc \in {"wait", "woken"} <=> thr[t].pc \in {"wait", "woken"},
           loc.batch # {} => loc.pc \in {"work", "lock"},
           loc.pc = "work" => thr[t].pc = "work"
    PROVE  /\ PoolKept
           /\ thr'[t] = loc
           /\ \A u \in Threads \ {t} : thr'[u] = thr[u]
<1>1. thr \in [Threads -> Locals]
  BY DEF IInv, TypeOK, Locals
<1>2. thr' \in [Threads -> Locals] /\ thr'[t] = loc /\ \A u \in Threads \ {t} : thr'[u] = thr[u]
  BY <1>1
<1>3. \A u \in Threads : thr[u].batch # {} => thr[u].pc \in {"work", "lock"}
  BY DEF IInv, TypeOK
<1> QED
  BY <1>2, <1>3 DEF PoolKept

LEMMA WorkKeeps ==
    ASSUME IInv, NEW t \in Threads, Work(t)
    PROVE  IInv'
<1> DEFINE loc == [pc |-> "lock", batch |-> thr[t].batch,
                   fOk |-> thr[t].fOk /\ thr[t].batch \cap Bad = {}]
<1>1. /\ thr \in [Threads -> Locals] /\ thr[t].pc = "work"
      /\ UNCHANGED <<queue, nTodo, nTotal, nIdle, fAllOk, verdict>>
      /\ UNCHANGED <<stopped, control, user, svc, down>>
  BY DEF IInv, TypeOK, Locals, Work, outsidePool
<1>2. loc \in Locals
  BY <1>1 DEF Locals, LoopSteps
<1>3. thr' = [thr EXCEPT ![t] = loc]
  BY DEF Work
<1> HIDE DEF loc
<1>4. loc.batch = thr[t].batch /\ loc.pc = "lock"
  BY DEF loc
<1>5. PoolKept /\ thr'[t] = loc /\ \A u \in Threads \ {t} : thr'[u] = thr[u]
  BY Zenon, <1>1, <1>2, <1>3, <1>4, OneThreadMoves
<1>6. TypeOK'
  BY <1>1, <1>5, PoolKeptSame DEF IInv, TypeOK, PoolTyped
<1>7. Sessions'
  <2>1. ASSUME NEW m \in Masters PROVE MasterInv(m)'
    BY <1>1, <1>4, <1>5, SessionsSplit, ThreadKinds DEF IInv, MasterInv
  <2>2. MainInv'
    BY <1>1, <1>4, <1>5, SessionsSplit, ThreadKinds DEF IInv, MainInv
  <2> QED
    BY <2>1, <2>2, SessionsSplitNext
<1>8. WorkersOut'
  BY SMTT(30), <1>1, <1>5, ThreadKinds DEF IInv, WorkersOut
<1> QED
  BY <1>1, <1>4, <1>5, <1>6, <1>7, <1>8, ThreadKinds, PoolKeptKeeps

\* A step that only wakes blocked threads.
LEMMA WakeKeeps ==
    ASSUME IInv, NEW S, S \subseteq Blocked(TRUE) \cup Blocked(FALSE), thr' = Woken(S),
           UNCHANGED <<queue, nTodo, nTotal, nIdle, fAllOk>>
    PROVE  /\ PoolKept
           /\ \A u \in Threads : \/ u \in S /\ thr[u].pc = "wait" /\ thr'[u].pc = "woken"
                                 \/ u \notin S /\ thr'[u].pc = thr[u].pc
<1>1. /\ thr' \in [Threads -> Locals]
      /\ \A u \in Threads :
            /\ thr'[u].batch = thr[u].batch
            /\ thr'[u].pc = IF u \in S THEN "woken" ELSE thr[u].pc
  BY WokenFields DEF IInv
<1>2. \A u \in S : thr[u].pc = "wait"
  BY DEF Blocked
<1>3. \A u \in Threads : thr[u].batch # {} => thr[u].pc \in {"work", "lock"}
  BY DEF IInv, TypeOK
<1> QED
  BY <1>1, <1>2, <1>3 DEF PoolKept

LEMMA SpuriousKeeps ==
    ASSUME IInv, NEW t \in Threads, SpuriousWakeup(t)
    PROVE  IInv'
<1>1. /\ thr' = Woken({t}) /\ thr[t].pc = "wait"
      /\ UNCHANGED <<queue, nTodo, nTotal, nIdle, fAllOk, verdict>>
      /\ UNCHANGED <<stopped, control, user, svc, down>>
  BY DEF SpuriousWakeup, outsidePool
<1>2. {t} \subseteq Blocked(TRUE) \cup Blocked(FALSE)
  BY <1>1 DEF Blocked, bMaster
<1>3. /\ PoolKept
      /\ \A u \in Threads : \/ u = t /\ thr[u].pc = "wait" /\ thr'[u].pc = "woken"
                            \/ u # t /\ thr'[u].pc = thr[u].pc
  BY Zenon, <1>1, <1>2, WakeKeeps
<1>4. TypeOK'
  BY Zenon, <1>1, <1>3, PoolKeptSame DEF IInv, TypeOK, PoolTyped
<1>5. Sessions'
  <2>1. ASSUME NEW m \in Masters PROVE MasterInv(m)'
    BY SMTT(30), <1>1, <1>3, SessionsSplit, ThreadKinds DEF IInv, MasterInv
  <2>2. MainInv'
    BY <1>1, <1>3, SessionsSplit, ThreadKinds DEF IInv, MainInv, PoolKept
  <2> QED
    BY <2>1, <2>2, SessionsSplitNext
<1>6. WorkersOut'
  BY Zenon, <1>1, <1>3, ThreadKinds DEF IInv, WorkersOut
<1> QED
  BY <1>1, <1>3, <1>4, <1>5, <1>6, ThreadKinds, PoolKeptKeeps

=============================================================================
