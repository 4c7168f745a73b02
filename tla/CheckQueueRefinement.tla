------------------------ MODULE CheckQueueRefinement ------------------------
(***************************************************************************)
(* The check queue implements CheckVerdict, for any number of workers,     *)
(* masters and checks.                                                     *)
(***************************************************************************)
EXTENDS CheckQueueProofs

-----------------------------------------------------------------------------
(* The pool implements CheckVerdict.                                       *)

\* What a thread's batch contributes to the answer.
ThreadGood(t) ==
    thr[t].batch # {} =>
        thr[t].fOk /\ (thr[t].pc = "work" => thr[t].batch \cap Bad = {})

LEMMA GoodSplit ==
    /\ goodSoFar <=> fAllOk /\ Elems(queue) \cap Bad = {} /\ \A t \in Threads : ThreadGood(t)
    /\ goodSoFar' <=> fAllOk' /\ Elems(queue') \cap Bad = {} /\ \A t \in Threads : ThreadGood(t)'
BY DEF goodSoFar, ThreadGood, Elems

\* A step that moves no check keeps the answer.
LEMMA GoodKept ==
    ASSUME UNCHANGED <<queue, fAllOk>>,
           \A u \in Threads :
               \/ thr[u].batch = {} /\ thr'[u].batch = {}
               \/ thr'[u] = thr[u]
    PROVE  goodSoFar' = goodSoFar
<1>1. \A u \in Threads : ThreadGood(u)' <=> ThreadGood(u)
  BY DEF ThreadGood
<1>2. goodSoFar' <=> goodSoFar
  BY <1>1, GoodSplit
<1> QED
  BY <1>2 DEF goodSoFar

\* Threads of S are notified, and x, which holds no check, moves to loc.
LEMMA MoveKeepsGood ==
    ASSUME IInv, NEW S, S \subseteq Blocked(TRUE) \cup Blocked(FALSE), NEW x \in Threads,
           NEW loc, loc.batch = {}, thr[x].batch = {},
           UNCHANGED <<queue, fAllOk>>,
           \/ thr' = [Woken(S) EXCEPT ![x] = loc]
           \/ thr' = [thr EXCEPT ![x] = loc]
           \/ thr' = Woken(S)
    PROVE  goodSoFar' = goodSoFar
<1>1. thr \in [Threads -> Locals] /\ \A u \in Threads : thr[u].pc = "wait" => thr[u].batch = {}
  BY DEF IInv, TypeOK, Locals
<1>2. Woken(S) = [u \in Threads |-> Woken(S)[u]]
  BY DEF Woken
<1>3. \A u \in Threads : u \notin S => Woken(S)[u] = thr[u]
  BY DEF Woken
<1>4. \A u \in S : u \in Threads /\ thr[u].batch = {} /\ Woken(S)[u].batch = {}
  BY <1>1, WokenFields DEF Blocked, IInv
<1>5. ASSUME NEW u \in Threads
      PROVE  (thr[u].batch = {} /\ thr'[u].batch = {}) \/ thr'[u] = thr[u]
  <2>1. thr'[u] \in {Woken(S)[u], thr[u]} \/ (u = x /\ thr'[u] = loc)
    BY <1>1, <1>2
  <2> QED
    BY <1>3, <1>4, <2>1
<1> QED
  BY <1>5, GoodKept

LEMMA WorkKeepsGood ==
    ASSUME IInv, NEW t \in Threads, Work(t)
    PROVE  goodSoFar' = goodSoFar
<1>1. /\ thr[t].pc = "work" /\ thr[t].batch # {} /\ UNCHANGED <<queue, fAllOk>>
      /\ thr \in [Threads -> Locals]
  BY DEF IInv, TypeOK, Work, Locals
<1>2. thr'[t] = [pc |-> "lock", batch |-> thr[t].batch,
                 fOk |-> thr[t].fOk /\ thr[t].batch \cap Bad = {}]
  BY <1>1 DEF Work
<1>3. \A u \in Threads \ {t} : thr'[u] = thr[u]
  BY <1>1 DEF Work
<1>4. ThreadGood(t)' <=> ThreadGood(t)
  <2>1. thr'[t].pc = "lock" /\ thr'[t].batch = thr[t].batch
    BY <1>2
  <2>2. thr'[t].fOk <=> thr[t].fOk /\ thr[t].batch \cap Bad = {}
    <3> DEFINE r == (thr[t].fOk /\ thr[t].batch \cap Bad = {})
    <3>1. r <=> thr[t].fOk /\ thr[t].batch \cap Bad = {}
      OBVIOUS
    <3>2. thr'[t] = [pc |-> "lock", batch |-> thr[t].batch, fOk |-> r]
      BY <1>2
    <3> HIDE DEF r
    <3>3. thr'[t].fOk = r
      BY <3>2
    <3> QED
      BY <3>1, <3>3
  <2> QED
    BY <1>1, <2>1, <2>2 DEF ThreadGood
<1>5. \A u \in Threads : ThreadGood(u)' <=> ThreadGood(u)
  <2>1. \A u \in Threads \ {t} : ThreadGood(u)' <=> ThreadGood(u)
    BY <1>3 DEF ThreadGood
  <2> QED
    BY <1>4, <2>1
<1>6. goodSoFar' <=> goodSoFar
  BY <1>1, <1>5, GoodSplit
<1> QED
  BY <1>6 DEF goodSoFar

LEMMA AddSubmits ==
    ASSUME IInv, NEW m \in Masters, NEW vChecks \in Txs, Add(m, vChecks)
    PROVE  CV!Next
<1>1. /\ user[m] = "adding" /\ Elems(vChecks) \cap Outstanding = {}
      /\ queue' = queue \o vChecks
      /\ UNCHANGED <<fAllOk, verdict, control>>
  BY DEF Add, outsidePool
<1>2. PICK S : S \subseteq Blocked(FALSE) /\ thr' = Woken(S)
  BY Zenon DEF Add, NotifyOne
<1>3. /\ vChecks \in Seq(Checks) /\ \A i, j \in DOMAIN vChecks : vChecks[i] = vChecks[j] => i = j
      /\ Elems(vChecks) \cap Elems(queue) = {}
  BY <1>1, CheckAssumption DEF Outstanding
<1>4. Elems(queue') = Elems(queue) \cup Elems(vChecks)
  BY SMTT(30), <1>1, <1>3, Appended DEF IInv, TypeOK, OnePlace
<1>5. control = m /\ verdict[m] = "none" /\ m # Nobody
  BY <1>1, OnlyTheOwnerAdds, CheckAssumption
<1>6. \A u \in Threads :
          \/ thr[u].batch = {} /\ thr'[u].batch = {}
          \/ thr'[u] = thr[u]
  <2>1. \A u \in Threads : u \notin S => thr'[u] = thr[u]
    BY <1>2 DEF Woken
  <2>2. \A u \in Threads : thr'[u].batch = thr[u].batch
    BY <1>2, WokenFields DEF IInv
  <2>3. \A u \in Threads : u \in S => thr[u].batch = {}
    BY <1>2 DEF Blocked, IInv, TypeOK
  <2> QED
    BY <2>1, <2>2, <2>3
<1>7. \A u \in Threads : ThreadGood(u)' <=> ThreadGood(u)
  BY <1>6 DEF ThreadGood
<1>8. goodSoFar' <=> goodSoFar /\ Elems(vChecks) \cap Bad = {}
  BY <1>1, <1>4, <1>7, GoodSplit
<1>9. goodSoFar' = (goodSoFar /\ Elems(vChecks) \cap Bad = {})
  BY <1>8 DEF goodSoFar
<1>10. Elems(vChecks) \in SUBSET Checks
  BY <1>3 DEF Elems
<1>11. CV!Submit(Elems(vChecks))
  BY <1>1, <1>5, <1>9 DEF CV!Submit
<1> QED
  BY <1>10, <1>11 DEF CV!Next

\* A critical section of Loop by t, which takes over what its batch added to
\* the answer: seen by the others, and by t.
LEMMA SectionGood ==
    ASSUME IInv, NEW t \in Threads, NEW todo, NEW ok, NEW total, NEW idle, NEW S,
           SectionStep(t, todo, ok, total, idle, S)
    PROVE  /\ \A u \in Threads \ {t} : ThreadGood(u)' <=> ThreadGood(u)
           /\ ok <=> fAllOk /\ ThreadGood(t)
<1>1. /\ thr[t].pc \in {"lock", "woken"} /\ S \subseteq Blocked(TRUE)
      /\ ok = (fAllOk /\ (thr[t].batch # {} => thr[t].fOk))
  BY Zenon DEF SectionStep, SectionPre
<1>2. ProceedPost(t, todo, ok, total, idle, S)
  BY SectionEffect DEF SectionPost
<1>3. \A u \in Threads \ {t} : /\ thr'[u].batch = thr[u].batch
                                /\ thr'[u].fOk = thr[u].fOk
                                /\ thr'[u].pc = IF u \in S THEN "woken" ELSE thr[u].pc
  BY <1>2 DEF ProceedPost
<1>4. \A u \in S : thr[u].batch = {}
  BY <1>1 DEF Blocked, IInv, TypeOK
<1>5. \A u \in Threads \ {t} : ThreadGood(u)' <=> ThreadGood(u)
  BY <1>3, <1>4 DEF ThreadGood
<1>6. ok <=> fAllOk /\ ThreadGood(t)
  BY Zenon, <1>1 DEF ThreadGood
<1> QED
  BY <1>5, <1>6

\* The master leaves Loop: this is the answer.
LEMMA MasterAnswers ==
    ASSUME IInv, NEW t \in Masters, NEW todo, NEW ok, NEW total, NEW idle, NEW S,
           SectionStep(t, todo, ok, total, idle, S), thr'[t].pc = "done"
    PROVE  CV!Answer
<1>1. t \in Threads /\ t # Nobody /\ bMaster(t)
  BY ThreadKinds, CheckAssumption DEF bMaster
<1>2. ProceedPost(t, todo, ok, total, idle, S) /\ Outstanding' = Outstanding \ thr[t].batch
  BY <1>1, SectionEffect DEF SectionPost
<1>3. /\ thr'[t] = [pc |-> "done", batch |-> {}, fOk |-> ok]
      /\ queue = <<>> /\ queue' = <<>> /\ MayLeave(t, todo)
      /\ fAllOk' = (bMaster(t) \/ ok)
  BY <1>2 DEF ProceedPost
<1>4. Outstanding \ thr[t].batch = {}
  <2>1. todo = 0 /\ todo = Cardinality(Outstanding \ thr[t].batch)
    BY <1>3 DEF MayLeave, SectionStep, SectionPre
  <2>2. IsFiniteSet(Outstanding \ thr[t].batch)
    BY Finite, FS_Subset DEF IInv
  <2> QED
    BY <2>1, <2>2, FS_EmptySet
<1>5. \A u \in Threads \ {t} : thr[u].batch = {}
  <2>1. \A u \in Threads \ {t} : thr[u].batch \cap thr[t].batch = {}
    BY <1>1 DEF IInv, OnePlace
  <2>2. \A u \in Threads : thr[u].batch \subseteq thr[t].batch
    BY <1>4 DEF Outstanding
  <2> QED
    BY <2>1, <2>2
<1>6. \A u \in Threads \ {t} : ThreadGood(u) /\ ThreadGood(u)'
  BY <1>1, <1>5, SectionGood DEF ThreadGood
<1>7. Elems(queue) = {} /\ Elems(queue') = {}
  BY <1>3 DEF Elems
<1>8. goodSoFar <=> ok
  BY <1>1, <1>6, <1>7, GoodSplit, SectionGood
<1>9. ThreadGood(t)'
  BY <1>3 DEF ThreadGood
<1>10. goodSoFar' = TRUE
  BY <1>1, <1>3, <1>6, <1>7, <1>9, GoodSplit
<1>11. control = t /\ verdict[t] = "none" /\ control' = control
  <2>1. thr[t].pc \in {"lock", "woken"} /\ MasterInv(t)
    BY SessionsSplit DEF SectionStep, SectionPre, IInv
  <2> QED
    BY <2>1 DEF MasterInv, InSession, SectionStep, outsidePool
<1>12. verdict' = [verdict EXCEPT ![t] = IF ok THEN "good" ELSE "bad"]
  <2>1. thr'[t].pc = "done" /\ thr'[t].fOk = ok
    BY <1>3
  <2> QED
    BY <2>1 DEF SectionStep, Told
<1>13. verdict' = [verdict EXCEPT ![control] = IF goodSoFar THEN "good" ELSE "bad"]
  BY Zenon, <1>8, <1>11, <1>12
<1> QED
  BY <1>1, <1>10, <1>11, <1>13 DEF CV!Answer

\* Any other critical section moves checks about, or only counts.
LEMMA SectionStutters ==
    ASSUME IInv, NEW t \in Threads, NEW todo, NEW ok, NEW total, NEW idle, NEW S,
           SectionStep(t, todo, ok, total, idle, S),
           t \notin Masters \/ thr'[t].pc # "done"
    PROVE  UNCHANGED <<control, goodSoFar, verdict>>
<1>1. UNCHANGED <<control, verdict>>
  BY DEF SectionStep, outsidePool, Told
<1>2. ProceedPost(t, todo, ok, total, idle, S)
  BY SectionEffect DEF SectionPost
<1>3. /\ \A u \in Threads \ {t} : ThreadGood(u)' <=> ThreadGood(u)
      /\ ok <=> fAllOk /\ ThreadGood(t)
  BY SectionGood
<1>4. goodSoFar <=> /\ ok /\ Elems(queue) \cap Bad = {}
                    /\ \A u \in Threads \ {t} : ThreadGood(u)
  BY <1>3, GoodSplit
<1>5. goodSoFar' <=> /\ fAllOk' /\ Elems(queue') \cap Bad = {} /\ ThreadGood(t)'
                     /\ \A u \in Threads \ {t} : ThreadGood(u)
  BY <1>3, GoodSplit
<1>6. /\ ok \in BOOLEAN
      /\ thr'[t].batch \cup Elems(queue') = Elems(queue)
      /\ thr'[t].batch # {} <=> thr'[t].pc = "work"
  BY <1>2 DEF ProceedPost, SectionStep, SectionPre
<1>7. ASSUME thr'[t] = [pc |-> "done", batch |-> {}, fOk |-> ok],
             queue = <<>>, queue' = <<>>, fAllOk' = (bMaster(t) \/ ok)
      PROVE  goodSoFar' <=> goodSoFar
  <2>1. ThreadGood(t)' /\ Elems(queue') = Elems(queue)
    BY <1>7 DEF ThreadGood
  <2>2. CASE ~bMaster(t)
    BY <1>4, <1>5, <1>7, <2>1, <2>2
  <2>3. CASE bMaster(t)
    <3>1. t = Main
      BY <1>7, <2>3 DEF bMaster, Threads
    <3>2. control = Nobody
      <4>1. thr[Main].pc # "out" /\ MainInv /\ \A m \in Masters : MasterInv(m)
        BY <3>1, SessionsSplit DEF SectionStep, SectionPre, IInv
      <4>2. \A m \in Masters : user[m] = "ended"
        BY <4>1 DEF MainInv
      <4>3. \A m \in Masters : control # m
        BY <4>1, <4>2 DEF MasterInv, InSession
      <4> QED
        BY <4>3 DEF IInv, TypeOK
    <3>3. Outstanding = {} /\ fAllOk
      BY <3>2 DEF IInv, Quiet
    <3>4. \A u \in Threads : thr[u].batch = {}
      BY <3>3 DEF Outstanding
    <3>5. ThreadGood(t)
      BY <3>4 DEF ThreadGood
    <3>6. ok
      BY <1>3, <3>3, <3>5
    <3> QED
      BY Zenon, <1>4, <1>5, <1>7, <2>1, <2>3, <3>6
  <2> QED
    BY <2>2, <2>3
<1>8. ASSUME thr'[t].batch = {}, fAllOk' = ok
      PROVE  goodSoFar' <=> goodSoFar
  <2>1. ThreadGood(t)' /\ Elems(queue') = Elems(queue)
    BY <1>6, <1>8 DEF ThreadGood
  <2> QED
    BY <1>4, <1>5, <1>8, <2>1
<1>9. ASSUME thr'[t].pc = "work", thr'[t].fOk = ok, fAllOk' = ok
      PROVE  goodSoFar' <=> goodSoFar
  <2>1. ThreadGood(t)' <=> ok /\ thr'[t].batch \cap Bad = {}
    BY <1>6, <1>9 DEF ThreadGood
  <2>2. Elems(queue) \cap Bad = {} <=> Elems(queue') \cap Bad = {} /\ thr'[t].batch \cap Bad = {}
    BY <1>6
  <2> QED
    BY <1>4, <1>5, <1>9, <2>1, <2>2
<1>10. goodSoFar' <=> goodSoFar
  BY <1>2, <1>7, <1>8, <1>9 DEF ProceedPost
<1> QED
  BY <1>1, <1>10 DEF goodSoFar

LEMMA LoopImplements ==
    ASSUME IInv, NEW t \in Threads, LoopStep(t) \/ SpuriousWakeup(t)
    PROVE  CV!Next \/ UNCHANGED <<control, goodSoFar, verdict>>
<1>1. CASE Section(t)
  <2>1. PICK todo, ok, total, idle, S : SectionStep(t, todo, ok, total, idle, S)
    BY <1>1 DEF Section
  <2>2. CASE t \in Masters /\ thr'[t].pc = "done"
    BY <2>1, <2>2, MasterAnswers DEF CV!Next
  <2>3. CASE t \notin Masters \/ thr'[t].pc # "done"
    BY <2>1, <2>3, SectionStutters
  <2> QED
    BY <2>2, <2>3
<1>2. CASE Work(t)
  BY <1>2, WorkKeepsGood DEF Work, outsidePool
<1>3. CASE SpuriousWakeup(t)
  <2>1. /\ {t} \subseteq Blocked(TRUE) \cup Blocked(FALSE) /\ thr[t].batch = {}
        /\ thr' = Woken({t})
        /\ UNCHANGED <<queue, fAllOk, verdict, control>>
    BY <1>3 DEF SpuriousWakeup, Blocked, bMaster, outsidePool, IInv, TypeOK
  <2>2. Outside.batch = {}
    BY DEF Outside
  <2>3. goodSoFar' = goodSoFar
    BY <2>1, <2>2, MoveKeepsGood
  <2> QED
    BY <2>1, <2>3
<1> QED
  BY <1>1, <1>2, <1>3, FinishSection, EnterSection, ResumeSection DEF LoopStep

LEMMA MasterImplements ==
    ASSUME IInv, NEW m \in Masters,
           \/ CreateMaster(m) \/ DestroyMaster(m) \/ ReleaseControl(m) \/ MasterThreadEnds(m)
           \/ \E early \in BOOLEAN : Wait(m, early)
    PROVE  CV!Next \/ UNCHANGED <<control, goodSoFar, verdict>>
<1>1. m \in Threads /\ m # Nobody /\ MasterInv(m)
  BY ThreadKinds, CheckAssumption, SessionsSplit DEF IInv
<1>2. Entering.batch = {} /\ Outside.batch = {}
  BY DEF Entering, Outside
<1>3. thr[m].pc \in {"out", "done"} => thr[m].batch = {}
  BY <1>1 DEF IInv, TypeOK
<1>4. CASE CreateMaster(m)
  <2>1. goodSoFar' = goodSoFar
    BY <1>4, GoodKept DEF CreateMaster, pool
  <2> QED
    BY <1>4, <2>1 DEF CreateMaster, CV!Next, CV!Begin
<1>5. CASE MasterThreadEnds(m)
  <2>1. goodSoFar' = goodSoFar
    BY <1>5, GoodKept DEF MasterThreadEnds, pool
  <2> QED
    BY <1>5, <2>1 DEF MasterThreadEnds
<1>6. ASSUME NEW early \in BOOLEAN, Wait(m, early)
      PROVE  UNCHANGED <<control, goodSoFar, verdict>>
  <2>1. thr[m].pc = "out" /\ thr' = [thr EXCEPT ![m] = Entering]
    BY <1>6, OnlyTheOwnerAdds DEF Wait
  <2>2. goodSoFar' = goodSoFar
    BY Zenon, <1>1, <1>2, <1>3, <1>6, <2>1, MoveKeepsGood, {} \subseteq Blocked(TRUE) DEF Wait
  <2> QED
    BY <1>6, <2>2 DEF Wait
<1>7. ASSUME thr[m].pc = "done", user[m] \in {"waiting", "dropped"},
             thr' = [thr EXCEPT ![m] = Outside], control' = Nobody,
             verdict' = [verdict EXCEPT ![m] = "none"], UNCHANGED <<queue, fAllOk>>
      PROVE  CV!Next
  <2>1. control = m /\ verdict[m] # "none"
    BY <1>1, <1>7 DEF MasterInv, InSession
  <2>2. goodSoFar' = goodSoFar
    BY Zenon, <1>1, <1>2, <1>3, <1>7, MoveKeepsGood, {} \subseteq Blocked(TRUE)
  <2>3. CV!Release
    BY <1>1, <1>7, <2>1, <2>2 DEF CV!Release
  <2> QED
    BY <2>3 DEF CV!Next
<1>8. CASE DestroyMaster(m) /\ user[m] = "waiting"
  BY <1>7, <1>8 DEF DestroyMaster
<1>9. CASE DestroyMaster(m) /\ user[m] = "dropping"
  <2>1. /\ thr' = Woken(Blocked(TRUE)) /\ thr[m].batch = {}
        /\ UNCHANGED <<queue, fAllOk, control, verdict>>
    BY SMTT(30), <1>3, <1>9 DEF DestroyMaster, Stop
  <2>2. goodSoFar' = goodSoFar
    BY Zenon, <1>1, <1>2, <2>1, MoveKeepsGood
  <2> QED
    BY <2>1, <2>2
<1>10. CASE ReleaseControl(m)
  <2>1. thr[m].pc = "done"
    BY <1>1, <1>10 DEF ReleaseControl, MasterInv
  <2> QED
    BY <1>7, <1>10, <2>1 DEF ReleaseControl
<1> QED
  BY Zenon, <1>4, <1>5, <1>6, <1>8, <1>9, <1>10 DEF DestroyMaster

LEMMA GroupImplements ==
    ASSUME IInv, \/ \E w \in Workers : RunWorker(w) \/ ExitWorker(w) \/ WaitForStop(w)
                 \/ Interrupt \/ StopAll \/ Join \/ ClearGroup
    PROVE  UNCHANGED <<control, goodSoFar, verdict>>
<1>1. Entering.batch = {} /\ Outside.batch = {}
  BY DEF Entering, Outside
<1>2. UNCHANGED <<control, verdict>>
  BY Zenon DEF RunWorker, ExitWorker, WaitForStop, Interrupt, StopAll, Join, ClearGroup
<1>3. Main \in Threads /\ thr[Main].batch = {}
  BY ThreadKinds DEF IInv, Sessions
<1>4. ASSUME UNCHANGED pool PROVE goodSoFar' = goodSoFar
  BY <1>4, GoodKept DEF pool
<1>5. ASSUME Stop(FALSE) PROVE goodSoFar' = goodSoFar
  BY <1>1, <1>3, <1>5, MoveKeepsGood DEF Stop
<1>6. ASSUME NEW w \in Workers, RunWorker(w) PROVE goodSoFar' = goodSoFar
  <2>1. w \in Threads /\ thr[w].pc \in {"out", "done"}
    BY <1>6, ThreadKinds DEF RunWorker, IInv, WorkersOut
  <2>2. thr[w].batch = {} /\ thr' = [thr EXCEPT ![w] = Entering] /\ UNCHANGED <<queue, fAllOk>>
    BY <1>6, <2>1 DEF RunWorker, IInv, TypeOK
  <2> QED
    BY Zenon, <1>1, <2>1, <2>2, MoveKeepsGood, {} \subseteq Blocked(TRUE)
<1>7. ASSUME NEW w \in Workers, WaitForStop(w) PROVE goodSoFar' = goodSoFar
  BY <1>4, <1>5, <1>7 DEF WaitForStop, StopWorker
<1>8. ASSUME NEW w \in Workers, ExitWorker(w) PROVE goodSoFar' = goodSoFar
  BY <1>4, <1>8 DEF ExitWorker
<1>9. ASSUME Interrupt \/ StopAll \/ Join PROVE goodSoFar' = goodSoFar
  BY <1>4, <1>5, <1>9 DEF Interrupt, StopAll, Join, StopWorker
<1>10. ASSUME ClearGroup PROVE goodSoFar' = goodSoFar
  <2>1. \/ UNCHANGED pool
        \/ /\ UNCHANGED <<queue, fAllOk>>
           /\ \/ thr' = [thr EXCEPT ![Main] = Entering]
              \/ thr' = [Woken(Blocked(FALSE)) EXCEPT ![Main] = Outside]
    BY Zenon, <1>10 DEF ClearGroup
  <2> QED
    BY <1>1, <1>3, <1>4, <2>1, MoveKeepsGood
<1>11. goodSoFar' = goodSoFar
  BY <1>6, <1>7, <1>8, <1>9, <1>10
<1> QED
  BY <1>2, <1>11

\* The refinement theorem: with any number of worker threads, of threads that
\* connect blocks and of checks, stopped or not, a block is told "good"
\* exactly when each check handed in for it, and no other, succeeded.
THEOREM PoolImplementsVerdict == Spec => ImplementsVerdict
<1>1. Init => CV!Init
  <2> SUFFICES ASSUME Init PROVE CV!Init
    OBVIOUS
  <2>1. goodSoFar = TRUE
    <3>1. Elems(queue) = {} /\ \A t \in Threads : thr[t].batch = {}
      BY DEF Init, Elems, Outside
    <3> QED
      BY <3>1 DEF Init, goodSoFar
  <2> QED
    BY <2>1 DEF Init, CV!Init
<1>2. IInv /\ [Next]_vars => [CV!Next]_(CV!vars)
  <2> SUFFICES ASSUME IInv, [Next]_vars
               PROVE  CV!Next \/ UNCHANGED <<control, goodSoFar, verdict>>
    BY DEF CV!vars
  <2>1. CASE UNCHANGED vars
    <3>1. UNCHANGED <<queue, fAllOk, thr, control, verdict>>
      BY <2>1 DEF vars, pool
    <3> QED
      BY <3>1, GoodKept
  <2> QED
    BY <2>1, LoopImplements, MasterImplements, AddSubmits, GroupImplements DEF Next
<1> QED
  BY <1>1, <1>2, Invariant, PTL DEF Spec, ImplementsVerdict, CV!Spec
=============================================================================
