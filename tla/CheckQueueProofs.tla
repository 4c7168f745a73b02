-------------------------- MODULE CheckQueueProofs --------------------------
(***************************************************************************)
(* The invariants of the check queue, for any number of workers, masters   *)
(* and checks: the steps outside Loop, and the theorems.                   *)
(***************************************************************************)
EXTENDS CheckQueueLoopProofs

-----------------------------------------------------------------------------
(* The steps of a master outside Loop.                                     *)

LEMMA CreateKeeps ==
    ASSUME IInv, NEW m \in Masters, CreateMaster(m)
    PROVE  IInv'
<1>1. /\ user[m] = "idle" /\ control = Nobody /\ control' = m
      /\ user' = [user EXCEPT ![m] = "adding"]
      /\ UNCHANGED <<queue, nTodo, nTotal, nIdle, fAllOk, thr>>
      /\ UNCHANGED <<stopped, verdict, svc, down>>
  BY DEF CreateMaster, pool
<1>2. user \in [Masters -> {"idle", "adding", "waiting", "dropping", "dropped", "ended"}]
  BY DEF IInv, TypeOK
<1>3. PoolKept
  <2>1. thr \in [Threads -> Locals] /\ \A u \in Threads : thr[u].batch # {} => thr[u].pc \in {"work", "lock"}
    BY DEF IInv, TypeOK, Locals
  <2> QED
    BY <1>1, <2>1 DEF PoolKept
<1>4. TypeOK'
  BY <1>1, <1>2, <1>3, PoolKeptSame DEF IInv, TypeOK, PoolTyped
<1>5. Sessions'
  <2>1. ASSUME NEW x \in Masters PROVE MasterInv(x)'
    <3>1. MasterInv(x)
      BY SessionsSplit DEF IInv
    <3>2. CASE x = m
      BY <1>1, <1>2, <3>1, <3>2 DEF MasterInv, InSession
    <3>3. CASE x # m
      BY <1>1, <1>2, <3>1, <3>3, CheckAssumption DEF MasterInv
    <3> QED
      BY <3>2, <3>3
  <2>2. MainInv'
    <3>1. MainInv
      BY SessionsSplit DEF IInv
    <3> QED
      BY <1>1, <1>2, <3>1 DEF MainInv
  <2> QED
    BY <2>1, <2>2, SessionsSplitNext
<1>6. WorkersOut'
  BY <1>1 DEF IInv, WorkersOut
<1> QED
  BY <1>1, <1>3, <1>4, <1>5, <1>6, PoolKeptKeeps

LEMMA WaitKeeps ==
    ASSUME IInv, NEW m \in Masters, NEW early \in BOOLEAN, Wait(m, early)
    PROVE  IInv'
<1> DEFINE to == IF early THEN "dropping" ELSE "waiting"
<1>1. /\ user[m] = "adding"
      /\ user' = [user EXCEPT ![m] = to]
      /\ thr' = [thr EXCEPT ![m] = Entering]
      /\ UNCHANGED <<queue, nTodo, nTotal, nIdle, fAllOk, verdict>>
      /\ UNCHANGED <<stopped, control, svc, down>>
  BY DEF Wait
<1>2. user \in [Masters -> {"idle", "adding", "waiting", "dropping", "dropped", "ended"}]
  BY DEF IInv, TypeOK
<1>3. to \in {"waiting", "dropping"}
  OBVIOUS
<1> HIDE DEF to
<1>4. MasterInv(m)
  BY SessionsSplit DEF IInv
<1>5. thr[m].pc = "out" /\ thr[m].batch = {} /\ m \in Threads
  BY <1>1, <1>4, ThreadKinds DEF IInv, TypeOK, MasterInv
<1>6. Entering \in Locals /\ Entering.batch = {} /\ Entering.pc = "lock"
  BY DEF Entering, Locals, LoopSteps
<1>7. PoolKept /\ thr'[m] = Entering /\ \A u \in Threads \ {m} : thr'[u] = thr[u]
  BY Zenon, <1>1, <1>5, <1>6, OneThreadMoves
<1>8. TypeOK'
  BY <1>1, <1>2, <1>3, <1>7, PoolKeptSame DEF IInv, TypeOK, PoolTyped
<1>9. Sessions'
  <2>1. ASSUME NEW x \in Masters PROVE MasterInv(x)'
    <3>1. MasterInv(x)
      BY SessionsSplit DEF IInv
    <3>2. CASE x = m
      <4>1. user'[m] \in {"waiting", "dropping"} /\ thr'[m].pc = "lock" /\ control' = control
            /\ verdict' = verdict
        BY <1>1, <1>2, <1>3, <1>6, <1>7
      <4> QED
        BY <1>1, <1>4, <1>5, <3>2, <4>1 DEF MasterInv, InSession
    <3>3. CASE x # m
      BY <1>1, <1>2, <1>7, <3>1, <3>3, ThreadKinds DEF MasterInv
    <3> QED
      BY <3>2, <3>3
  <2>2. MainInv'
    <3>1. MainInv
      BY SessionsSplit DEF IInv
    <3>2. thr'[Main] = thr[Main]
      BY <1>7, ThreadKinds
    <3> QED
      BY <1>1, <1>2, <3>1, <3>2 DEF MainInv
  <2> QED
    BY <2>1, <2>2, SessionsSplitNext
<1>10. WorkersOut'
  BY <1>1, <1>7, ThreadKinds DEF IInv, WorkersOut
<1> QED
  BY <1>1, <1>6, <1>7, <1>8, <1>9, <1>10, ThreadKinds, PoolKeptKeeps

\* A master leaves its session: the first case of DestroyMaster, and
\* ReleaseControl.
LEMMA LeaveSessionKeeps ==
    ASSUME IInv, NEW m \in Masters,
           user[m] \in {"waiting", "dropped"}, thr[m].pc = "done",
           thr' = [thr EXCEPT ![m] = Outside],
           user' = [user EXCEPT ![m] = "idle"],
           control' = Nobody,
           verdict' = [verdict EXCEPT ![m] = "none"],
           UNCHANGED <<queue, nTodo, nTotal, nIdle, fAllOk, stopped, svc, down>>
    PROVE  IInv'
<1>1. /\ user \in [Masters -> {"idle", "adding", "waiting", "dropping", "dropped", "ended"}]
      /\ verdict \in [Masters -> {"none", "good", "bad"}]
  BY DEF IInv, TypeOK
<1>2. MasterInv(m)
  BY SessionsSplit DEF IInv
<1>3. control = m /\ verdict[m] # "none"
  BY <1>2 DEF MasterInv, InSession
<1>4. thr[m].batch = {} /\ m \in Threads
  BY ThreadKinds DEF IInv, TypeOK
<1>5. Outside \in Locals /\ Outside.batch = {} /\ Outside.pc = "out"
  BY DEF Outside, Locals, LoopSteps
<1>6. PoolKept /\ thr'[m] = Outside /\ \A u \in Threads \ {m} : thr'[u] = thr[u]
  BY Zenon, <1>4, <1>5, OneThreadMoves
<1>7. TypeOK'
  BY <1>1, <1>6, PoolKeptSame DEF IInv, TypeOK, PoolTyped
<1>8. Sessions'
  <2>1. ASSUME NEW x \in Masters PROVE MasterInv(x)'
    <3>1. MasterInv(x) /\ x # Nobody
      BY SessionsSplit, CheckAssumption DEF IInv
    <3>2. CASE x = m
      <4>1. user'[m] = "idle" /\ thr'[m].pc = "out" /\ verdict'[m] = "none"
        BY <1>1, <1>5, <1>6
      <4> QED
        BY <3>1, <3>2, <4>1 DEF MasterInv, InSession
    <3>3. CASE x # m
      <4>1. user'[x] = user[x] /\ thr'[x] = thr[x] /\ verdict'[x] = verdict[x] /\ control # x
        BY <1>1, <1>3, <1>6, <3>3, ThreadKinds
      <4> QED
        BY <3>1, <4>1 DEF MasterInv
    <3> QED
      BY <3>2, <3>3
  <2>2. MainInv'
    <3>1. MainInv /\ thr'[Main] = thr[Main]
      BY <1>6, SessionsSplit, ThreadKinds DEF IInv
    <3> QED
      BY <1>1, <3>1 DEF MainInv
  <2> QED
    BY <2>1, <2>2, SessionsSplitNext
<1>9. WorkersOut'
  BY <1>6, ThreadKinds DEF IInv, WorkersOut
<1> QED
  BY <1>3, <1>5, <1>6, <1>7, <1>8, <1>9, ThreadKinds, PoolKeptKeeps

LEMMA DestroyKeeps ==
    ASSUME IInv, NEW m \in Masters, DestroyMaster(m) \/ ReleaseControl(m)
    PROVE  IInv'
<1>1. CASE DestroyMaster(m) /\ user[m] = "waiting"
  BY <1>1, LeaveSessionKeeps DEF DestroyMaster
<1>2. CASE ReleaseControl(m)
  <2>1. user[m] = "dropped"
    BY <1>2 DEF ReleaseControl
  <2>2. thr[m].pc = "done"
    BY <2>1 DEF IInv, Sessions
  <2> QED
    BY Zenon, <1>2, <2>1, <2>2, LeaveSessionKeeps DEF ReleaseControl
<1>3. CASE DestroyMaster(m) /\ user[m] = "dropping"
  <2>1. /\ thr[m].pc = "done" /\ user[m] = "dropping"
        /\ stopped' = TRUE /\ thr' = Woken(Blocked(TRUE))
        /\ user' = [user EXCEPT ![m] = "dropped"]
        /\ UNCHANGED <<queue, nTodo, nTotal, nIdle, fAllOk>>
        /\ UNCHANGED <<control, verdict, svc, down>>
    BY <1>3 DEF DestroyMaster, Stop
  <2>2. user \in [Masters -> {"idle", "adding", "waiting", "dropping", "dropped", "ended"}]
    BY DEF IInv, TypeOK
  <2>3. /\ PoolKept
        /\ \A u \in Threads : \/ u \in Blocked(TRUE) /\ thr[u].pc = "wait" /\ thr'[u].pc = "woken"
                              \/ u \notin Blocked(TRUE) /\ thr'[u].pc = thr[u].pc
    BY <2>1, WakeKeeps
  <2>4. TypeOK'
    BY Zenon, <2>1, <2>2, <2>3, PoolKeptSame DEF IInv, TypeOK, PoolTyped
  <2>5. Sessions'
    <3>1. ASSUME NEW x \in Masters PROVE MasterInv(x)'
      <4>1. MasterInv(x)
        BY SessionsSplit DEF IInv
      <4>2. thr'[x].pc # "out" <=> thr[x].pc # "out"
        BY <2>3, ThreadKinds
      <4>3. thr'[x].pc = "done" <=> thr[x].pc = "done"
        BY <2>3, ThreadKinds
      <4> QED
        BY <2>1, <2>2, <4>1, <4>2, <4>3 DEF MasterInv, InSession
    <3>2. MainInv'
      <4>1. MainInv
        BY SessionsSplit DEF IInv
      <4>2. thr'[Main].pc = thr[Main].pc /\ thr'[Main].batch = thr[Main].batch
        BY Zenon, <2>3, <4>1, ThreadKinds DEF MainInv, PoolKept
      <4> QED
        BY Zenon, <2>1, <2>2, <4>1, <4>2 DEF MainInv
    <3> QED
      BY <3>1, <3>2, SessionsSplitNext
  <2>6. WorkersOut'
    BY Zenon, <2>1, <2>3, ThreadKinds DEF IInv, WorkersOut
  <2> QED
    BY <2>1, <2>3, <2>4, <2>5, <2>6, ThreadKinds, PoolKeptKeeps
<1> QED
  BY <1>1, <1>2, <1>3 DEF DestroyMaster

LEMMA EndKeeps ==
    ASSUME IInv, NEW m \in Masters, MasterThreadEnds(m)
    PROVE  IInv'
<1>1. /\ user[m] = "idle"
      /\ user' = [user EXCEPT ![m] = "ended"]
      /\ UNCHANGED <<queue, nTodo, nTotal, nIdle, fAllOk, thr>>
      /\ UNCHANGED <<stopped, control, verdict, svc, down>>
  BY DEF MasterThreadEnds, pool
<1>2. user \in [Masters -> {"idle", "adding", "waiting", "dropping", "dropped", "ended"}]
  BY DEF IInv, TypeOK
<1>3. PoolKept
  <2>1. thr \in [Threads -> Locals] /\ \A u \in Threads : thr[u].batch # {} => thr[u].pc \in {"work", "lock"}
    BY DEF IInv, TypeOK, Locals
  <2> QED
    BY <1>1, <2>1 DEF PoolKept
<1>4. TypeOK'
  BY <1>1, <1>2, <1>3, PoolKeptSame DEF IInv, TypeOK, PoolTyped
<1>5. Sessions'
  <2>1. ASSUME NEW x \in Masters PROVE MasterInv(x)'
    <3>1. MasterInv(x)
      BY SessionsSplit DEF IInv
    <3> QED
      BY <1>1, <1>2, <3>1 DEF MasterInv, InSession
  <2>2. MainInv'
    <3>1. MainInv
      BY SessionsSplit DEF IInv
    <3> QED
      BY <1>1, <1>2, <3>1 DEF MainInv
  <2> QED
    BY <2>1, <2>2, SessionsSplitNext
<1>6. WorkersOut'
  BY <1>1 DEF IInv, WorkersOut
<1> QED
  BY <1>1, <1>3, <1>4, <1>5, <1>6, PoolKeptKeeps

-----------------------------------------------------------------------------
(* The workers and the thread group.                                       *)

SvcState == [running : BOOLEAN, exited : BOOLEAN, stopRequested : BOOLEAN]

DownState == [phase : {"up", "stopping", "joining", "clearing", "down"},
              rest : SUBSET Workers]
             \cup [phase : {"join"}, rest : SUBSET Workers, cur : Workers]

\* A step that moves no master and not Main, and neither starts nor ends the
\* clearing of the group.
GroupStep ==
    /\ PoolKept
    /\ UNCHANGED <<control, user, verdict>>
    /\ stopped' \in BOOLEAN /\ svc' \in [Workers -> SvcState] /\ down' \in DownState
    /\ \A m \in Masters \cup {Main} :
          thr'[m].pc = thr[m].pc \/ (thr[m].pc = "wait" /\ thr'[m].pc = "woken")
    /\ thr[Main].pc # "out" => down'.phase = "clearing"
    /\ down'.phase \in {"clearing", "down"} => \A m \in Masters : user[m] = "ended"
    /\ WorkersOut'

LEMMA GroupStepKeeps ==
    ASSUME IInv, GroupStep
    PROVE  IInv'
<1> USE DEF GroupStep
<1>1. TypeOK'
  BY PoolKeptSame DEF IInv, TypeOK, PoolTyped, SvcState, DownState
<1>2. Sessions'
  <2>1. ASSUME NEW x \in Masters PROVE MasterInv(x)'
    <3>1. MasterInv(x)
      BY SessionsSplit DEF IInv
    <3>2. /\ thr'[x].pc # "out" <=> thr[x].pc # "out"
          /\ thr'[x].pc = "done" <=> thr[x].pc = "done"
      OBVIOUS
    <3> QED
      BY <3>1, <3>2 DEF MasterInv
  <2>2. MainInv'
    <3>1. MainInv
      BY SessionsSplit DEF IInv
    <3>2. thr'[Main].pc = thr[Main].pc /\ thr'[Main].batch = thr[Main].batch
      BY <3>1, ThreadKinds DEF MainInv, PoolKept
    <3> QED
      BY <3>1, <3>2 DEF MainInv
  <2> QED
    BY <2>1, <2>2, SessionsSplitNext
<1>3. \A m \in Masters : thr'[m].pc = "wait" => thr[m].pc = "wait"
  OBVIOUS
<1> QED
  BY <1>1, <1>2, <1>3, PoolKeptKeeps

LEMMA UnchangedPool ==
    ASSUME IInv, UNCHANGED pool
    PROVE  PoolKept /\ thr' = thr
<1>1. thr \in [Threads -> Locals] /\ \A u \in Threads : thr[u].batch # {} => thr[u].pc \in {"work", "lock"}
  BY DEF IInv, TypeOK, Locals
<1> QED
  BY <1>1 DEF PoolKept, pool

LEMMA GroupTyped ==
    ASSUME IInv
    PROVE  /\ stopped \in BOOLEAN /\ svc \in [Workers -> SvcState] /\ down \in DownState
           /\ thr[Main].pc # "out" => down.phase = "clearing"
           /\ down.phase \in {"clearing", "down"} => \A m \in Masters : user[m] = "ended"
           /\ WorkersOut
BY DEF IInv, TypeOK, Sessions, SvcState, DownState

LEMMA RunKeeps ==
    ASSUME IInv, NEW w \in Workers, RunWorker(w)
    PROVE  IInv'
<1>1. /\ ~svc[w].running
      /\ svc' = [svc EXCEPT ![w].running = TRUE]
      /\ thr' = [thr EXCEPT ![w] = Entering]
      /\ UNCHANGED <<queue, nTodo, nTotal, nIdle, fAllOk>>
      /\ UNCHANGED <<stopped, control, user, verdict, down>>
  BY DEF RunWorker
<1>2. svc' \in [Workers -> SvcState] /\ svc'[w].running /\ \A x \in Workers \ {w} : svc'[x] = svc[x]
  BY Zenon, <1>1, GroupTyped DEF SvcState
<1>3. thr[w].pc \in {"out", "done"} /\ thr[w].batch = {} /\ w \in Threads
  <2>1. thr[w].pc \in {"out", "done"} /\ w \in Threads
    BY <1>1, GroupTyped, ThreadKinds DEF WorkersOut
  <2> QED
    BY <2>1 DEF IInv, TypeOK
<1>4. Entering \in Locals /\ Entering.batch = {} /\ Entering.pc = "lock"
  BY DEF Entering, Locals, LoopSteps
<1>5. PoolKept /\ thr'[w] = Entering /\ \A u \in Threads \ {w} : thr'[u] = thr[u]
  BY Zenon, <1>1, <1>3, <1>4, OneThreadMoves
<1>6. \A m \in Masters \cup {Main} : thr'[m].pc = thr[m].pc
  BY <1>5, ThreadKinds
<1>7. WorkersOut'
  BY <1>2, <1>5, GroupTyped, ThreadKinds DEF WorkersOut
<1>18. stopped' \in BOOLEAN
  BY <1>1, GroupTyped, Zenon
<1>19. /\ down' \in DownState /\ (thr[Main].pc # "out" => down'.phase = "clearing")
       /\ down'.phase \in {"clearing", "down"} => \A m \in Masters : user[m] = "ended"
  BY <1>1, GroupTyped
<1>8. GroupStep
  BY <1>1, <1>2, <1>5, <1>6, <1>7, <1>18, <1>19, GroupTyped DEF GroupStep
<1> QED
  BY <1>8, GroupStepKeeps

LEMMA ExitKeeps ==
    ASSUME IInv, NEW w \in Workers, ExitWorker(w)
    PROVE  IInv'
<1>1. /\ thr[w].pc = "done"
      /\ svc' = [svc EXCEPT ![w].running = FALSE, ![w].exited = TRUE]
      /\ UNCHANGED pool
      /\ UNCHANGED <<stopped, control, user, verdict, down>>
  BY DEF ExitWorker
<1>2. svc' \in [Workers -> SvcState] /\ \A x \in Workers \ {w} : svc'[x] = svc[x]
  BY Zenon, <1>1, GroupTyped DEF SvcState
<1>3. PoolKept /\ thr' = thr
  BY <1>1, UnchangedPool
<1>4. WorkersOut'
  BY <1>1, <1>2, <1>3, GroupTyped DEF WorkersOut
<1>15. stopped' \in BOOLEAN
  BY <1>1, GroupTyped, Zenon
<1>16. /\ down' \in DownState /\ (thr[Main].pc # "out" => down'.phase = "clearing")
       /\ down'.phase \in {"clearing", "down"} => \A m \in Masters : user[m] = "ended"
  BY <1>1, GroupTyped
<1>5. GroupStep
  BY <1>1, <1>2, <1>3, <1>4, <1>15, <1>16, GroupTyped DEF GroupStep
<1> QED
  BY <1>5, GroupStepKeeps

\* StopWorker, as one case of StopAll or of WaitForStop.
LEMMA StopWorkerKeeps ==
    ASSUME IInv, NEW w \in Workers, StopWorker(w),
           UNCHANGED <<control, user, verdict>>, down' \in DownState,
           down'.phase \notin {"clearing", "down"}, down.phase # "clearing"
    PROVE  IInv'
<1>1. /\ svc' = [svc EXCEPT ![w].stopRequested = @ \/ svc[w].running]
      /\ stopped' = TRUE
      /\ thr' = Woken(Blocked(FALSE))
      /\ UNCHANGED <<queue, nTodo, nTotal, nIdle, fAllOk>>
  BY DEF StopWorker, Stop
<1>2. svc' \in [Workers -> SvcState] /\ \A x \in Workers : svc'[x].running = svc[x].running
  BY <1>1, GroupTyped DEF SvcState
<1>3. /\ PoolKept
      /\ \A u \in Threads : \/ u \in Blocked(FALSE) /\ thr[u].pc = "wait" /\ thr'[u].pc = "woken"
                            \/ u \notin Blocked(FALSE) /\ thr'[u].pc = thr[u].pc
  BY <1>1, WakeKeeps
<1>4. \A m \in Masters \cup {Main} :
         thr'[m].pc = thr[m].pc \/ (thr[m].pc = "wait" /\ thr'[m].pc = "woken")
  BY <1>3, ThreadKinds
<1>5. WorkersOut'
  BY <1>2, <1>3, GroupTyped, ThreadKinds DEF WorkersOut
<1>16. stopped' \in BOOLEAN
  BY <1>1, GroupTyped, Zenon
<1>17. /\ down' \in DownState /\ (thr[Main].pc # "out" => down'.phase = "clearing")
       /\ down'.phase \in {"clearing", "down"} => \A m \in Masters : user[m] = "ended"
  BY <1>1, GroupTyped
<1>6. GroupStep
  BY Zenon, <1>1, <1>2, <1>3, <1>4, <1>5, <1>16, <1>17, GroupTyped DEF GroupStep
<1> QED
  BY <1>6, GroupStepKeeps

\* A step of Main that leaves the pool and the workers alone.
LEMMA MainStepKeeps ==
    ASSUME IInv, UNCHANGED pool, UNCHANGED <<stopped, control, user, verdict, svc>>,
           down' \in DownState,
           thr[Main].pc # "out" => down'.phase = "clearing",
           down'.phase \in {"clearing", "down"} => \A m \in Masters : user[m] = "ended"
    PROVE  IInv'
<1>1. PoolKept /\ thr' = thr
  BY UnchangedPool
<1>2. WorkersOut'
  BY <1>1, GroupTyped DEF WorkersOut
<1>13. stopped' \in BOOLEAN
  BY <1>1, GroupTyped, Zenon
<1>14. /\ down' \in DownState /\ (thr[Main].pc # "out" => down'.phase = "clearing")
       /\ down'.phase \in {"clearing", "down"} => \A m \in Masters : user[m] = "ended"
  BY <1>1, GroupTyped
<1>3. GroupStep
  BY <1>1, <1>2, <1>13, <1>14, GroupTyped DEF GroupStep
<1> QED
  BY <1>3, GroupStepKeeps

LEMMA StopKeeps ==
    ASSUME IInv, Interrupt \/ StopAll \/ Join
    PROVE  IInv'
<1>1. down \in DownState
  BY GroupTyped
<1>2. CASE Interrupt
  <2>1. down' \in DownState /\ down'.phase = "stopping" /\ thr[Main].pc = "out"
    BY <1>2, GroupTyped DEF Interrupt, DownState
  <2> QED
    BY <1>2, <2>1, MainStepKeeps DEF Interrupt
<1>3. CASE StopAll
  <2>1. down.phase = "stopping" /\ down.rest \in SUBSET Workers
    BY <1>1, <1>3 DEF StopAll, DownState
  <2>2. thr[Main].pc = "out"
    BY <2>1, GroupTyped
  <2>3. ASSUME NEW w \in down.rest, StopWorker(w), down' = [down EXCEPT !.rest = @ \ {w}]
        PROVE  IInv'
    <3>1. down' \in DownState /\ down'.phase = "stopping"
      BY <1>1, <2>1, <2>3 DEF DownState
    <3> QED
      BY <1>3, <2>1, <2>3, <3>1, StopWorkerKeeps DEF StopAll
  <2>4. CASE /\ down' = [phase |-> "joining", rest |-> Workers]
             /\ UNCHANGED pool /\ UNCHANGED <<stopped, svc>>
    <3>1. down' \in DownState /\ down'.phase = "joining"
      BY <2>4 DEF DownState
    <3> QED
      BY <1>3, <2>2, <2>4, <3>1, MainStepKeeps DEF StopAll
  <2> QED
    BY <1>3, <2>3, <2>4 DEF StopAll
<1>4. CASE Join
  <2>1. down.phase = "join" /\ down.rest \in SUBSET Workers
    BY <1>1, <1>4 DEF Join, DownState
  <2>2. down' \in DownState /\ down'.phase = "joining" /\ thr[Main].pc = "out"
    BY <1>4, <2>1, GroupTyped DEF Join, DownState
  <2> QED
    BY <1>4, <2>2, MainStepKeeps DEF Join
<1> QED
  BY <1>2, <1>3, <1>4

LEMMA WaitForStopKeeps ==
    ASSUME IInv, NEW w \in Workers, WaitForStop(w)
    PROVE  IInv'
<1>1. /\ down.phase = "joining" /\ down.rest \in SUBSET Workers
      /\ down' = [phase |-> "join", rest |-> down.rest \ {w}, cur |-> w]
  BY GroupTyped DEF WaitForStop, DownState
<1>2. down' \in DownState /\ down'.phase = "join" /\ thr[Main].pc = "out"
  BY <1>1, GroupTyped DEF DownState
<1>3. CASE StopWorker(w)
  BY <1>1, <1>2, <1>3, StopWorkerKeeps DEF WaitForStop
<1>4. CASE UNCHANGED pool /\ UNCHANGED <<stopped, svc>>
  BY <1>2, <1>4, MainStepKeeps DEF WaitForStop
<1> QED
  BY <1>3, <1>4 DEF WaitForStop

\* Main enters Loop for an object of the group, and leaves it.
LEMMA MainMovesKeeps ==
    ASSUME IInv, down.phase = "clearing", down' \in DownState, down'.phase = "clearing",
           NEW S, S = {} \/ S = Blocked(FALSE),
           NEW loc \in {Entering, Outside},
           thr[Main].pc \in {"out", "done"},
           thr' = [Woken(S) EXCEPT ![Main] = loc],
           stopped' \in BOOLEAN,
           UNCHANGED <<queue, nTodo, nTotal, nIdle, fAllOk, control, user, verdict, svc>>
    PROVE  IInv'
<1>1. loc \in Locals /\ loc.batch = {} /\ loc.pc \in {"out", "lock"}
  <2>1. CASE loc = Entering
    BY <2>1 DEF Entering, Locals, LoopSteps
  <2>2. CASE loc = Outside
    BY <2>2 DEF Outside, Locals, LoopSteps
  <2> QED
    BY <2>1, <2>2
<1>2. /\ thr' \in [Threads -> Locals] /\ thr'[Main] = loc
      /\ \A u \in Threads \ {Main} :
            /\ thr'[u].batch = thr[u].batch
            /\ thr'[u].pc = IF u \in S THEN "woken" ELSE thr[u].pc
  BY SMTT(30), <1>1, ThreadKinds, WokenExcept DEF IInv
<1>3. thr[Main].batch = {} /\ \A u \in Threads : thr[u].batch # {} => thr[u].pc \in {"work", "lock"}
  BY DEF IInv, TypeOK, Sessions
<1>4. \A u \in S : thr[u].pc = "wait" /\ u \in Workers
  BY DEF Blocked, bMaster
<1>5. PoolKept
  <2>1. ASSUME NEW u \in Threads
        PROVE  /\ thr'[u].batch = thr[u].batch
               /\ thr'[u].pc \in {"wait", "woken"} <=> thr[u].pc \in {"wait", "woken"}
               /\ thr'[u].batch # {} => thr'[u].pc \in {"work", "lock"}
               /\ thr'[u].pc = "work" => thr[u].pc = "work"
    <3>1. CASE u = Main
      BY Zenon, <1>1, <1>2, <1>3, <3>1
    <3>2. CASE u # Main
      BY <1>2, <1>3, <1>4, <3>2
    <3> QED
      BY <3>1, <3>2
  <2> QED
    BY <1>2, <2>1 DEF PoolKept
<1>6. \A m \in Masters : thr'[m].pc = thr[m].pc
  BY <1>2, <1>4, ThreadKinds
<1>7. TypeOK'
  BY <1>5, PoolKeptSame DEF IInv, TypeOK, PoolTyped, DownState
<1>8. Sessions'
  <2>1. ASSUME NEW x \in Masters PROVE MasterInv(x)'
    <3>1. MasterInv(x)
      BY SessionsSplit DEF IInv
    <3> QED
      BY <1>6, <3>1 DEF MasterInv
  <2>2. MainInv'
    <3>1. MainInv
      BY SessionsSplit DEF IInv
    <3> QED
      BY <1>1, <1>2, <3>1 DEF MainInv
  <2> QED
    BY SMTT(30), <2>1, <2>2, SessionsSplitNext
<1>9. WorkersOut'
  BY <1>2, <1>4, ThreadKinds DEF IInv, WorkersOut
<1> QED
  BY <1>5, <1>6, <1>7, <1>8, <1>9, PoolKeptKeeps

LEMMA ClearKeeps ==
    ASSUME IInv, ClearGroup
    PROVE  IInv'
<1>1. down \in DownState /\ down.phase # "join"
  BY Zenon, GroupTyped DEF ClearGroup
<1>2. down.rest \in SUBSET Workers
  BY <1>1 DEF DownState
<1>3. thr \in [Threads -> Locals] /\ Woken({}) = thr
  <2>1. thr \in [Threads -> Locals]
    BY DEF IInv, TypeOK, Locals
  <2> QED
    BY <2>1 DEF Woken
<1>4. CASE /\ down.phase = "joining"
           /\ \A m \in Masters : user[m] = "ended"
           /\ down' = [phase |-> "clearing", rest |-> Workers]
           /\ UNCHANGED pool
           /\ UNCHANGED <<stopped, control, user, verdict, svc>>
  <2>1. down' \in DownState /\ down'.phase = "clearing"
    BY <1>4 DEF DownState
  <2> QED
    BY <1>4, <2>1, MainStepKeeps
<1>5. CASE /\ down.phase = "clearing"
           /\ thr[Main].pc = "out"
           /\ thr' = [thr EXCEPT ![Main] = Entering]
           /\ UNCHANGED <<queue, nTodo, nTotal, nIdle, fAllOk>>
           /\ UNCHANGED <<stopped, control, user, verdict, svc, down>>
  <2>1. thr' = [Woken({}) EXCEPT ![Main] = Entering] /\ down' = down
    BY Zenon, <1>3, <1>5
  <2>2. stopped' \in BOOLEAN
    BY <1>5, GroupTyped, Zenon
  <2> QED
    BY <1>1, <1>5, <2>1, <2>2, MainMovesKeeps
<1>6. CASE /\ down.phase = "clearing"
           /\ thr[Main].pc = "done"
           /\ \E w \in down.rest : down' = [down EXCEPT !.rest = @ \ {w}]
           /\ stopped' = TRUE
           /\ thr' = [Woken(Blocked(FALSE)) EXCEPT ![Main] = Outside]
           /\ UNCHANGED <<queue, nTodo, nTotal, nIdle, fAllOk>>
           /\ UNCHANGED <<control, user, verdict, svc>>
  <2>1. down' \in DownState /\ down'.phase = "clearing"
    BY <1>1, <1>2, <1>6 DEF DownState
  <2> QED
    BY Zenon, <1>6, <2>1, MainMovesKeeps
<1>7. CASE /\ down.phase = "clearing"
           /\ thr[Main].pc = "out"
           /\ down' = [down EXCEPT !.phase = "down"]
           /\ UNCHANGED pool
           /\ UNCHANGED <<stopped, control, user, verdict, svc>>
  <2>1. down' \in DownState /\ down'.phase = "down"
    BY <1>1, <1>2, <1>7 DEF DownState
  <2> QED
    BY <1>7, <2>1, GroupTyped, MainStepKeeps
<1> QED
  BY <1>4, <1>5, <1>6, <1>7 DEF ClearGroup

\* Adding different checks, none of which is outstanding, appends them.
LEMMA Appended ==
    ASSUME NEW s \in Seq(Checks), NEW v \in Seq(Checks),
           \A i, j \in DOMAIN s : s[i] = s[j] => i = j,
           \A i, j \in DOMAIN v : v[i] = v[j] => i = j,
           Elems(s) \cap Elems(v) = {}
    PROVE  /\ s \o v \in Seq(Checks)
           /\ Elems(s \o v) = Elems(s) \cup Elems(v)
           /\ \A i, j \in DOMAIN (s \o v) : (s \o v)[i] = (s \o v)[j] => i = j
<1> DEFINE r == s \o v
<1>1. /\ r \in Seq(Checks) /\ Len(r) = Len(s) + Len(v) /\ Len(s) \in Nat /\ Len(v) \in Nat
      /\ DOMAIN r = 1 .. Len(s) + Len(v) /\ DOMAIN s = 1 .. Len(s) /\ DOMAIN v = 1 .. Len(v)
  OBVIOUS
<1>2. \A i \in 1 .. Len(s) : r[i] = s[i]
  OBVIOUS
<1>3. \A i \in Len(s) + 1 .. Len(s) + Len(v) : r[i] = v[i - Len(s)]
  OBVIOUS
<1> HIDE DEF r
<1>4. \A i \in DOMAIN r : \/ i \in DOMAIN s /\ r[i] = s[i]
                          \/ i - Len(s) \in DOMAIN v /\ r[i] = v[i - Len(s)]
  BY <1>1, <1>2, <1>3
<1>5. Elems(r) \subseteq Elems(s) \cup Elems(v)
  BY <1>4 DEF Elems
<1>6. Elems(s) \subseteq Elems(r)
  BY <1>1, <1>2 DEF Elems
<1>7. Elems(v) \subseteq Elems(r)
  <2> SUFFICES ASSUME NEW i \in DOMAIN v PROVE v[i] \in Elems(r)
    BY DEF Elems
  <2>1. i + Len(s) \in DOMAIN r /\ (i + Len(s)) - Len(s) = i
    BY <1>1
  <2>2. r[i + Len(s)] = v[i]
    BY SMTT(30), <1>1, <1>3, <2>1
  <2> QED
    BY <2>1, <2>2 DEF Elems
<1>8. \A i, j \in DOMAIN r : r[i] = r[j] => i = j
  <2> SUFFICES ASSUME NEW i \in DOMAIN r, NEW j \in DOMAIN r, r[i] = r[j] PROVE i = j
    OBVIOUS
  <2>1. CASE i \in DOMAIN s /\ r[i] = s[i] /\ j \in DOMAIN s /\ r[j] = s[j]
    BY <2>1
  <2>2. CASE /\ i - Len(s) \in DOMAIN v /\ r[i] = v[i - Len(s)]
             /\ j - Len(s) \in DOMAIN v /\ r[j] = v[j - Len(s)]
    <3>1. i - Len(s) = j - Len(s)
      BY <2>2
    <3> QED
      BY <1>1, <3>1
  <2>3. CASE /\ i \in DOMAIN s /\ r[i] = s[i]
             /\ j - Len(s) \in DOMAIN v /\ r[j] = v[j - Len(s)]
    BY Zenon, <2>3 DEF Elems
  <2>4. CASE /\ j \in DOMAIN s /\ r[j] = s[j]
             /\ i - Len(s) \in DOMAIN v /\ r[i] = v[i - Len(s)]
    BY Zenon, <2>4 DEF Elems
  <2> QED
    BY <1>4, <2>1, <2>2, <2>3, <2>4
<1> QED
  BY <1>1, <1>5, <1>6, <1>7, <1>8 DEF r

\* While the owner adds, no master is in Loop.
LEMMA OnlyTheOwnerAdds ==
    ASSUME IInv, NEW m \in Masters, user[m] = "adding"
    PROVE  /\ control = m /\ verdict[m] = "none"
           /\ \A x \in Masters : thr[x].pc = "out"
<1>1. \A x \in Masters : MasterInv(x)
  BY SessionsSplit DEF IInv
<1>2. control = m /\ thr[m].pc = "out"
  BY <1>1 DEF MasterInv, InSession
<1>3. \A x \in Masters \ {m} : thr[x].pc = "out"
  BY <1>1, <1>2 DEF MasterInv, InSession
<1> QED
  BY <1>1, <1>2, <1>3 DEF MasterInv

LEMMA AddKeeps ==
    ASSUME IInv, NEW m \in Masters, NEW vChecks \in Txs, Add(m, vChecks)
    PROVE  IInv'
<1>1. /\ user[m] = "adding" /\ Elems(vChecks) \cap Outstanding = {}
      /\ queue' = queue \o vChecks /\ nTodo' = nTodo + Len(vChecks)
      /\ UNCHANGED <<nTotal, nIdle, fAllOk, verdict, stopped, control, user, svc, down>>
  BY DEF Add, outsidePool
<1>2. PICK S : S \subseteq Blocked(FALSE) /\ thr' = Woken(S)
  BY Zenon DEF Add, NotifyOne
<1>3. /\ vChecks \in Seq(Checks) /\ \A i, j \in DOMAIN vChecks : vChecks[i] = vChecks[j] => i = j
  BY CheckAssumption
<1>4. TypeOK /\ OnePlace /\ CountersExact /\ Sessions /\ WorkersOut
  BY DEF IInv
<1>5. /\ Elems(vChecks) \cap Elems(queue) = {}
      /\ \A u \in Threads : thr[u].batch \cap Elems(vChecks) = {}
  BY <1>1 DEF Outstanding
<1>6. /\ queue' \in Seq(Checks)
      /\ Elems(queue') = Elems(queue) \cup Elems(vChecks)
      /\ \A i, j \in DOMAIN queue' : queue'[i] = queue'[j] => i = j
  BY ZenonT(30), <1>1, <1>3, <1>4, <1>5, Appended DEF TypeOK, OnePlace
<1>7. /\ thr' \in [Threads -> Locals]
      /\ \A u \in Threads :
            /\ thr'[u].batch = thr[u].batch
            /\ thr'[u].pc = IF u \in S THEN "woken" ELSE thr[u].pc
  BY <1>2, <1>4, WokenFields
<1>8. \A u \in S : thr[u].pc = "wait" /\ u \in Threads /\ u \in Workers
  BY <1>2 DEF Blocked, bMaster
<1>9. OnePlace'
  <2>1. \A u \in Threads : thr'[u].batch \cap Elems(queue') = {}
    BY <1>4, <1>5, <1>6, <1>7 DEF OnePlace
  <2>2. \A t, u \in Threads : t # u => thr'[t].batch \cap thr'[u].batch = {}
    BY <1>4, <1>7 DEF OnePlace
  <2> QED
    BY <1>6, <2>1, <2>2 DEF OnePlace
<1>10. Outstanding' = Outstanding \cup Elems(vChecks)
  <2>1. {thr'[u].batch : u \in Threads} = {thr[u].batch : u \in Threads}
    BY <1>7
  <2>2. Elems(queue)' = Elems(queue')
    BY DEF Elems
  <2> QED
    BY <1>6, <2>1, <2>2 DEF Outstanding
<1>11. CountersExact'
  <2>1. IsFiniteSet(Elems(vChecks)) /\ Cardinality(Elems(vChecks)) = Len(vChecks)
    BY <1>3, ElemsCount
  <2>2. IsFiniteSet(Outstanding)
    BY <1>4, Finite
  <2>3. Cardinality(Outstanding \cup Elems(vChecks))
          = Cardinality(Outstanding) + Cardinality(Elems(vChecks))
    <3>1. Outstanding \cap Elems(vChecks) = {}
      BY <1>1
    <3>2. Cardinality(Outstanding \cap Elems(vChecks)) = 0
      BY <3>1, FS_EmptySet
    <3>3. Cardinality(Outstanding) \in Nat /\ Cardinality(Elems(vChecks)) \in Nat
      BY SMTT(30), <2>1, <2>2, FS_CardinalityType
    <3> QED
      BY <2>1, <2>2, <3>2, <3>3, FS_Union
  <2>4. nTodo' = Cardinality(Outstanding')
    BY <1>1, <1>4, <1>10, <2>1, <2>3 DEF CountersExact
  <2>5. \A u \in Threads : /\ InLoop(u)' <=> InLoop(u)
                           /\ thr'[u].pc \in {"wait", "woken"} <=> thr[u].pc \in {"wait", "woken"}
    BY <1>7, <1>8 DEF InLoop
  <2>6. /\ {u \in Threads : InLoop(u)}' = {u \in Threads : InLoop(u)}
        /\ {u \in Threads : thr[u].pc \in {"wait", "woken"}}'
             = {u \in Threads : thr[u].pc \in {"wait", "woken"}}
    BY SMTT(30), <2>5
  <2> QED
    BY Zenon, <1>1, <1>4, <2>4, <2>6 DEF CountersExact
<1>12. \A u \in Threads : /\ thr'[u].pc = "work" => thr'[u].batch # {}
                          /\ thr'[u].batch # {} => thr'[u].pc \in {"work", "lock"}
  BY <1>4, <1>7, <1>8 DEF TypeOK
<1>13. nTodo' \in Nat
  BY SMTT(30), <1>1, <1>3, <1>4 DEF TypeOK
<1>14. TypeOK'
  BY SMTT(30), <1>1, <1>4, <1>6, <1>7, <1>12, <1>13 DEF TypeOK, Locals
<1>15. \A x \in Masters : thr'[x].pc = "out" /\ thr[x].pc = "out"
  BY <1>1, <1>7, <1>8, OnlyTheOwnerAdds, ThreadKinds
<1>16. Sessions'
  <2>1. ASSUME NEW x \in Masters PROVE MasterInv(x)'
    BY SMTT(30), <1>1, <1>4, <1>15, SessionsSplit DEF MasterInv
  <2>2. MainInv'
    BY <1>1, <1>4, <1>7, <1>8, SessionsSplit, ThreadKinds DEF MainInv
  <2> QED
    BY <2>1, <2>2, SessionsSplitNext
<1>17. Quiet'
  <2>1. control' = m /\ verdict'[m] = "none" /\ m # Nobody
    BY <1>1, OnlyTheOwnerAdds, CheckAssumption
  <2> QED
    BY SMTT(30), <2>1 DEF Quiet
<1>18. MasterWaits' /\ MasterNeedsWork'
  BY SMTT(30), <1>15 DEF MasterWaits, MasterNeedsWork
<1>19. WorkersOut'
  BY Zenon, <1>1, <1>4, <1>7, <1>8, ThreadKinds DEF WorkersOut
<1> QED
  BY <1>9, <1>11, <1>14, <1>16, <1>17, <1>18, <1>19 DEF IInv

-----------------------------------------------------------------------------
(* The inductive invariant, and what follows from it.                      *)

LEMMA InitIInv == Init => IInv
<1> SUFFICES ASSUME Init PROVE IInv
  OBVIOUS
<1>1. /\ Elems(queue) = {} /\ \A t \in Threads : thr[t] = Outside
  BY DEF Init, Elems
<1>2. TypeOK
  <2>1. thr \in [Threads -> [pc : LoopSteps, batch : SUBSET Checks, fOk : BOOLEAN]]
    BY DEF Init, Outside, LoopSteps
  <2>2. svc \in [Workers -> [running : BOOLEAN, exited : BOOLEAN, stopRequested : BOOLEAN]]
    BY DEF Init
  <2>3. fAllOk \in BOOLEAN /\ stopped \in BOOLEAN
    BY Zenon DEF Init
  <2> QED
    BY SMTT(30), <1>1, <2>1, <2>2, <2>3 DEF Init, TypeOK, Outside
<1>3. OnePlace
  BY <1>1 DEF Init, OnePlace, Outside
<1>4. Outstanding = {}
  BY <1>1 DEF Outstanding, Outside
<1>5. CountersExact
  <2>1. {t \in Threads : InLoop(t)} = {} /\ {t \in Threads : thr[t].pc \in {"wait", "woken"}} = {}
    BY SMTT(30), <1>1 DEF InLoop, Outside
  <2> QED
    BY Zenon, <1>4, <2>1, FS_EmptySet DEF Init, CountersExact
<1>6. Sessions
  BY <1>1, ThreadKinds, CheckAssumption DEF Init, Sessions, Outside, InSession
<1>7. Quiet
  BY <1>4, Zenon DEF Init, Quiet
<1>8. MasterWaits /\ MasterNeedsWork /\ WorkersOut
  BY <1>1, ThreadKinds DEF MasterWaits, MasterNeedsWork, WorkersOut, Outside
<1> QED
  BY <1>2, <1>3, <1>5, <1>6, <1>7, <1>8 DEF IInv

LEMMA StutterKeeps ==
    ASSUME IInv, UNCHANGED vars
    PROVE  IInv'
<1>1. UNCHANGED <<queue, nTodo, nTotal, nIdle, fAllOk, thr, stopped, control, user, verdict, svc, down>>
  BY DEF vars, pool
<1>2. PoolKept
  BY SMTT(30), <1>1, UnchangedPool DEF pool
<1>3. TypeOK'
  BY <1>1 DEF IInv, TypeOK
<1>4. Sessions'
  BY <1>1 DEF IInv, Sessions
<1>5. WorkersOut'
  BY <1>1 DEF IInv, WorkersOut
<1> QED
  BY <1>1, <1>2, <1>3, <1>4, <1>5, PoolKeptKeeps

LEMMA NextIInv == IInv /\ [Next]_vars => IInv'
<1> SUFFICES ASSUME IInv, [Next]_vars PROVE IInv'
  OBVIOUS
<1>1. ASSUME NEW t \in Threads, LoopStep(t) \/ SpuriousWakeup(t) PROVE IInv'
  BY <1>1, FinishSection, EnterSection, ResumeSection, SectionKeeps, WorkKeeps, SpuriousKeeps
     DEF LoopStep
<1>2. ASSUME NEW m \in Masters, CreateMaster(m) PROVE IInv'
  BY <1>2, CreateKeeps
<1>3. ASSUME NEW m \in Masters, NEW vChecks \in Txs, Add(m, vChecks) PROVE IInv'
  BY <1>3, AddKeeps
<1>4. ASSUME NEW m \in Masters, NEW early \in BOOLEAN, Wait(m, early) PROVE IInv'
  BY <1>4, WaitKeeps
<1>5. ASSUME NEW m \in Masters, DestroyMaster(m) \/ ReleaseControl(m) PROVE IInv'
  BY <1>5, DestroyKeeps
<1>6. ASSUME NEW m \in Masters, MasterThreadEnds(m) PROVE IInv'
  BY <1>6, EndKeeps
<1>7. ASSUME NEW w \in Workers, RunWorker(w) \/ ExitWorker(w) \/ WaitForStop(w) PROVE IInv'
  BY <1>7, RunKeeps, ExitKeeps, WaitForStopKeeps
<1>8. CASE Interrupt \/ StopAll \/ Join
  BY <1>8, StopKeeps
<1>9. CASE ClearGroup
  BY <1>9, ClearKeeps
<1>10. CASE UNCHANGED vars
  BY <1>10, StutterKeeps
<1> QED
  BY <1>1, <1>2, <1>3, <1>4, <1>5, <1>6, <1>7, <1>8, <1>9, <1>10 DEF Next

\* The invariant holds throughout, for any number of threads and checks.
THEOREM Invariant == Spec => []IInv
<1> QED
  BY InitIInv, NextIInv, PTL DEF Spec

\* Type correctness of the check queue: in particular only a thread that
\* runs a batch, or is about to report it, holds one.
THEOREM TypeCorrect == Spec => []TypeOK
<1>1. IInv => TypeOK
  BY DEF IInv
<1> QED
  BY <1>1, Invariant, PTL

\* The counters of CCheckQueue agree with what the threads do.
THEOREM CountersAreExact == Spec => []CountersExact
<1>1. IInv => CountersExact
  BY DEF IInv
<1> QED
  BY <1>1, Invariant, PTL

\* A blocked master always has a worker that will notify it: no wakeup is
\* lost, although m_condMaster is signalled by one thread, once.
THEOREM WakeupNeverLost == Spec => []NoLostWakeup
<1>1. IInv => NoLostWakeup
  <2> SUFFICES ASSUME IInv, NEW m \in Masters, thr[m].pc = "wait"
               PROVE  queue = <<>> /\ \E w \in Workers : thr[w].batch # {}
    BY DEF NoLostWakeup
  <2>1. queue = <<>> /\ nTodo # 0
    BY DEF IInv, MasterWaits, MasterNeedsWork
  <2>2. Elems(queue) = {}
    BY <2>1 DEF Elems
  <2>3. Outstanding # {}
    BY Zenon, <2>1, FS_EmptySet DEF IInv, CountersExact
  <2>4. PICK t \in Threads : thr[t].batch # {}
    BY <2>2, <2>3 DEF Outstanding
  <2>5. thr[t].pc \in {"work", "lock"}
    BY <2>4 DEF IInv, TypeOK
  <2>6. m \in Threads /\ bMaster(m)
    BY ThreadKinds DEF bMaster
  <2>7. t \notin Masters
    <3> SUFFICES ASSUME t \in Masters PROVE FALSE
      OBVIOUS
    <3>1. m \in Blocked(TRUE)
      BY <2>6 DEF Blocked
    <3>2. t = m
      BY <2>5, <3>1, OneMaster
    <3> QED
      BY <2>5, <3>2
  <2>8. t # Main
    BY <2>4 DEF IInv, Sessions
  <2> QED
    BY <2>1, <2>4, <2>7, <2>8 DEF Threads
<1> QED
  BY <1>1, Invariant, PTL

=============================================================================
