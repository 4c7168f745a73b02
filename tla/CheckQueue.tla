----------------------------- MODULE CheckQueue -----------------------------
(***************************************************************************)
(* The queue of script checks (checkqueue.h), its worker threads as        *)
(* members of the node's thread group (utils/svc_thread.h) and its users:  *)
(* ConnectBlock, which is a master for the checks of one block, and        *)
(* Shutdown, which stops and joins the group.                              *)
(*                                                                         *)
(* An action is what a thread does in one critical section of the queue's  *)
(* mutex, or between two of them.  A batch is the set of its checks, which *)
(* are run in one step, since they touch nothing but the batch.            *)
(***************************************************************************)
EXTENDS Integers, Sequences, FiniteSets

CONSTANTS Checks,      \* the checks a block may need
          Bad,         \* the checks whose operator() returns false
          Txs,         \* the checks of each transaction, in the order of its inputs
          Workers,     \* the worker threads
          Masters,     \* the threads that may call ConnectBlock
          Main,        \* the thread that runs Shutdown
          Nobody,      \* holds ControlMutex when no master does
          BatchSize    \* m_nBatchSize

ASSUME CheckAssumption ==
    /\ IsFiniteSet(Checks)
    /\ Bad \subseteq Checks
    /\ Txs \subseteq Seq(Checks)
    /\ \A s \in Txs : \A i, j \in DOMAIN s : s[i] = s[j] => i = j
    /\ IsFiniteSet(Workers)
    /\ IsFiniteSet(Masters)
    /\ Workers \cap Masters = {}
    /\ Main \notin Workers \cup Masters
    /\ Nobody \notin Masters
    /\ BatchSize \in Nat \ {0}

VARIABLES queue,       \* m_queue
          nTodo,       \* m_nTodo
          nTotal,      \* m_nTotal
          nIdle,       \* m_nIdle
          fAllOk,      \* fAllOk
          stopped,     \* m_bStopRequested of the queue
          thr,         \* the locals of Loop in each thread
          control,     \* the holder of ControlMutex
          user,        \* where each master is in ConnectBlock
          verdict,     \* what Wait() returned for the block of each master
          svc,         \* the CServiceThread part of each worker
          down         \* where Main is in Shutdown

pool == <<queue, nTodo, nTotal, nIdle, fAllOk, thr>>
vars == <<queue, nTodo, nTotal, nIdle, fAllOk, stopped, thr, control, user,
          verdict, svc, down>>

Threads == Workers \cup Masters \cup {Main}

\* The parameter bMaster of Loop.
bMaster(t) == t \notin Workers

\* out: not in Loop; lock: about to lock the mutex at the top of the loop;
\* wait: blocked on its condition variable; woken: notified, about to lock
\* again; work: runs its batch; done: has returned from Loop.
LoopSteps == {"out", "lock", "wait", "woken", "work", "done"}

\* Counted in m_nTotal: past the first critical section of Loop.
InLoop(t) == \/ thr[t].pc \in {"wait", "woken", "work"}
             \/ thr[t].pc = "lock" /\ thr[t].batch # {}

Outside == [pc |-> "out", batch |-> {}, fOk |-> TRUE]

Entering == [pc |-> "lock", batch |-> {}, fOk |-> TRUE]

Elems(s) == {s[i] : i \in DOMAIN s}

\* The checks that are queued or in the batch of a thread.
Outstanding == Elems(queue) \cup UNION {thr[t].batch : t \in Threads}

Init ==
    /\ queue = <<>>
    /\ nTodo = 0
    /\ nTotal = 0
    /\ nIdle = 0
    /\ fAllOk = TRUE
    /\ stopped = FALSE
    /\ thr = [t \in Threads |-> Outside]
    /\ control = Nobody
    /\ user = [m \in Masters |-> "idle"]
    /\ verdict = [m \in Masters |-> "none"]
    /\ svc = [w \in Workers |-> [running |-> FALSE, exited |-> FALSE,
                                 stopRequested |-> FALSE]]
    /\ down = [phase |-> "up", rest |-> {}]

-----------------------------------------------------------------------------
(* Loop.                                                                   *)

\* The threads blocked on m_condMaster, or on m_condWorker.
Blocked(master) == {t \in Threads : bMaster(t) = master /\ thr[t].pc = "wait"}

\* The threads a notify_one may wake.
NotifyOne(master) ==
    IF Blocked(master) = {} THEN {{}} ELSE {{t} : t \in Blocked(master)}

\* The locals of every thread once the threads of S have been notified.
Woken(S) ==
    [t \in Threads |-> IF t \in S THEN [thr[t] EXCEPT !.pc = "woken"]
                                  ELSE thr[t]]

\* How many checks to take, when idle threads wait.
BatchCount(total, idle) ==
    LET share == Len(queue) \div (total + idle + 1)
        capped == IF share < BatchSize THEN share ELSE BatchSize
    IN  IF capped > 1 THEN capped ELSE 1

\* The test of line 152.
MayLeave(t, todo) == (bMaster(t) \/ stopped) /\ todo = 0

\* Mutant: the result is not reset for the next block.
LeaveUnreset(t, todo, ok, total, idle, S) ==
    /\ queue = <<>>
    /\ MayLeave(t, todo)
    /\ nTotal' = total - 1
    /\ fAllOk' = ok
    /\ nIdle' = idle
    /\ nTodo' = todo
    /\ thr' = [Woken(S) EXCEPT ![t] = [pc |-> "done", batch |-> {}, fOk |-> ok]]
    /\ UNCHANGED queue

\* The queue is empty and nothing is left to do: return from Loop.
Leave(t, todo, ok, total, idle, S) ==
    /\ queue = <<>>
    /\ MayLeave(t, todo)
    /\ nTotal' = total - 1
    /\ fAllOk' = (bMaster(t) \/ ok)
    /\ nIdle' = idle
    /\ nTodo' = todo
    /\ thr' = [Woken(S) EXCEPT ![t] = [pc |-> "done", batch |-> {}, fOk |-> ok]]
    /\ UNCHANGED queue

\* Mutant: a thread that waits keeps its finished batch.
BlockKeepsBatch(t, todo, ok, total, idle, S) ==
    /\ queue = <<>>
    /\ ~MayLeave(t, todo)
    /\ nIdle' = idle + 1
    /\ thr' = [Woken(S) EXCEPT ![t].pc = "wait"]
    /\ nTotal' = total
    /\ fAllOk' = ok
    /\ nTodo' = todo
    /\ UNCHANGED queue

\* The queue is empty: wait on the condition variable.  fOk is assigned
\* again before it is read.
Block(t, todo, ok, total, idle, S) ==
    /\ queue = <<>>
    /\ ~MayLeave(t, todo)
    /\ nIdle' = idle + 1
    /\ thr' = [Woken(S) EXCEPT ![t] = [pc |-> "wait", batch |-> {},
                                       fOk |-> TRUE]]
    /\ nTotal' = total
    /\ fAllOk' = ok
    /\ nTodo' = todo
    /\ UNCHANGED queue

\* Take a batch from the end of the queue.
Take(t, todo, ok, total, idle, S) ==
    /\ queue # <<>>
    /\ LET kept == Len(queue) - BatchCount(total, idle)
       IN  /\ queue' = SubSeq(queue, 1, kept)
           /\ thr' = [Woken(S) EXCEPT ![t] =
                         [pc |-> "work", fOk |-> ok,
                          batch |-> {queue[i] : i \in kept + 1 .. Len(queue)}]]
    /\ nTotal' = total
    /\ nIdle' = idle
    /\ fAllOk' = ok
    /\ nTodo' = todo

\* From line 150 to the unlock, with the counters as they are on line 149.
Proceed(t, todo, ok, total, idle, S) ==
    \/ Leave(t, todo, ok, total, idle, S)
    \/ Block(t, todo, ok, total, idle, S)
    \/ Take(t, todo, ok, total, idle, S)

outsidePool == <<stopped, control, user, svc, down>>

\* What Wait() tells its caller, once t has left Loop.
Told(t) ==
    verdict' = IF t \in Masters /\ thr'[t].pc = "done"
               THEN [verdict EXCEPT ![t] = IF thr'[t].fOk THEN "good" ELSE "bad"]
               ELSE verdict

\* Mutant: whoever finishes the last check does not tell the master.
FinishBatchSilently(t) ==
    /\ thr[t].pc = "lock"
    /\ thr[t].batch # {}
    /\ Proceed(t, nTodo - Cardinality(thr[t].batch), fAllOk /\ thr[t].fOk,
               nTotal, nIdle, {})
    /\ Told(t)
    /\ UNCHANGED outsidePool

\* The critical section that follows a batch.
FinishBatch(t) ==
    LET todo == nTodo - Cardinality(thr[t].batch)
    IN  /\ thr[t].pc = "lock"
        /\ thr[t].batch # {}
        /\ \E S \in IF todo = 0 /\ ~bMaster(t) THEN NotifyOne(TRUE) ELSE {{}} :
              Proceed(t, todo, fAllOk /\ thr[t].fOk, nTotal, nIdle, S)
        /\ Told(t)
        /\ UNCHANGED outsidePool

\* The first critical section of Loop.
Enter(t) ==
    /\ thr[t].pc = "lock"
    /\ thr[t].batch = {}
    /\ Proceed(t, nTodo, fAllOk, nTotal + 1, nIdle, {})
    /\ Told(t)
    /\ UNCHANGED outsidePool

\* Mutant: a thread back from cond.wait is still counted as idle.
ResumeStaysIdle(t) ==
    /\ thr[t].pc = "woken"
    /\ Proceed(t, nTodo, fAllOk, nTotal, nIdle, {})
    /\ Told(t)
    /\ UNCHANGED outsidePool

\* Back from cond.wait.
Resume(t) ==
    /\ thr[t].pc = "woken"
    /\ Proceed(t, nTodo, fAllOk, nTotal, nIdle - 1, {})
    /\ Told(t)
    /\ UNCHANGED outsidePool

\* Run the batch; after the first failure the other checks are skipped.
Work(t) ==
    /\ thr[t].pc = "work"
    /\ thr' = [thr EXCEPT ![t] =
                   [pc |-> "lock", batch |-> thr[t].batch,
                    fOk |-> thr[t].fOk /\ thr[t].batch \cap Bad = {}]]
    /\ UNCHANGED <<queue, nTodo, nTotal, nIdle, fAllOk, verdict>>
    /\ UNCHANGED outsidePool

\* cond.wait may return without a notification.
SpuriousWakeup(t) ==
    /\ thr[t].pc = "wait"
    /\ thr' = Woken({t})
    /\ UNCHANGED <<queue, nTodo, nTotal, nIdle, fAllOk, verdict>>
    /\ UNCHANGED outsidePool

\* CCheckQueue::stop.
Stop(master) ==
    /\ stopped' = TRUE
    /\ thr' = Woken(Blocked(master))
    /\ UNCHANGED <<queue, nTodo, nTotal, nIdle, fAllOk>>

-----------------------------------------------------------------------------
(* A master: the life of a CCheckQueueWorkerThread inside ConnectBlock.    *)

\* The constructor, which locks ControlMutex.
CreateMaster(m) ==
    /\ user[m] = "idle"
    /\ control = Nobody
    /\ control' = m
    /\ user' = [user EXCEPT ![m] = "adding"]
    /\ UNCHANGED pool
    /\ UNCHANGED <<stopped, verdict, svc, down>>

\* Add, for the inputs of one transaction.
Add(m, vChecks) ==
    /\ user[m] = "adding"
    /\ Elems(vChecks) \cap Outstanding = {}
    /\ queue' = queue \o vChecks
    /\ nTodo' = nTodo + Len(vChecks)
    /\ \E S \in CASE Len(vChecks) = 0 -> {{}}
                  [] Len(vChecks) = 1 -> NotifyOne(FALSE)
                  [] OTHER            -> {Blocked(FALSE)} :
          thr' = Woken(S)
    /\ UNCHANGED <<nTotal, nIdle, fAllOk, verdict>>
    /\ UNCHANGED outsidePool

\* Wait(), called when the block is complete, or else by the destructor on
\* an early return of ConnectBlock.
Wait(m, early) ==
    /\ user[m] = "adding"
    /\ user' = [user EXCEPT ![m] = IF early THEN "dropping" ELSE "waiting"]
    /\ thr' = [thr EXCEPT ![m] = Entering]
    /\ UNCHANGED <<queue, nTodo, nTotal, nIdle, fAllOk, verdict>>
    /\ UNCHANGED <<stopped, control, svc, down>>

\* The destructor after Wait() has returned: the mutex is released; after
\* an early return the queue is stopped first.
DestroyMaster(m) ==
    /\ thr[m].pc = "done"
    /\ \/ /\ user[m] = "waiting"
          /\ thr' = [thr EXCEPT ![m] = Outside]
          /\ user' = [user EXCEPT ![m] = "idle"]
          /\ control' = Nobody
          /\ verdict' = [verdict EXCEPT ![m] = "none"]
          /\ UNCHANGED <<queue, nTodo, nTotal, nIdle, fAllOk, stopped>>
       \/ /\ user[m] = "dropping"
          /\ Stop(TRUE)
          /\ user' = [user EXCEPT ![m] = "dropped"]
          /\ UNCHANGED <<control, verdict>>
    /\ UNCHANGED <<svc, down>>

\* Mutant: ControlMutex stays locked after an early return.
KeepControl(m) ==
    /\ user[m] = "dropped"
    /\ UNCHANGED vars

\* ... and the mutex is released after the stop.
ReleaseControl(m) ==
    /\ user[m] = "dropped"
    /\ thr' = [thr EXCEPT ![m] = Outside]
    /\ user' = [user EXCEPT ![m] = "idle"]
    /\ control' = Nobody
    /\ verdict' = [verdict EXCEPT ![m] = "none"]
    /\ UNCHANGED <<queue, nTodo, nTotal, nIdle, fAllOk, stopped, svc, down>>

\* The thread itself ends; it is joined with the workers.
MasterThreadEnds(m) ==
    /\ user[m] = "idle"
    /\ down.phase # "up"
    /\ user' = [user EXCEPT ![m] = "ended"]
    /\ UNCHANGED pool
    /\ UNCHANGED <<stopped, control, verdict, svc, down>>

-----------------------------------------------------------------------------
(* The worker threads and the thread group.                                *)

\* run(), until it calls execute() and so Loop(false).
RunWorker(w) ==
    /\ ~svc[w].running /\ ~svc[w].exited
    /\ svc' = [svc EXCEPT ![w].running = TRUE]
    /\ thr' = [thr EXCEPT ![w] = Entering]
    /\ UNCHANGED <<queue, nTodo, nTotal, nIdle, fAllOk>>
    /\ UNCHANGED <<stopped, control, user, verdict, down>>

\* execute() has returned: the end of run().
ExitWorker(w) ==
    /\ svc[w].running
    /\ thr[w].pc = "done"
    /\ svc' = [svc EXCEPT ![w].running = FALSE, ![w].exited = TRUE]
    /\ UNCHANGED pool
    /\ UNCHANGED <<stopped, control, user, verdict, down>>

\* CCheckQueueWorkerThread::stop on a worker object.
StopWorker(w) ==
    /\ svc' = [svc EXCEPT ![w].stopRequested = @ \/ svc[w].running]
    /\ Stop(FALSE)

\* Interrupt is called.
Interrupt ==
    /\ down.phase = "up"
    /\ down' = [phase |-> "stopping", rest |-> Workers]
    /\ UNCHANGED pool
    /\ UNCHANGED <<stopped, control, user, verdict, svc>>

\* stop_all visits the objects one after the other.
StopAll ==
    /\ down.phase = "stopping"
    /\ \/ \E w \in down.rest :
             /\ StopWorker(w)
             /\ down' = [down EXCEPT !.rest = @ \ {w}]
       \/ /\ down.rest = {}
          /\ down' = [phase |-> "joining", rest |-> Workers]
          /\ UNCHANGED pool
          /\ UNCHANGED <<stopped, svc>>
    /\ UNCHANGED <<control, user, verdict>>

\* waitForStop on the next object of join_all: a worker not told to stop,
\* because it was not running when stop_all passed, is told now.
WaitForStop(w) ==
    /\ down.phase = "joining"
    /\ w \in down.rest
    /\ down' = [phase |-> "join", rest |-> down.rest \ {w}, cur |-> w]
    /\ \/ ~svc[w].stopRequested /\ StopWorker(w)
       \/ /\ svc[w].stopRequested
          /\ UNCHANGED pool
          /\ UNCHANGED <<stopped, svc>>
    /\ UNCHANGED <<control, user, verdict>>

\* m_Thread.join() returns.
Join ==
    /\ down.phase = "join"
    /\ svc[down.cur].exited
    /\ down' = [phase |-> "joining", rest |-> down.rest]
    /\ UNCHANGED pool
    /\ UNCHANGED <<stopped, control, user, verdict, svc>>

\* Every thread is joined: m_vThreads.clear() destroys the worker objects.
\* Main runs Wait() for each, and then the object's stop().
ClearGroup ==
    \/ /\ down.phase = "joining"
       /\ down.rest = {}
       /\ \A m \in Masters : user[m] = "ended"
       /\ down' = [phase |-> "clearing", rest |-> Workers]
       /\ UNCHANGED pool
       /\ UNCHANGED <<stopped, control, user, verdict, svc>>
    \/ /\ down.phase = "clearing"
       /\ down.rest # {}
       /\ thr[Main].pc = "out"
       /\ thr' = [thr EXCEPT ![Main] = Entering]
       /\ UNCHANGED <<queue, nTodo, nTotal, nIdle, fAllOk>>
       /\ UNCHANGED <<stopped, control, user, verdict, svc, down>>
    \/ /\ down.phase = "clearing"
       /\ thr[Main].pc = "done"
       /\ \E w \in down.rest : down' = [down EXCEPT !.rest = @ \ {w}]
       /\ stopped' = TRUE
       /\ thr' = [Woken(Blocked(FALSE)) EXCEPT ![Main] = Outside]
       /\ UNCHANGED <<queue, nTodo, nTotal, nIdle, fAllOk>>
       /\ UNCHANGED <<control, user, verdict, svc>>
    \/ /\ down.phase = "clearing"
       /\ down.rest = {}
       /\ thr[Main].pc = "out"
       /\ down' = [down EXCEPT !.phase = "down"]
       /\ UNCHANGED pool
       /\ UNCHANGED <<stopped, control, user, verdict, svc>>

-----------------------------------------------------------------------------
LoopStep(t) == Enter(t) \/ FinishBatch(t) \/ Resume(t) \/ Work(t)

Next ==
    \/ \E t \in Threads : LoopStep(t) \/ SpuriousWakeup(t)
    \/ \E m \in Masters :
          \/ CreateMaster(m)
          \/ \E vChecks \in Txs : Add(m, vChecks)
          \/ \E early \in BOOLEAN : Wait(m, early)
          \/ DestroyMaster(m)
          \/ ReleaseControl(m)
          \/ MasterThreadEnds(m)
    \/ \E w \in Workers : RunWorker(w) \/ ExitWorker(w) \/ WaitForStop(w)
    \/ Interrupt
    \/ StopAll
    \/ Join
    \/ ClearGroup

Spec == Init /\ [][Next]_vars

\* The threads are scheduled: a thread that can take its next step takes it.
\* Nothing is assumed of the arrival of blocks, of Interrupt, or of spurious
\* wakeups.
SchedulerFairness ==
    /\ \A t \in Threads : WF_vars(LoopStep(t))
    /\ \A m \in Masters : /\ WF_vars(\E early \in BOOLEAN : Wait(m, early))
                          /\ WF_vars(DestroyMaster(m) \/ ReleaseControl(m))
    /\ \A w \in Workers : WF_vars(RunWorker(w) \/ ExitWorker(w))

FairSpec == Spec /\ SchedulerFairness

\* Once Interrupt has been called, Main proceeds, and a thread that connects
\* blocks looks at its stop flag between two of them.
ShutdownFairness ==
    /\ WF_vars(StopAll \/ Join \/ ClearGroup
               \/ \E w \in Workers : WaitForStop(w))
    /\ \A m \in Masters : SF_vars(MasterThreadEnds(m))

FairShutdownSpec == FairSpec /\ ShutdownFairness

-----------------------------------------------------------------------------
TypeOK ==
    /\ queue \in Seq(Checks)
    /\ nTodo \in Nat
    /\ nTotal \in Nat
    /\ nIdle \in Nat
    /\ fAllOk \in BOOLEAN
    /\ stopped \in BOOLEAN
    /\ thr \in [Threads -> [pc : LoopSteps, batch : SUBSET Checks,
                            fOk : BOOLEAN]]
    /\ \A t \in Threads :
          /\ thr[t].pc = "work" => thr[t].batch # {}
          /\ thr[t].batch # {} => thr[t].pc \in {"work", "lock"}
    /\ control \in Masters \cup {Nobody}
    /\ user \in [Masters -> {"idle", "adding", "waiting", "dropping",
                             "dropped", "ended"}]
    /\ verdict \in [Masters -> {"none", "good", "bad"}]
    /\ svc \in [Workers -> [running : BOOLEAN, exited : BOOLEAN,
                            stopRequested : BOOLEAN]]
    /\ down \in [phase : {"up", "stopping", "joining", "clearing", "down"},
                 rest : SUBSET Workers]
               \cup [phase : {"join"}, rest : SUBSET Workers, cur : Workers]

\* The counters, which are updated in different critical sections by
\* different threads, agree with what the threads are doing: m_nTodo counts
\* the checks not completed, m_nTotal the threads in Loop and m_nIdle those
\* of them that wait.  No counter of type size_t goes below zero.
CountersExact ==
    /\ nTodo = Cardinality(Outstanding)
    /\ nTotal = Cardinality({t \in Threads : InLoop(t)})
    /\ nIdle = Cardinality({t \in Threads : thr[t].pc \in {"wait", "woken"}})

\* No wakeup of the master is lost: it is blocked on m_condMaster only while
\* some worker still holds a batch, and that worker will notify it.
NoLostWakeup ==
    \A m \in Masters : thr[m].pc = "wait" =>
        /\ queue = <<>>
        /\ \E w \in Workers : thr[w].batch # {}

\* Every call of Wait() returns, also when the workers have left, are being
\* stopped, or have not been started: whoever connects a block is not kept
\* waiting by the pool.
WaitReturns ==
    \A m \in Masters : user[m] \in {"waiting", "dropping"} ~> user[m] = "idle"

\* Once the shutdown has begun, every thread is joined: "Wait for all threads
\* to join" (join_all).
JoinReturns == down.phase = "stopping" ~> down.phase = "down"

\* The refinement: the answer for a block so far is the answer of the checks
\* already folded into fAllOk, of those in a batch and of those queued.
goodSoFar ==
    /\ fAllOk
    /\ Elems(queue) \cap Bad = {}
    /\ \A t \in Threads : thr[t].batch # {} =>
           thr[t].fOk /\ (thr[t].pc = "work" => thr[t].batch \cap Bad = {})

CV == INSTANCE CheckVerdict
         WITH owner <- control, good <- goodSoFar, verdict <- verdict

\* The pool of threads implements the simple contract: a block is accepted
\* exactly when each check handed in for it succeeds.
ImplementsVerdict == CV!Spec
=============================================================================
