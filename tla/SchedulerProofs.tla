-------------------------- MODULE SchedulerProofs --------------------------
(***************************************************************************)
(* Proofs about Scheduler for any number of workers, clients, state        *)
(* machines and queue bound.  The inductive invariant IInv adds to the     *)
(* properties of Scheduler what the locals of a thread hold at each point  *)
(* of its code (LocalsOK).                                                 *)
(***************************************************************************)
EXTENDS Scheduler, FiniteSetTheorems, TLAPS

\* The worker's t is set from Shift to the end of the StepNext loop, and a
\* thread inside QueueTask has a state machine to push.
LocalsOK ==
    /\ \A w \in Workers :
          t[w] = NoTask <=> pc[w] \in {"new", "lock", "len", "wait", "asleep",
                                       "woken", "shift"}
    /\ \A th \in Threads : pc[th] \in {"qlock", "qpush"} => st[th] \in Tasks

Safe == TypeOK /\ LockOwnership /\ ShiftSafe /\ SleepOnEmpty /\ LocalsOK

IInv == Safe /\ WorkConserving

-----------------------------------------------------------------------------
(* Everything but WorkConserving: no cardinalities involved. *)

LEMMA SafeInit == Init => Safe
  BY ThreadAssumption
  DEF Init, Safe, TypeOK, LockOwnership, ShiftSafe, SleepOnEmpty, LocalsOK,
      Critical, At, Threads, Clients, WorkerPCs, ClientPCs, QueuePCs

LEMMA SafeStep == Safe /\ [Next]_vars => Safe'
<1> SUFFICES ASSUME Safe, [Next]_vars PROVE Safe'
  OBVIOUS
<1> USE ThreadAssumption
    DEF Safe, TypeOK, LockOwnership, ShiftSafe, SleepOnEmpty, LocalsOK,
        Critical, At, Goto, Threads, Clients, WorkerPCs, ClientPCs, QueuePCs
<1>1. ASSUME NEW w \in Workers, Exec(w) PROVE Safe'
  BY <1>1 DEF Exec
<1>2. CASE ExecReturn
  BY <1>2 DEF ExecReturn
<1>3. ASSUME NEW th \in Loops, StartLoop(th) PROVE Safe'
  BY <1>3 DEF StartLoop
<1>4. ASSUME NEW th \in Threads, NEW s \in Tasks, CallQueueTask(th, s) PROVE Safe'
  BY <1>4 DEF CallQueueTask, Home
<1>5. ASSUME NEW th \in Threads, QueueLock(th) PROVE Safe'
  BY <1>5 DEF QueueLock
<1>6. ASSUME NEW th \in Threads, QueuePush(th) PROVE Safe'
  BY <1>6 DEF QueuePush
<1>7. ASSUME NEW th \in Threads, QueueSignal(th) PROVE Safe'
  BY <1>7 DEF QueueSignal, Sleepers
<1>8. ASSUME NEW th \in Threads, QueueUnLock(th) PROVE Safe'
  BY <1>8 DEF QueueUnLock, Home
<1>9. ASSUME NEW w \in Workers, WorkerLock(w) PROVE Safe'
  BY <1>9 DEF WorkerLock
<1>10. ASSUME NEW w \in Workers, WorkerLen(w) PROVE Safe'
  BY <1>10 DEF WorkerLen
<1>11. ASSUME NEW w \in Workers, WorkerWait(w) PROVE Safe'
  BY <1>11 DEF WorkerWait
<1>12. ASSUME NEW w \in Workers, WorkerRelock(w) PROVE Safe'
  BY <1>12 DEF WorkerRelock
<1>13. ASSUME NEW w \in Workers, WorkerShift(w) PROVE Safe'
  BY <1>13 DEF WorkerShift
<1>14. ASSUME NEW w \in Workers, WorkerRemove(w) PROVE Safe'
  BY <1>14 DEF WorkerRemove
<1>15. ASSUME NEW w \in Workers, WorkerUnLock(w) PROVE Safe'
  BY <1>15 DEF WorkerUnLock
<1>16. ASSUME NEW w \in Workers, WorkerStepDone(w) PROVE Safe'
  BY <1>16 DEF WorkerStepDone
<1>17. ASSUME NEW w \in Workers, SpuriousWakeup(w) PROVE Safe'
  BY <1>17 DEF SpuriousWakeup
<1>18. CASE UNCHANGED vars
  BY <1>18 DEF vars
<1> QED
  BY <1>1, <1>2, <1>3, <1>4, <1>5, <1>6, <1>7, <1>8, <1>9, <1>10, <1>11, <1>12,
     <1>13, <1>14, <1>15, <1>16, <1>17, <1>18
  DEF Next, QueueStep, WorkerStep

-----------------------------------------------------------------------------
(* Counting: workers on their way to the list against queued tasks. *)

LEMMA Counts ==
    ASSUME Safe
    PROVE  /\ IsFiniteSet(Fetchers) /\ Cardinality(Fetchers) \in Nat
           /\ IsFiniteSet(Unsignalled) /\ Cardinality(Unsignalled) \in Nat
           /\ Len(tasks) \in Nat
<1>1. Fetchers \in SUBSET Workers
  BY DEF Fetchers
<1>2. Unsignalled \in SUBSET {mu}
  BY DEF Unsignalled, Safe, LockOwnership, Critical
<1>3. IsFiniteSet({mu})
  BY FS_Singleton
<1>4. IsFiniteSet(Fetchers) /\ IsFiniteSet(Unsignalled)
  BY <1>1, <1>2, <1>3, FS_Subset, ThreadAssumption
<1>5. Len(tasks) \in Nat
  BY DEF Safe, TypeOK
<1> QED
  BY <1>4, <1>5, FS_CardinalityType

\* The same facts in the next state.
LEMMA CountsPrime ==
    ASSUME Safe'
    PROVE  /\ Cardinality(Fetchers') \in Nat
           /\ Cardinality(Unsignalled') \in Nat
<1>1. Fetchers' \in SUBSET Workers
  BY DEF Fetchers
<1>2. Unsignalled' \in SUBSET {mu'}
  BY DEF Unsignalled, Safe, LockOwnership, Critical
<1>3. IsFiniteSet({mu'})
  BY FS_Singleton
<1>4. IsFiniteSet(Fetchers') /\ IsFiniteSet(Unsignalled')
  BY <1>1, <1>2, <1>3, FS_Subset, ThreadAssumption
<1> QED
  BY <1>4, FS_CardinalityType

\* A step that leaves the list and the two counted sets alone, and puts nobody
\* to sleep, keeps the balance.
LEMMA BalanceKept ==
    ASSUME WorkConserving, tasks' = tasks, Fetchers' = Fetchers,
           Unsignalled' = Unsignalled, Sleepers' \subseteq Sleepers
    PROVE  WorkConserving'
  BY DEF WorkConserving

\* So does one more worker on its way to the list.
LEMMA BalanceGain ==
    ASSUME Safe, WorkConserving, tasks' = tasks, NEW w, Fetchers' = Fetchers \union {w},
           Unsignalled' = Unsignalled, Sleepers' \subseteq Sleepers
    PROVE  WorkConserving'
<1>0. IsFiniteSet(Fetchers) /\ Cardinality(Fetchers) \in Nat
  BY Counts
<1>1. \/ Cardinality(Fetchers') = Cardinality(Fetchers)
      \/ Cardinality(Fetchers') = Cardinality(Fetchers) + 1
  BY <1>0, FS_AddElement
<1> QED
  BY <1>0, <1>1, Counts DEF WorkConserving

LEMMA WorkConservingStep == IInv /\ [Next]_vars => WorkConserving'
<1> SUFFICES ASSUME Safe, WorkConserving, [Next]_vars PROVE WorkConserving'
  BY DEF IInv
<1> USE ThreadAssumption
<1>s. Safe'
  BY SafeStep
<1>n. /\ pc \in [Threads -> WorkerPCs \union ClientPCs]
      /\ tasks \in Seq(Tasks)
      /\ Workers \subseteq Threads
  BY DEF Safe, TypeOK, Threads
<1>1. ASSUME NEW w \in Workers, Exec(w) PROVE WorkConserving'
  <2>1. Fetchers' = Fetchers \union {w} /\ Unsignalled' = Unsignalled
        /\ Sleepers' \subseteq Sleepers /\ tasks' = tasks
    BY <1>1, <1>n DEF Exec, At, Goto, Fetchers, Unsignalled, Sleepers
  <2> QED BY <2>1, BalanceGain
<1>2. CASE ExecReturn
  <2>1. Fetchers' = Fetchers /\ Unsignalled' = Unsignalled
        /\ Sleepers' \subseteq Sleepers /\ tasks' = tasks
    BY <1>2, <1>n DEF ExecReturn, At, Goto, Fetchers, Unsignalled, Sleepers
  <2> QED BY <2>1, BalanceKept
<1>3. ASSUME NEW th \in Loops, StartLoop(th) PROVE WorkConserving'
  <2>1. Fetchers' = Fetchers /\ Unsignalled' = Unsignalled
        /\ Sleepers' \subseteq Sleepers /\ tasks' = tasks
    BY <1>3, <1>n DEF StartLoop, At, Goto, Fetchers, Unsignalled, Sleepers
  <2> QED BY <2>1, BalanceKept
<1>4. ASSUME NEW th \in Threads, NEW s \in Tasks, CallQueueTask(th, s)
      PROVE WorkConserving'
  <2>1. Fetchers' = Fetchers /\ Unsignalled' = Unsignalled
        /\ Sleepers' \subseteq Sleepers /\ tasks' = tasks
    BY <1>4, <1>n DEF CallQueueTask, Home, At, Goto, Fetchers, Unsignalled, Sleepers
  <2> QED BY <2>1, BalanceKept
<1>5. ASSUME NEW th \in Threads, QueueLock(th) PROVE WorkConserving'
  <2>1. Fetchers' = Fetchers /\ Unsignalled' = Unsignalled
        /\ Sleepers' \subseteq Sleepers /\ tasks' = tasks
    BY <1>5, <1>n DEF QueueLock, At, Goto, Fetchers, Unsignalled, Sleepers
  <2> QED BY <2>1, BalanceKept
<1>6. ASSUME NEW th \in Threads, QueuePush(th) PROVE WorkConserving'
  <2>1. Fetchers' = Fetchers /\ Unsignalled' = Unsignalled \union {th}
        /\ Sleepers' = Sleepers /\ th \notin Unsignalled
    BY <1>6, <1>n DEF QueuePush, At, Goto, Fetchers, Unsignalled, Sleepers
  <2>2. Len(tasks') = Len(tasks) + 1
    BY <1>6, <1>n DEF QueuePush, Safe, LocalsOK, At
  <2>3. Cardinality(Unsignalled') = Cardinality(Unsignalled) + 1
    BY <2>1, Counts, FS_AddElement
  <2> QED BY <2>1, <2>2, <2>3, Counts DEF WorkConserving
<1>7. ASSUME NEW th \in Threads, QueueSignal(th) PROVE WorkConserving'
  <2>1. ASSUME NEW w \in Sleepers,
               pc' = [pc EXCEPT ![th] = "qunlock", ![w] = "woken"]
        PROVE  WorkConserving'
    <3>1. Fetchers' = Fetchers \union {w} /\ w \notin Fetchers
          /\ Unsignalled' = Unsignalled \ {th} /\ th \in Unsignalled
          /\ Sleepers # {} /\ tasks' = tasks
      BY <1>7, <2>1, <1>n DEF QueueSignal, At, Fetchers, Unsignalled, Sleepers
    <3>2. Cardinality(Unsignalled') = Cardinality(Unsignalled) - 1
      BY <3>1, Counts, FS_RemoveElement
    <3>3. Cardinality(Fetchers') = Cardinality(Fetchers) + 1
      BY <3>1, Counts, FS_AddElement
    <3> QED BY <3>1, <3>2, <3>3, Counts DEF WorkConserving
  <2>2. ASSUME Sleepers = {}, Goto(th, "qunlock") PROVE WorkConserving'
    <3>1. Sleepers' = {}
      BY <2>2, <1>n DEF Goto, Sleepers
    <3> QED BY <3>1 DEF WorkConserving
  <2> QED BY <1>7, <2>1, <2>2 DEF QueueSignal
<1>8. ASSUME NEW th \in Threads, QueueUnLock(th) PROVE WorkConserving'
  <2>1. Fetchers' = Fetchers /\ Unsignalled' = Unsignalled
        /\ Sleepers' \subseteq Sleepers /\ tasks' = tasks
    BY <1>8, <1>n DEF QueueUnLock, Home, At, Goto, Fetchers, Unsignalled, Sleepers
  <2> QED BY <2>1, BalanceKept
<1>9. ASSUME NEW w \in Workers, WorkerLock(w) \/ WorkerRelock(w) PROVE WorkConserving'
  <2>1. Fetchers' = Fetchers /\ Unsignalled' = Unsignalled
        /\ Sleepers' \subseteq Sleepers /\ tasks' = tasks
    BY <1>9, <1>n DEF WorkerLock, WorkerRelock, At, Goto, Fetchers, Unsignalled, Sleepers
  <2> QED BY <2>1, BalanceKept
<1>10. ASSUME NEW w \in Workers, WorkerLen(w) PROVE WorkConserving'
  <2>1. CASE Len(tasks) = 0
    <3>1. Len(tasks') = 0
      BY <1>10, <2>1 DEF WorkerLen
    <3> QED BY <3>1, <1>s, CountsPrime DEF WorkConserving
  <2>2. CASE Len(tasks) # 0
    <3>1. Fetchers' = Fetchers /\ Unsignalled' = Unsignalled
          /\ Sleepers' \subseteq Sleepers /\ tasks' = tasks
      BY <1>10, <2>2, <1>n DEF WorkerLen, At, Goto, Fetchers, Unsignalled, Sleepers
    <3> QED BY <3>1, BalanceKept
  <2> QED BY <2>1, <2>2
<1>11. ASSUME NEW w \in Workers, WorkerWait(w) PROVE WorkConserving'
  <2>1. Len(tasks') = 0
    BY <1>11, <1>n DEF WorkerWait, Safe, SleepOnEmpty
  <2> QED BY <2>1, <1>s, CountsPrime DEF WorkConserving
<1>12. ASSUME NEW w \in Workers, WorkerShift(w) \/ WorkerUnLock(w) PROVE WorkConserving'
  <2>1. Fetchers' = Fetchers /\ Unsignalled' = Unsignalled
        /\ Sleepers' \subseteq Sleepers /\ tasks' = tasks
    BY <1>12, <1>n DEF WorkerShift, WorkerUnLock, At, Goto, Fetchers, Unsignalled, Sleepers
  <2> QED BY <2>1, BalanceKept
<1>13. ASSUME NEW w \in Workers, WorkerRemove(w) PROVE WorkConserving'
  <2>1. Fetchers' = Fetchers \ {w} /\ w \in Fetchers /\ Unsignalled' = Unsignalled
        /\ Sleepers' = Sleepers
    BY <1>13, <1>n DEF WorkerRemove, At, Goto, Fetchers, Unsignalled, Sleepers
  <2>2. Len(tasks') = Len(tasks) - 1
    BY <1>13, <1>n DEF WorkerRemove, Safe, ShiftSafe
  <2>3. Cardinality(Fetchers') = Cardinality(Fetchers) - 1
    BY <2>1, Counts, FS_RemoveElement
  <2> QED BY <2>1, <2>2, <2>3, Counts DEF WorkConserving
<1>14. ASSUME NEW w \in Workers, WorkerStepDone(w) \/ SpuriousWakeup(w)
       PROVE WorkConserving'
  <2>1. Fetchers' = Fetchers \union {w} /\ Unsignalled' = Unsignalled
        /\ Sleepers' \subseteq Sleepers /\ tasks' = tasks
    BY <1>14, <1>n DEF WorkerStepDone, SpuriousWakeup, At, Goto, Fetchers,
                       Unsignalled, Sleepers
  <2> QED BY <2>1, BalanceGain
<1>15. CASE UNCHANGED vars
  BY <1>15, BalanceKept DEF vars, Fetchers, Unsignalled, Sleepers
<1> QED
  BY <1>1, <1>2, <1>3, <1>4, <1>5, <1>6, <1>7, <1>8, <1>9, <1>10, <1>11, <1>12,
     <1>13, <1>14, <1>15
  DEF Next, QueueStep, WorkerStep

-----------------------------------------------------------------------------
LEMMA IInvInit == Init => IInv
<1> SUFFICES ASSUME Init PROVE IInv
  OBVIOUS
<1>1. Safe
  BY SafeInit
<1>2. Sleepers = {}
  BY ThreadAssumption DEF Init, Sleepers, Threads, Clients
<1> QED BY <1>1, <1>2 DEF IInv, WorkConserving

\* IInv is an invariant of the scheduler.
THEOREM Invariance == Spec => []IInv
<1>1. IInv /\ [Next]_vars => IInv'
  BY SafeStep, WorkConservingStep DEF IInv
<1> QED BY IInvInit, <1>1, PTL DEF Spec

\* The variables keep their types: every thread stays in its own code.
THEOREM TypeCorrect == Spec => []TypeOK
<1>1. IInv => TypeOK
  BY DEF IInv, Safe
<1> QED BY <1>1, Invariance, PTL

\* ds.mu is held exactly by the thread between Lock and UnLock, through the
\* release and re-acquisition inside Cond.Wait.
THEOREM MutexDiscipline == Spec => []LockOwnership
<1>1. IInv => LockOwnership
  BY DEF IInv, Safe
<1> QED BY <1>1, Invariance, PTL

\* The worker loop never shifts an empty list and unlinks the node it copied.
THEOREM ShiftCorrect == Spec => []ShiftSafe
<1>1. IInv => ShiftSafe
  BY DEF IInv, Safe
<1> QED BY <1>1, Invariance, PTL

\* No submission slips in between a worker's Len() test and its Wait.
THEOREM SleepCorrect == Spec => []SleepOnEmpty
<1>1. IInv => SleepOnEmpty
  BY DEF IInv, Safe
<1> QED BY <1>1, Invariance, PTL

\* No wakeup is lost: while a worker sleeps, every queued task is matched by a
\* worker on its way to the list or by a signal about to be sent.
THEOREM NoLostWakeup == Spec => []WorkConserving
<1>1. IInv => WorkConserving
  BY DEF IInv
<1> QED BY <1>1, Invariance, PTL

-----------------------------------------------------------------------------
(* Refinement of the FIFO task queue. *)

LEMMA RefinementInit == Init => TQ!TQInit
  BY ThreadAssumption DEF Init, TQ!TQInit, Threads, Clients

LEMMA RefinementStep == IInv /\ [Next]_vars => [TQ!TQNext]_(TQ!TQvars)
<1> SUFFICES ASSUME Safe, [Next]_vars PROVE [TQ!TQNext]_(TQ!TQvars)
  BY DEF IInv
<1> USE ThreadAssumption
    DEF Safe, TypeOK, LocalsOK, At, Goto, Threads, Clients
<1> DEFINE running == [w \in Workers |-> IF pc[w] = "remove" THEN NoTask ELSE t[w]]
<1>0. ASSUME tasks' = tasks, running' = running PROVE [TQ!TQNext]_(TQ!TQvars)
  BY <1>0 DEF TQ!TQvars
<1>1. ASSUME NEW w \in Workers, Exec(w) PROVE [TQ!TQNext]_(TQ!TQvars)
  BY <1>1, <1>0 DEF Exec
<1>2. CASE ExecReturn
  BY <1>2, <1>0 DEF ExecReturn
<1>3. ASSUME NEW th \in Loops, StartLoop(th) PROVE [TQ!TQNext]_(TQ!TQvars)
  BY <1>3, <1>0 DEF StartLoop
<1>4. ASSUME NEW th \in Threads, NEW s \in Tasks, CallQueueTask(th, s)
      PROVE [TQ!TQNext]_(TQ!TQvars)
  BY <1>4, <1>0 DEF CallQueueTask, Home
<1>5. ASSUME NEW th \in Threads, QueueLock(th) \/ QueueSignal(th) \/ QueueUnLock(th)
      PROVE [TQ!TQNext]_(TQ!TQvars)
  BY <1>5, <1>0 DEF QueueLock, QueueSignal, QueueUnLock, Home, Sleepers
<1>6. ASSUME NEW th \in Threads, QueuePush(th) PROVE [TQ!TQNext]_(TQ!TQvars)
  <2>1. st[th] \in Tasks /\ running' = running
    BY <1>6 DEF QueuePush
  <2>2. TQ!Submit(st[th])
    BY <1>6, <2>1 DEF QueuePush, TQ!Submit
  <2> QED BY <2>1, <2>2 DEF TQ!TQNext
<1>7. ASSUME NEW w \in Workers,
             \/ WorkerLock(w) \/ WorkerLen(w) \/ WorkerWait(w) \/ WorkerRelock(w)
             \/ WorkerUnLock(w) \/ SpuriousWakeup(w)
      PROVE [TQ!TQNext]_(TQ!TQvars)
  BY <1>7, <1>0 DEF WorkerLock, WorkerLen, WorkerWait, WorkerRelock, WorkerUnLock,
                    SpuriousWakeup
<1>8. ASSUME NEW w \in Workers, WorkerShift(w) PROVE [TQ!TQNext]_(TQ!TQvars)
  BY <1>8, <1>0 DEF WorkerShift
<1>9. ASSUME NEW w \in Workers, WorkerRemove(w) PROVE [TQ!TQNext]_(TQ!TQvars)
  <2>1. TQ!Take(w)
    BY <1>9 DEF WorkerRemove, TQ!Take, ShiftSafe
  <2> QED BY <2>1 DEF TQ!TQNext
<1>10. ASSUME NEW w \in Workers, WorkerStepDone(w) PROVE [TQ!TQNext]_(TQ!TQvars)
  <2>1. TQ!Finish(w)
    BY <1>10 DEF WorkerStepDone, TQ!Finish
  <2> QED BY <2>1 DEF TQ!TQNext
<1>11. CASE UNCHANGED vars
  BY <1>11, <1>0 DEF vars
<1> QED
  BY <1>1, <1>2, <1>3, <1>4, <1>5, <1>6, <1>7, <1>8, <1>9, <1>10, <1>11
  DEF Next, QueueStep, WorkerStep

\* The scheduler of coro.calc implements the FIFO task queue: every submission
\* is handed to exactly one worker, in submission order.
THEOREM Refinement == Spec => RefinesTaskQueue
<1> QED
  BY RefinementInit, RefinementStep, Invariance, PTL
  DEF Spec, RefinesTaskQueue, TQ!TQSpec
=============================================================================
