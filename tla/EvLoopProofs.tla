---------------------------- MODULE EvLoopProofs ----------------------------
(***************************************************************************)
(* Proofs about EvLoop for any number of calling threads and jobs.  The    *)
(* inductive invariant IInv says which points of its code each thread can  *)
(* be at (Places), who holds each mutex there (LockHeld), and what the     *)
(* locals job and arg hold (LocalsOK).                                     *)
(***************************************************************************)
EXTENDS EvLoop, TLAPS

\* the points of the code of each kind of thread
MainPCs == {"start", "lock", "wait", "asleep", "woken", "unlock", "main"}
LoopPCs == {"new", "init", "istart", "poll", "isignal", "iunlock", "istop",
            "cblock", "len", "shift", "remove", "job", "cbunlock"}
CallerPCs == {"new", "client", "qlock", "qpush", "qunlock", "qsend"}

\* Each thread is inside its own code, and nobody calls QueueEvJob before
\* StartUVLoop has returned.
Places ==
    /\ pc[Main] \in MainPCs /\ pc[Loop] \in LoopPCs
    /\ \A th \in Callers : /\ pc[th] \in CallerPCs
                           /\ pc[Main] # "main" => pc[th] = "new"

\* evmu is held exactly inside the critical sections of QueueEvJob and of the
\* async callback.
LockHeld ==
    /\ evmu = Loop <=> pc[Loop] \in Draining \union {"cbunlock"}
    /\ \A th \in Callers : evmu = th <=> pc[th] \in {"qpush", "qunlock"}

\* The callback's f is set from Shift until it has run; a thread inside
\* QueueEvJob has a job to push; the callback leaves the list empty.
LocalsOK ==
    /\ job \in Jobs <=> pc[Loop] \in {"remove", "job"}
    /\ \A th \in Callers : pc[th] \in {"qlock", "qpush"} => arg[th] \in Jobs
    /\ pc[Loop] = "cbunlock" => evlist = <<>>

\* The inductive invariant.
IInv == TypeOK /\ Places /\ LockHeld /\ LocalsOK /\ DrainSafe /\ NoJobStranded

\* Before StartUVLoop nobody holds a mutex and there is no job.
LEMMA IInvInit == Init => IInv
<1> SUFFICES ASSUME Init PROVE IInv
  OBVIOUS
<1> USE LoopAssumption DEF Init, Threads
<1>1. pc[Main] = "start" /\ pc[Loop] = "new" /\ \A th \in Callers : pc[th] = "new"
  OBVIOUS
<1>2. {inited, pending, idle, crashed} \subseteq BOOLEAN
  BY Zenon
<1>3. TypeOK
  BY <1>2 DEF TypeOK, PCs
<1>4. Places /\ LockHeld /\ LocalsOK
  BY <1>1 DEF Places, LockHeld, LocalsOK, Draining, MainPCs, LoopPCs, CallerPCs
<1>5. DrainSafe /\ NoJobStranded
  BY <1>1 DEF DrainSafe, NoJobStranded
<1> QED
  BY <1>3, <1>4, <1>5 DEF IInv

\* Every step of main, the loop thread and the callers keeps the invariant.
LEMMA IInvStep == IInv /\ [Next]_vars => IInv'
<1> SUFFICES ASSUME IInv, [Next]_vars PROVE IInv'
  OBVIOUS
<1> USE LoopAssumption
    DEF IInv, TypeOK, Places, LockHeld, LocalsOK, DrainSafe, NoJobStranded,
        Draining, MainPCs, LoopPCs, CallerPCs, PCs, Threads, At, Goto, handshake, jobs
<1>1. CASE StartThread
  BY <1>1 DEF StartThread
<1>2. CASE MainLock
  BY <1>2 DEF MainLock
<1>3. CASE MainWait
  BY <1>3 DEF MainWait
<1>4. CASE MainSpuriousWakeup
  BY <1>4 DEF MainSpuriousWakeup
<1>5. CASE MainRelock
  BY <1>5 DEF MainRelock
<1>6. CASE MainUnLock
  BY <1>6 DEF MainUnLock
<1>7. CASE AsyncInit
  BY <1>7 DEF AsyncInit
<1>8. CASE IdleStart
  BY <1>8 DEF IdleStart
<1>9. CASE IdleLock
  BY <1>9 DEF IdleLock
<1>10. CASE IdleSignal
  BY <1>10 DEF IdleSignal
<1>11. CASE IdleUnLock
  BY <1>11 DEF IdleUnLock
<1>12. CASE IdleStop
  BY <1>12 DEF IdleStop
<1>13. CASE AsyncCallback
  BY <1>13 DEF AsyncCallback
<1>14. CASE DrainLock
  BY <1>14 DEF DrainLock
<1>15. CASE DrainLen
  BY <1>15 DEF DrainLen
<1>16. CASE DrainShift
  BY <1>16 DEF DrainShift
<1>17. CASE DrainRemove
  BY <1>17 DEF DrainRemove
<1>18. CASE DrainRun
  BY <1>18 DEF DrainRun
<1>19. CASE DrainUnLock
  BY <1>19 DEF DrainUnLock
<1>20. ASSUME NEW th \in Callers, NEW f \in Jobs, CallQueueEvJob(th, f) PROVE IInv'
  BY <1>20 DEF CallQueueEvJob
<1>21. ASSUME NEW th \in Callers, EvLock(th) PROVE IInv'
  BY <1>21 DEF EvLock
<1>22. ASSUME NEW th \in Callers, EvPush(th) PROVE IInv'
  BY <1>22 DEF EvPush
<1>23. ASSUME NEW th \in Callers, EvUnLock(th) PROVE IInv'
  BY <1>23 DEF EvUnLock
<1>24. ASSUME NEW th \in Callers, AsyncSend(th) PROVE IInv'
  BY <1>24 DEF AsyncSend
<1>25. CASE UNCHANGED vars
  BY <1>25 DEF vars
<1> QED
  BY <1>1, <1>2, <1>3, <1>4, <1>5, <1>6, <1>7, <1>8, <1>9, <1>10, <1>11, <1>12,
     <1>13, <1>14, <1>15, <1>16, <1>17, <1>18, <1>19, <1>20, <1>21, <1>22, <1>23,
     <1>24, <1>25
  DEF Next, MainStep, LoopStep, CallerStep

\* The invariant holds in every reachable state.
THEOREM Invariance == Spec => []IInv
  BY IInvInit, IInvStep, PTL DEF Spec

\* Every variable of the start-up handshake and of the job queue keeps its
\* type, whatever the threads do.
THEOREM TypeCorrect == Spec => []TypeOK
<1>1. IInv => TypeOK
  BY DEF IInv
<1> QED
  BY <1>1, Invariance, PTL

\* The async callback never shifts an empty list and removes the node whose
\* job it took; nobody else is inside the list meanwhile.
THEOREM DrainIsSafe == Spec => []DrainSafe
<1>1. IInv => DrainSafe
  BY DEF IInv
<1> QED
  BY <1>1, Invariance, PTL

\* A job in the list is always covered by a signal or by a callback that will
\* look at the list again: coalesced uv_async_send calls lose nothing.
THEOREM NothingStranded == Spec => []NoJobStranded
<1>1. IInv => NoJobStranded
  BY DEF IInv
<1> QED
  BY <1>1, Invariance, PTL

-----------------------------------------------------------------------------
(* The job list and its drain implement a FIFO queue with one worker. *)

\* No job is queued and none runs.
LEMMA RefinementInit == Init => JQ!TQInit
  BY LoopAssumption DEF Init, JQ!TQInit, Threads

\* Push submits a job, unlinking its node takes it, the end of f() finishes it;
\* every other step leaves the abstract queue alone.
LEMMA RefinementStep == IInv /\ IInv' /\ [Next]_vars => [JQ!TQNext]_(JQ!TQvars)
<1> SUFFICES ASSUME IInv, IInv', [Next]_vars PROVE [JQ!TQNext]_(JQ!TQvars)
  OBVIOUS
<1> DEFINE running == [w \in {Loop} |-> IF pc[w] = "remove" THEN NoJob ELSE job]
<1> USE LoopAssumption
<1>t. /\ pc \in [Threads -> PCs] /\ evlist \in Seq(Jobs) /\ Loop \in Threads
      /\ Main \in Threads /\ Callers \subseteq Threads
  BY DEF IInv, TypeOK, Threads
<1>0. ASSUME evlist' = evlist, running' = running PROVE [JQ!TQNext]_(JQ!TQvars)
  BY <1>0 DEF JQ!TQvars
<1>1. ASSUME evlist' = evlist, job' = job, pc'[Loop] = pc[Loop]
                                         \/ "remove" \notin {pc[Loop], pc'[Loop]}
      PROVE [JQ!TQNext]_(JQ!TQvars)
  BY <1>0, <1>1
<1>2. CASE MainStep \/ MainSpuriousWakeup
  BY <1>1, <1>2, <1>t
  DEF MainStep, StartThread, MainLock, MainWait, MainRelock, MainUnLock,
      MainSpuriousWakeup, At, Goto, jobs
<1>3. CASE AsyncInit \/ IdleStart \/ IdleLock \/ IdleSignal \/ IdleUnLock \/ IdleStop
  BY <1>1, <1>3, <1>t
  DEF AsyncInit, IdleStart, IdleLock, IdleSignal, IdleUnLock, IdleStop, At, Goto, jobs
<1>4. CASE AsyncCallback \/ DrainLock \/ DrainLen \/ DrainUnLock
  BY <1>1, <1>4, <1>t
  DEF AsyncCallback, DrainLock, DrainLen, DrainUnLock, At, Goto, jobs
<1>5. ASSUME NEW th \in Callers, NEW f \in Jobs, CallQueueEvJob(th, f)
      PROVE  [JQ!TQNext]_(JQ!TQvars)
  BY <1>1, <1>5, <1>t DEF CallQueueEvJob, At, Goto
<1>6. ASSUME NEW th \in Callers, EvLock(th) \/ EvUnLock(th) \/ AsyncSend(th)
      PROVE  [JQ!TQNext]_(JQ!TQvars)
  BY <1>1, <1>6, <1>t DEF EvLock, EvUnLock, AsyncSend, At, Goto
<1>7. ASSUME NEW th \in Callers, EvPush(th) PROVE [JQ!TQNext]_(JQ!TQvars)
  <2>1. arg[th] \in Jobs
    BY <1>7 DEF EvPush, At, IInv, LocalsOK
  <2>2. evlist' = Append(evlist, arg[th]) /\ running' = running
    BY <1>7, <1>t DEF EvPush, At, Goto
  <2>3. JQ!Submit(arg[th])
    BY <2>2 DEF JQ!Submit
  <2> QED
    BY <2>1, <2>3 DEF JQ!TQNext
<1>8. CASE DrainShift
  \* f is taken, but the node is still in the list
  <2>1. job = NoJob
    BY <1>8 DEF DrainShift, At, IInv, LocalsOK, TypeOK
  <2>2. running' = running
    BY <1>8, <1>t, <2>1 DEF DrainShift, At, Goto
  <2> QED
    BY <1>0, <1>8, <2>2 DEF DrainShift
<1>9. CASE DrainRemove
  <2>1. evlist # <<>> /\ job = Head(evlist)
    BY <1>9 DEF DrainRemove, At, IInv, DrainSafe
  <2>2. running[Loop] = NoJob /\ running' = [running EXCEPT ![Loop] = Head(evlist)]
    BY <1>9, <1>t, <2>1 DEF DrainRemove, At, Goto
  <2>3. JQ!Take(Loop)
    BY <1>9, <2>1, <2>2 DEF DrainRemove, JQ!Take
  <2> QED
    BY <2>3 DEF JQ!TQNext
<1>10. CASE DrainRun
  <2>1. job \in Jobs
    BY <1>10 DEF DrainRun, At, IInv, LocalsOK
  <2>2. running[Loop] # NoJob /\ running' = [running EXCEPT ![Loop] = NoJob]
    BY <1>10, <1>t, <2>1 DEF DrainRun, At, Goto
  <2>3. JQ!Finish(Loop)
    BY <1>10, <2>2 DEF DrainRun, JQ!Finish
  <2> QED
    BY <2>3 DEF JQ!TQNext
<1>11. CASE UNCHANGED vars
  BY <1>0, <1>11 DEF vars
<1> QED
  BY <1>2, <1>3, <1>4, <1>5, <1>6, <1>7, <1>8, <1>9, <1>10, <1>11
  DEF Next, LoopStep, CallerStep

\* Jobs run on the loop thread one at a time, each submission exactly once, in
\* the order of the list: EvLoop implements the abstract queue of TaskQueue.
THEOREM JobQueueRefinement == Spec => RefinesJobQueue
  BY Invariance, RefinementInit, RefinementStep, PTL DEF Spec, RefinesJobQueue, JQ!TQSpec
=============================================================================
