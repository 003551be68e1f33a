----------------------------- MODULE Scheduler -----------------------------
(***************************************************************************)
(* runtime/coro/coro.calc: defaultScheduler, its QueueTask and its worker  *)
(* loop Exec, at the grain of single mutex, condition variable and list    *)
(* operations.  A thread is a worker created by Exec, the main thread, or  *)
(* another native thread (the libuv loop) that submits state machines.     *)
(*                                                                         *)
(* The mutex and the condition variable are the pthread ones behind        *)
(* sync.Mutex and sync.Cond: Wait releases the mutex and sleeps in one     *)
(* step, a signal wakes one sleeper if there is one and is otherwise lost, *)
(* and a sleeper may wake without any signal.                              *)
(***************************************************************************)
EXTENDS Integers, Sequences, FiniteSets

CONSTANTS
    Workers,    \* threads that Exec creates, get_available_parallelism() many
    Main,       \* the main thread
    Loops,      \* other native threads that submit state machines
    Tasks,      \* state machines
    NoTask,
    NoThread,
    MaxQueue    \* bound: nobody calls QueueTask with more tasks in the list

Clients == Loops \union {Main}
Threads == Workers \union Clients

ASSUME ThreadAssumption ==
    /\ IsFiniteSet(Workers)
    /\ Workers \intersect Clients = {}
    /\ NoThread \notin Threads
    /\ NoTask \notin Tasks
    /\ MaxQueue \in Nat

VARIABLES
    tasks,      \* ds.tasks, the linked list of queued state machines
    mu,         \* holder of ds.mu
    pc,         \* where each thread is
    t,          \* t[w]: local of the worker loop, the machine taken from the list
    st          \* st[th]: argument of the QueueTask call th is in

vars == <<tasks, mu, pc, t, st>>

(***************************************************************************)
(* Program points.  A thread has its pc at the operation it performs next. *)
(*   new      not created yet                                              *)
(*   exec     main, inside Exec: creating the workers                      *)
(*   client   outside the scheduler, free to call QueueTask                *)
(*   qlock .. qunlock   inside QueueTask                                   *)
(*   lock, len, wait, shift, remove, unlock   the worker loop              *)
(*   asleep   inside pthread_cond_wait, the mutex released                 *)
(*   woken    inside pthread_cond_wait, waiting to get the mutex back      *)
(*   run      executing t.StepNext()                                       *)
(***************************************************************************)
QueuePCs == {"qlock", "qpush", "qsignal", "qunlock"}
ClientPCs == {"new", "exec", "client"} \union QueuePCs
WorkerPCs == {"new", "lock", "len", "wait", "asleep", "woken", "shift",
              "remove", "unlock", "run"} \union QueuePCs

At(th, l) == pc[th] = l
Goto(th, l) == pc' = [pc EXCEPT ![th] = l]

Init ==
    /\ tasks = <<>>
    /\ mu = NoThread
    /\ pc = [th \in Threads |-> IF th = Main THEN "exec" ELSE "new"]
    /\ t = [w \in Workers |-> NoTask]
    /\ st = [th \in Threads |-> NoTask]

-----------------------------------------------------------------------------
(* Exec: one thread.New per worker, then main goes on; the libuv loop      *)
(* thread is created by main once Exec has returned.                       *)

Exec(w) ==
    /\ At(Main, "exec") /\ At(w, "new")
    /\ Goto(w, "lock")
    /\ UNCHANGED <<tasks, mu, t, st>>

ExecReturn ==
    /\ At(Main, "exec") /\ \A w \in Workers : ~At(w, "new")
    /\ Goto(Main, "client")
    /\ UNCHANGED <<tasks, mu, t, st>>

StartLoop(th) ==
    /\ At(Main, "client") /\ At(th, "new")
    /\ Goto(th, "client")
    /\ UNCHANGED <<tasks, mu, t, st>>

-----------------------------------------------------------------------------
(* QueueTask: Lock; Push; Signal; UnLock.  Called by a client thread, or   *)
(* by a worker out of the state machine it executes.                       *)

Home(th) == IF th \in Workers THEN "run" ELSE "client"

CallQueueTask(th, s) ==
    /\ At(th, Home(th))
    /\ Len(tasks) < MaxQueue
    /\ st' = [st EXCEPT ![th] = s]
    /\ Goto(th, "qlock")
    /\ UNCHANGED <<tasks, mu, t>>

\* mutant: the caller of QueueTask does not take the mutex
QueueLock_NoMutex(th) ==
    /\ At(th, "qlock")
    /\ Goto(th, "qpush")
    /\ UNCHANGED <<tasks, mu, t, st>>

QueueLock(th) ==
    /\ At(th, "qlock") /\ mu = NoThread
    /\ mu' = th
    /\ Goto(th, "qpush")
    /\ UNCHANGED <<tasks, t, st>>

\* mutant: UnShift in place of Push
QueuePush_Front(th) ==
    /\ At(th, "qpush")
    /\ tasks' = <<st[th]>> \o tasks
    /\ Goto(th, "qsignal")
    /\ UNCHANGED <<mu, t, st>>

QueuePush(th) ==
    /\ At(th, "qpush")
    /\ tasks' = Append(tasks, st[th])
    /\ Goto(th, "qsignal")
    /\ UNCHANGED <<mu, t, st>>

Sleepers == {w \in Workers : pc[w] = "asleep"}

\* mutant: signal only the submission that makes the list non-empty
QueueSignal_FirstOnly(th) ==
    /\ At(th, "qsignal")
    /\ \/ \E w \in Sleepers : Len(tasks) = 1 /\
             pc' = [pc EXCEPT ![th] = "qunlock", ![w] = "woken"]
       \/ (Sleepers = {} \/ Len(tasks) # 1) /\ Goto(th, "qunlock")
    /\ UNCHANGED <<tasks, mu, t, st>>

\* mutant: no signal at all
QueueSignal_Dropped(th) ==
    /\ At(th, "qsignal")
    /\ Goto(th, "qunlock")
    /\ UNCHANGED <<tasks, mu, t, st>>

\* pthread_cond_signal wakes one sleeper, whichever; with none it has no effect
QueueSignal(th) ==
    /\ At(th, "qsignal")
    /\ \/ \E w \in Sleepers :
             pc' = [pc EXCEPT ![th] = "qunlock", ![w] = "woken"]
       \/ Sleepers = {} /\ Goto(th, "qunlock")
    /\ UNCHANGED <<tasks, mu, t, st>>

\* mutant: whoever called, control returns into the worker loop
QueueUnLock_ToLoop(th) ==
    /\ At(th, "qunlock")
    /\ mu' = NoThread
    /\ st' = [st EXCEPT ![th] = NoTask]
    /\ Goto(th, "run")
    /\ UNCHANGED <<tasks, t>>

QueueUnLock(th) ==
    /\ At(th, "qunlock")
    /\ mu' = NoThread
    /\ st' = [st EXCEPT ![th] = NoTask]
    /\ Goto(th, Home(th))
    /\ UNCHANGED <<tasks, t>>

-----------------------------------------------------------------------------
(* The worker loop: Lock; while Len()==0 Wait; Shift; UnLock; StepNext.    *)

WorkerLock(w) ==
    /\ At(w, "lock") /\ mu = NoThread
    /\ mu' = w
    /\ Goto(w, "len")
    /\ UNCHANGED <<tasks, t, st>>

WorkerLen(w) ==
    /\ At(w, "len")
    /\ \/ Len(tasks) = 0 /\ Goto(w, "wait")
       \/ Len(tasks) # 0 /\ Goto(w, "shift")
    /\ UNCHANGED <<tasks, mu, t, st>>

\* pthread_cond_wait: release the mutex and sleep, atomically
WorkerWait(w) ==
    /\ At(w, "wait")
    /\ mu' = NoThread
    /\ Goto(w, "asleep")
    /\ UNCHANGED <<tasks, t, st>>

SpuriousWakeup(w) ==
    /\ At(w, "asleep")
    /\ Goto(w, "woken")
    /\ UNCHANGED <<tasks, mu, t, st>>

\* mutant: if ds.tasks.Len()==0 instead of for
WorkerRelock_NoRetest(w) ==
    /\ At(w, "woken") /\ mu = NoThread
    /\ mu' = w
    /\ Goto(w, "shift")
    /\ UNCHANGED <<tasks, t, st>>

\* mutant: Wait returns without the mutex
WorkerRelock_NoMutex(w) ==
    /\ At(w, "woken")
    /\ Goto(w, "len")
    /\ UNCHANGED <<tasks, mu, t, st>>

\* pthread_cond_wait returns with the mutex held; the loop tests Len() again
WorkerRelock(w) ==
    /\ At(w, "woken") /\ mu = NoThread
    /\ mu' = w
    /\ Goto(w, "len")
    /\ UNCHANGED <<tasks, t, st>>

\* List.Shift first copies the value of the first node ...
WorkerShift(w) ==
    /\ At(w, "shift")
    /\ t' = [t EXCEPT ![w] = Head(tasks)]
    /\ Goto(w, "remove")
    /\ UNCHANGED <<tasks, mu, st>>

\* ... and then unlinks whatever node is first
WorkerRemove(w) ==
    /\ At(w, "remove")
    /\ tasks' = Tail(tasks)
    /\ Goto(w, "unlock")
    /\ UNCHANGED <<mu, t, st>>

WorkerUnLock(w) ==
    /\ At(w, "unlock")
    /\ mu' = NoThread
    /\ Goto(w, "run")
    /\ UNCHANGED <<tasks, t, st>>

\* for ;t.StepNext(); {} ends: the last StepNext returned false
WorkerStepDone(w) ==
    /\ At(w, "run")
    /\ t' = [t EXCEPT ![w] = NoTask]
    /\ Goto(w, "lock")
    /\ UNCHANGED <<tasks, mu, st>>

-----------------------------------------------------------------------------
WorkerStep(w) ==
    \/ WorkerLock(w) \/ WorkerLen(w) \/ WorkerWait(w) \/ WorkerRelock(w)
    \/ WorkerShift(w) \/ WorkerRemove(w) \/ WorkerUnLock(w) \/ WorkerStepDone(w)

QueueStep(th) ==
    QueueLock(th) \/ QueuePush(th) \/ QueueSignal(th) \/ QueueUnLock(th)

Next ==
    \/ \E w \in Workers : Exec(w)
    \/ ExecReturn
    \/ \E th \in Loops : StartLoop(th)
    \/ \E th \in Threads : (\E s \in Tasks : CallQueueTask(th, s)) \/ QueueStep(th)
    \/ \E w \in Workers : WorkerStep(w) \/ SpuriousWakeup(w)

Spec == Init /\ [][Next]_vars

(***************************************************************************)
(* Every thread that can run is eventually scheduled by the kernel, and a  *)
(* StepNext loop ends.  No thread is promised the mutex while others keep  *)
(* taking it, no wakeup without a signal, and no call of QueueTask.        *)
(***************************************************************************)
Fairness ==
    /\ WF_vars(ExecReturn)
    /\ \A w \in Workers : WF_vars(Exec(w)) /\ WF_vars(WorkerStep(w))
    /\ \A th \in Threads : WF_vars(QueueStep(th))

FairSpec == Spec /\ Fairness

-----------------------------------------------------------------------------
(* Properties *)

\* Every variable has its type: threads are at points of their own code.
TypeOK ==
    /\ tasks \in Seq(Tasks)
    /\ mu \in Threads \union {NoThread}
    /\ pc \in [Threads -> WorkerPCs \union ClientPCs]
    /\ \A w \in Workers : pc[w] \in WorkerPCs
    /\ \A c \in Clients : pc[c] \in ClientPCs
    /\ t \in [Workers -> Tasks \union {NoTask}]
    /\ st \in [Threads -> Tasks \union {NoTask}]

Critical == {"qpush", "qsignal", "qunlock",
             "len", "wait", "shift", "remove", "unlock"}

\* Only the holder of ds.mu is between Lock and UnLock, and it is there: the
\* re-acquisition hidden in Cond.Wait and the release in it keep the pairing.
LockOwnership ==
    \A th \in Threads : (mu = th) <=> (pc[th] \in Critical)

\* Shift is never applied to an empty list (it would dereference a nil node),
\* although several woken workers may compete for one task, and it removes the
\* very node whose value was copied.
ShiftSafe ==
    \A w \in Workers :
        /\ At(w, "shift") => tasks # <<>>
        /\ At(w, "remove") => tasks # <<>> /\ t[w] = Head(tasks)

\* A worker about to sleep still sees an empty list: no submission slipped in
\* between its Len() test and its Wait.
SleepOnEmpty == \A w \in Workers : At(w, "wait") => tasks = <<>>

\* Workers that will look at the list without being signalled again.
Fetchers == {w \in Workers : pc[w] \in {"lock", "len", "woken", "shift", "remove"}}
\* Submissions in the list whose Signal is still to come.
Unsignalled == {th \in Threads : pc[th] = "qsignal"}

\* No lost wakeup: as long as a worker sleeps, every queued task is matched by
\* another worker already on its way to the list, or by a signal about to be
\* sent.  One Signal per Push is enough, even when signals come in bursts and
\* wakeups are spurious.
WorkConserving ==
    Sleepers # {} =>
        Len(tasks) <= Cardinality(Fetchers) + Cardinality(Unsignalled)

\* The scheduler implements the FIFO task queue: each submission is executed
\* exactly once, by one worker, in submission order.
TQ == INSTANCE TaskQueue WITH
        queue <- tasks,
        running <- [w \in Workers |-> IF pc[w] = "remove" THEN NoTask ELSE t[w]]
RefinesTaskQueue == TQ!TQSpec

\* Once the program stops submitting, the list is drained and every worker
\* ends up asleep: nothing is stranded in the queue by a missed signal.
NoMoreCalls == <>[][\A th \in Threads, s \in Tasks : ~CallQueueTask(th, s)]_vars
Drains == NoMoreCalls => <>[](tasks = <<>>)
=============================================================================
