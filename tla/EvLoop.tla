------------------------------- MODULE EvLoop -------------------------------
(***************************************************************************)
(* runtime/libuv: StartUVLoop (uv.calc) and QueueEvJob (evqueue.calc).     *)
(* main starts the loop thread and waits for it; the loop thread           *)
(* initialises the async handle, reports to main from an idle callback and *)
(* then drains the list of jobs whenever the async handle was signalled.   *)
(* Other threads hand jobs to the loop with QueueEvJob.                    *)
(*                                                                         *)
(* uv_async_send coalesces: it sets one pending flag, which the loop       *)
(* clears before it calls the callback.  On a handle that uv_async_init    *)
(* has not seen it dereferences a null loop: the program crashes.          *)
(***************************************************************************)
EXTENDS Integers, Sequences, FiniteSets

CONSTANTS
    Callers,    \* threads that call QueueEvJob once main runs
    Jobs,       \* the closures handed to QueueEvJob, each handed over once
    Loop,       \* the loop thread
    Main,       \* the main thread
    NoJob,
    NoThread

Threads == Callers \union {Loop, Main}

ASSUME LoopAssumption ==
    /\ Loop \notin Callers /\ Main \notin Callers /\ Loop # Main
    /\ NoThread \notin Threads
    /\ NoJob \notin Jobs

VARIABLES
    evlist,     \* jobs not yet taken by the loop
    evmu,       \* holder of evmu
    mu,         \* holder of StartUVLoop's mutex
    inited,     \* uv_async_init has been called
    pending,    \* the async handle was signalled
    idle,       \* the idle handle is active
    crashed,
    pc,         \* pc[th]
    job,        \* f of the async callback
    arg,        \* arg[th]: the job th hands over
    sent        \* jobs already handed to QueueEvJob

vars == <<evlist, evmu, mu, inited, pending, idle, crashed, pc, job, arg, sent>>
handshake == <<mu, inited, idle>>
jobs == <<evlist, evmu, pending, job, arg, sent>>

At(th, l) == ~crashed /\ pc[th] = l
Goto(th, l) == pc' = [pc EXCEPT ![th] = l]

Init ==
    /\ evlist = <<>> /\ evmu = NoThread /\ mu = NoThread
    /\ inited = FALSE /\ pending = FALSE /\ idle = FALSE /\ crashed = FALSE
    /\ pc = [th \in Threads |-> IF th = Main THEN "start" ELSE "new"]
    /\ job = NoJob
    /\ arg = [th \in Callers |-> NoJob]
    /\ sent = {}

-----------------------------------------------------------------------------
(* StartUVLoop on the main thread: thread.New; Lock; Wait; UnLock.         *)

StartThread ==
    /\ At(Main, "start") /\ At(Loop, "new")
    /\ pc' = [pc EXCEPT ![Main] = "lock", ![Loop] = "init"]
    /\ UNCHANGED <<handshake, jobs, crashed>>

MainLock ==
    /\ At(Main, "lock") /\ mu = NoThread
    /\ mu' = Main /\ Goto(Main, "wait")
    /\ UNCHANGED <<inited, idle, jobs, crashed>>

MainWait ==
    /\ At(Main, "wait")
    /\ mu' = NoThread /\ Goto(Main, "asleep")
    /\ UNCHANGED <<inited, idle, jobs, crashed>>

MainSpuriousWakeup ==
    /\ At(Main, "asleep") /\ Goto(Main, "woken")
    /\ UNCHANGED <<handshake, jobs, crashed>>

MainRelock ==
    /\ At(Main, "woken") /\ mu = NoThread
    /\ mu' = Main /\ Goto(Main, "unlock")
    /\ UNCHANGED <<inited, idle, jobs, crashed>>

\* StartUVLoop returns and the program's main is called; what it and the
\* machines it starts do here is call QueueEvJob
MainUnLock ==
    /\ At(Main, "unlock")
    /\ mu' = NoThread
    /\ pc' = [th \in Threads |-> IF th = Main THEN "main" ELSE
                                 IF th \in Callers THEN "client" ELSE pc[th]]
    /\ UNCHANGED <<inited, idle, jobs, crashed>>

-----------------------------------------------------------------------------
(* The loop thread up to uv_run, and the idle callback.                    *)

AsyncInit ==
    /\ At(Loop, "init")
    /\ inited' = TRUE /\ Goto(Loop, "istart")
    /\ UNCHANGED <<mu, idle, jobs, crashed>>

IdleStart ==
    /\ At(Loop, "istart")
    /\ idle' = TRUE /\ Goto(Loop, "poll")
    /\ UNCHANGED <<mu, inited, jobs, crashed>>

IdleLock ==
    /\ At(Loop, "poll") /\ idle /\ mu = NoThread
    /\ mu' = Loop /\ Goto(Loop, "isignal")
    /\ UNCHANGED <<inited, idle, jobs, crashed>>

IdleSignal ==
    /\ At(Loop, "isignal")
    /\ pc' = [pc EXCEPT ![Loop] = "iunlock",
                        ![Main] = IF @ = "asleep" THEN "woken" ELSE @]
    /\ UNCHANGED <<handshake, jobs, crashed>>

IdleUnLock ==
    /\ At(Loop, "iunlock")
    /\ mu' = NoThread /\ Goto(Loop, "istop")
    /\ UNCHANGED <<inited, idle, jobs, crashed>>

IdleStop ==
    /\ At(Loop, "istop")
    /\ idle' = FALSE /\ Goto(Loop, "poll")
    /\ UNCHANGED <<mu, inited, jobs, crashed>>

-----------------------------------------------------------------------------
(* QueueEvJob: Lock; Push; UnLock; uv_async_send.                          *)

CallQueueEvJob(th, f) ==
    /\ At(th, "client") /\ f \notin sent
    /\ sent' = sent \union {f}
    /\ arg' = [arg EXCEPT ![th] = f]
    /\ Goto(th, "qlock")
    /\ UNCHANGED <<handshake, evlist, evmu, pending, job, crashed>>

\* mutant: the list is not locked
EvLock_NoMutex(th) ==
    /\ At(th, "qlock")
    /\ Goto(th, "qpush")
    /\ UNCHANGED <<handshake, jobs, crashed>>

\* mutant: the closure is released before it is pushed
EvLock_DropsArg(th) ==
    /\ At(th, "qlock") /\ evmu = NoThread
    /\ evmu' = th /\ Goto(th, "qpush")
    /\ arg' = [arg EXCEPT ![th] = NoJob]
    /\ UNCHANGED <<handshake, evlist, pending, job, sent, crashed>>

EvLock(th) ==
    /\ At(th, "qlock") /\ evmu = NoThread
    /\ evmu' = th /\ Goto(th, "qpush")
    /\ UNCHANGED <<handshake, evlist, pending, job, arg, sent, crashed>>

EvPush(th) ==
    /\ At(th, "qpush")
    /\ evlist' = Append(evlist, arg[th])
    /\ Goto(th, "qunlock")
    /\ UNCHANGED <<handshake, evmu, pending, job, arg, sent, crashed>>

EvUnLock(th) ==
    /\ At(th, "qunlock")
    /\ evmu' = NoThread /\ Goto(th, "qsend")
    /\ UNCHANGED <<handshake, evlist, pending, job, arg, sent, crashed>>

\* mutant: only a list that was empty is announced
AsyncSend_IfFirst(th) ==
    /\ At(th, "qsend")
    /\ pending' = (pending \/ (inited /\ Len(evlist) = 1))
    /\ crashed' = ~inited
    /\ arg' = [arg EXCEPT ![th] = NoJob]
    /\ Goto(th, "client")
    /\ UNCHANGED <<handshake, evlist, evmu, job, sent>>

AsyncSend(th) ==
    /\ At(th, "qsend")
    /\ pending' = inited
    /\ crashed' = ~inited
    /\ arg' = [arg EXCEPT ![th] = NoJob]
    /\ Goto(th, "client")
    /\ UNCHANGED <<handshake, evlist, evmu, job, sent>>

-----------------------------------------------------------------------------
(* The async callback: Lock; while Len()>0 run Shift(); UnLock.  The list  *)
(* stays locked while a job runs.                                          *)

AsyncCallback ==
    /\ At(Loop, "poll") /\ ~idle /\ pending
    /\ pending' = FALSE /\ Goto(Loop, "cblock")
    /\ UNCHANGED <<handshake, evlist, evmu, job, arg, sent, crashed>>

DrainLock ==
    /\ At(Loop, "cblock") /\ evmu = NoThread
    /\ evmu' = Loop /\ Goto(Loop, "len")
    /\ UNCHANGED <<handshake, evlist, pending, job, arg, sent, crashed>>

DrainLen ==
    /\ At(Loop, "len")
    /\ \/ Len(evlist) > 0 /\ Goto(Loop, "shift")
       \/ Len(evlist) = 0 /\ Goto(Loop, "cbunlock")
    /\ UNCHANGED <<handshake, jobs, crashed>>

\* mutant: the newest job is taken
DrainShift_Last ==
    /\ At(Loop, "shift")
    /\ job' = evlist[Len(evlist)] /\ Goto(Loop, "remove")
    /\ UNCHANGED <<handshake, evlist, evmu, pending, arg, sent, crashed>>

DrainShift ==
    /\ At(Loop, "shift")
    /\ job' = Head(evlist) /\ Goto(Loop, "remove")
    /\ UNCHANGED <<handshake, evlist, evmu, pending, arg, sent, crashed>>

DrainRemove ==
    /\ At(Loop, "remove")
    /\ evlist' = Tail(evlist) /\ Goto(Loop, "job")
    /\ UNCHANGED <<handshake, evmu, pending, job, arg, sent, crashed>>

\* mutant: one job per callback
DrainRun_One ==
    /\ At(Loop, "job")
    /\ job' = NoJob /\ Goto(Loop, "cbunlock")
    /\ UNCHANGED <<handshake, evlist, evmu, pending, arg, sent, crashed>>

\* f(): registers a handle or a request with the loop, or completes a machine
DrainRun ==
    /\ At(Loop, "job")
    /\ job' = NoJob /\ Goto(Loop, "len")
    /\ UNCHANGED <<handshake, evlist, evmu, pending, arg, sent, crashed>>

DrainUnLock ==
    /\ At(Loop, "cbunlock")
    /\ evmu' = NoThread /\ Goto(Loop, "poll")
    /\ UNCHANGED <<handshake, evlist, pending, job, arg, sent, crashed>>

-----------------------------------------------------------------------------
MainStep == StartThread \/ MainLock \/ MainWait \/ MainRelock \/ MainUnLock

LoopStep ==
    \/ AsyncInit \/ IdleStart \/ IdleLock \/ IdleSignal \/ IdleUnLock \/ IdleStop
    \/ AsyncCallback \/ DrainLock \/ DrainLen \/ DrainShift \/ DrainRemove
    \/ DrainRun \/ DrainUnLock

CallerStep(th) == EvLock(th) \/ EvPush(th) \/ EvUnLock(th) \/ AsyncSend(th)

Next ==
    \/ MainStep \/ MainSpuriousWakeup
    \/ LoopStep
    \/ \E th \in Callers : (\E f \in Jobs : CallQueueEvJob(th, f)) \/ CallerStep(th)

Spec == Init /\ [][Next]_vars

\* The kernel runs every thread that can run; nothing promises a wakeup
\* without a signal, nor that anybody calls QueueEvJob.
Fairness == /\ WF_vars(MainStep) /\ WF_vars(LoopStep)
            /\ \A th \in Callers : WF_vars(CallerStep(th))

FairSpec == Spec /\ Fairness

-----------------------------------------------------------------------------
(* Properties *)

PCs == {"start", "new", "lock", "wait", "asleep", "woken", "unlock", "main", "init",
        "istart", "poll", "isignal", "iunlock", "istop", "client", "qlock", "qpush",
        "qunlock", "qsend", "cblock", "len", "shift", "remove", "job", "cbunlock"}

\* Every variable has its type.
TypeOK ==
    /\ evlist \in Seq(Jobs)
    /\ evmu \in Callers \union {Loop, NoThread}
    /\ mu \in {Main, Loop, NoThread}
    /\ {inited, pending, idle, crashed} \subseteq BOOLEAN
    /\ pc \in [Threads -> PCs]
    /\ job \in Jobs \union {NoJob}
    /\ arg \in [Callers -> Jobs \union {NoJob}]
    /\ sent \subseteq Jobs

Draining == {"len", "shift", "remove", "job"}

\* No job is stranded: one that waits in the list is covered by a signal that
\* is pending or about to be sent, or by a callback that will still look at the
\* list, although sends coalesce and jobs arrive while the loop drains.
NoJobStranded ==
    evlist # <<>> =>
        \/ pending
        \/ \E th \in Callers : pc[th] \in {"qunlock", "qsend"}
        \/ pc[Loop] \in Draining \union {"cblock"}
        \/ crashed

\* The list is only touched under evmu, so the callback's Shift removes the node
\* whose job it took, and never finds an empty list.
DrainSafe ==
    /\ pc[Loop] = "shift" => evlist # <<>>
    /\ pc[Loop] = "remove" => evlist # <<>> /\ job = Head(evlist)
    /\ \A th \in Callers : pc[th] \in {"qpush", "qunlock"} =>
          evmu = th /\ pc[Loop] \notin Draining \union {"cbunlock"}

\* Jobs run on the loop thread one at a time, each exactly once, in the order
\* in which they entered the list.
JQ == INSTANCE TaskQueue WITH
        Workers <- {Loop}, Tasks <- Jobs, NoTask <- NoJob,
        queue <- evlist,
        running <- [w \in {Loop} |-> IF pc[w] = "remove" THEN NoJob ELSE job]
RefinesJobQueue == JQ!TQSpec

\* A job that was handed over is eventually run.
JobsRun == \A f \in Jobs :
    (\E i \in 1..Len(evlist) : evlist[i] = f) ~> (job = f \/ crashed)

\* The program's main runs once the loop is started.
MainStarts == <>(pc[Main] = "main")
=============================================================================
