------------------------------- MODULE Coro -------------------------------
(***************************************************************************)
(* Coroutines: what the compiler emits for an async call, an await and a   *)
(* return (compiler/ast/coro.go, function.go, ast.go), together with       *)
(* TryQueueContinuous of runtime/coro/coro.calc and the hand written       *)
(* state machines of coro.Run and of libuv's Delay.  The scheduler appears *)
(* as the FIFO TaskQueue it implements (module Scheduler), with as many    *)
(* workers as one likes: the runtime starts one per CPU.                   *)
(*                                                                         *)
(* A function is of one of four kinds:                                     *)
(*   async   a compiled async function: calls, awaits and branches         *)
(*   io      a libuv AsyncGen: StepNext only registers an event-loop job,  *)
(*           the loop thread completes the machine later                   *)
(*   stream  as io, but the loop may complete the machine again: the read  *)
(*           callback of ReadBufAsync keeps data.task when nread <= 0      *)
(*   job     a coro.Run AsyncGen: StepNext runs the job and returns false  *)
(* Every call allocates a frame, the state machine ("machine") of that     *)
(* call; Tasks is the pool frames are allocated from.                      *)
(***************************************************************************)
EXTENDS TaskQueue, Naturals, FiniteSets

CONSTANTS
    Funs,       \* the functions of the program
    Kind,       \* Kind[f]: "async", "io", "stream" or "job"
    Body,       \* Body[f]: the statements of an async function, see Program
    FunOf,      \* FunOf[c]: the function frame c is for
    Roots,      \* frames of the calls made by the main thread
    UV,         \* the event-loop thread
    NoThread

Threads == Workers \union {UV}

(***************************************************************************)
(* "call" calls the function of, "await" awaits the machine made by the    *)
(* call statement of, "branch" goes to the statement of or to the next.    *)
(***************************************************************************)
Statement == [op : {"call"}, of : Funs] \union [op : {"await", "branch"}, of : Nat]

Program ==
    /\ Kind \in [Funs -> {"async", "io", "stream", "job"}]
    /\ Body \in [Funs -> Seq(Statement)]
    /\ \A f \in Funs : \A i \in 1..Len(Body[f]) :
          /\ Body[f][i].op = "await" => /\ Body[f][i].of \in 1..Len(Body[f])
                                        /\ Body[f][Body[f][i].of].op = "call"
          /\ Body[f][i].op = "branch" => Body[f][i].of \in 1..(Len(Body[f]) + 1)

ASSUME CoroAssumption ==
    /\ UV \notin Workers /\ NoThread \notin Threads
    /\ Program
    /\ FunOf \in [Tasks -> Funs]
    /\ Roots \subseteq Tasks

VARIABLES
    made,       \* frames allocated so far
    by,         \* by[d]: <<c, i>> when call statement i of c made d
    kid,        \* kid[c][i]: frame variable of c, what call statement i made last
    block,      \* block[c]: saved address of the block StepNext jumps to
    nextTask,   \* nextTask[c]: the machine to queue when c is done
    done,       \* done[c]
    result,     \* result[c]: the return value field has been stored
    lock,       \* lock[c]: holder of c's mutex
    armed,      \* armed[c]: callbacks the loop may still run for c
    pc,         \* pc[th]
    at,         \* at[w]: statement the worker executes
    b,          \* b[w]: what IsDone returned in the current await
    op,         \* op[w]: the machine the current await is for
    st          \* st[th]: machine th completes with TryQueueContinuous

heap == <<made, by, kid>>
frame == <<block, nextTask, done, result, lock>>
local == <<pc, at, b, op, st>>
vars == <<queue, running, heap, frame, armed, local>>

KindOf(c) == Kind[FunOf[c]]
Code(c) == Body[FunOf[c]]

(***************************************************************************)
(* A block address is the index of the first statement of the block; the   *)
(* return follows the last statement and .exit follows the return.         *)
(***************************************************************************)
Return(c) == Len(Code(c)) + 1
Exit(c) == Len(Code(c)) + 2

\* The frame variables for the machines c makes, all unset
NoKids(c) == [i \in 1..Len(Code(c)) |-> NoTask]

Goto(th, l) == pc' = [pc EXCEPT ![th] = l]
At(th, l) == pc[th] = l

Init ==
    /\ TQInit
    /\ made = {}
    /\ by = [c \in Tasks |-> NoTask]
    /\ kid = [c \in Tasks |-> NoKids(c)]
    /\ block = [c \in Tasks |-> 1]
    /\ nextTask = [c \in Tasks |-> NoTask]
    /\ done = [c \in Tasks |-> FALSE]
    /\ result = [c \in Tasks |-> FALSE]
    /\ lock = [c \in Tasks |-> NoThread]
    /\ armed = [c \in Tasks |-> 0]
    /\ pc = [th \in Threads |-> "idle"]
    /\ at = [w \in Workers |-> 0]
    /\ b = [w \in Workers |-> FALSE]
    /\ op = [w \in Workers |-> NoTask]
    /\ st = [th \in Threads |-> NoTask]

-----------------------------------------------------------------------------
(* Calls.  The callee's frame is allocated in its initial state and the    *)
(* machine is queued at once, whether or not it is awaited later.          *)

Create(d) ==
    /\ d \notin made
    /\ made' = made \union {d}
    /\ Submit(d)

MainCall(d) ==
    /\ Create(d)
    /\ UNCHANGED <<by, kid, frame, armed, local>>

-----------------------------------------------------------------------------
(* The worker loop: take a machine, call StepNext until it returns false.  *)

TakeMachine(w) ==
    /\ At(w, "idle") /\ Take(w)
    /\ Goto(w, "step")
    /\ UNCHANGED <<heap, frame, armed, at, b, op, st>>

\* StepNext returned false: its locals are gone
Leave(w) ==
    /\ Finish(w) /\ Goto(w, "idle")
    /\ at' = [at EXCEPT ![w] = 0] /\ b' = [b EXCEPT ![w] = FALSE]

\* StepNext of a compiled machine: indirectbr to the saved block
StepNext(w) ==
    /\ At(w, "step") /\ KindOf(running[w]) = "async"
    /\ at' = [at EXCEPT ![w] = block[running[w]]]
    /\ Goto(w, "body")
    /\ UNCHANGED <<queue, running, heap, frame, armed, b, op, st>>

MaxCallbacks == 2   \* bound: callbacks that find a stream's data.task set

\* StepNext of an AsyncGen: ag.f() queues the event-loop job
StepIO(w) ==
    /\ At(w, "step") /\ KindOf(running[w]) \in {"io", "stream"}
    /\ armed' = [armed EXCEPT ![running[w]] =
                    IF KindOf(running[w]) = "io" THEN 1 ELSE MaxCallbacks]
    /\ Leave(w)
    /\ UNCHANGED <<heap, frame, op, st>>

\* StepNext of a coro.Run AsyncGen: the job runs, its value is kept
StepJob(w) ==
    /\ At(w, "step") /\ KindOf(running[w]) = "job"
    /\ result' = [result EXCEPT ![running[w]] = TRUE]
    /\ Leave(w)
    /\ UNCHANGED <<heap, block, nextTask, done, lock, armed, op, st>>

\* block .exit: ret false
StepExit(w) ==
    /\ At(w, "body") /\ at[w] = Exit(running[w])
    /\ Leave(w)
    /\ UNCHANGED <<heap, frame, armed, op, st>>

InBody(w, o) ==
    /\ At(w, "body")
    /\ at[w] <= Len(Code(running[w]))
    /\ Code(running[w])[at[w]].op = o

Target(w) == Code(running[w])[at[w]].of

\* The frame is new and is kept in the caller's frame variable.
CallAsync(w) ==
    /\ InBody(w, "call")
    /\ \E d \in Tasks \ Roots :
          /\ FunOf[d] = Target(w)
          /\ Create(d)
          /\ by' = [by EXCEPT ![d] = <<running[w], at[w]>>]
          /\ kid' = [kid EXCEPT ![running[w]][at[w]] = d]
    /\ at' = [at EXCEPT ![w] = @ + 1]
    /\ UNCHANGED <<frame, armed, pc, b, op, st>>

\* A conditional or a loop inside the body (module ControlFlow)
Branch(w) ==
    /\ InBody(w, "branch")
    /\ \E i \in {Target(w), at[w] + 1} : at' = [at EXCEPT ![w] = i]
    /\ UNCHANGED <<queue, running, heap, frame, armed, pc, b, op, st>>

-----------------------------------------------------------------------------
(* await: LockST; IsDone; if not done set the child's nextTask; UnLockST;  *)
(* save the block to resume at; return IsDone's value.  The frame variable *)
(* holding the child is loaded at the beginning.                           *)

AwaitMachine(w) == kid[running[w]][Target(w)]

\* mutant: the child is tested without its mutex
AwaitLock_NoMutex(w) ==
    /\ InBody(w, "await") /\ AwaitMachine(w) # NoTask
    /\ op' = [op EXCEPT ![w] = AwaitMachine(w)]
    /\ Goto(w, "adone")
    /\ UNCHANGED <<queue, running, heap, frame, armed, at, b, st>>

\* mutant: the awaited machine is queued (again) by await
AwaitLock_Queues(w) ==
    /\ InBody(w, "await") /\ AwaitMachine(w) # NoTask
    /\ lock[AwaitMachine(w)] = NoThread
    /\ lock' = [lock EXCEPT ![AwaitMachine(w)] = w]
    /\ op' = [op EXCEPT ![w] = AwaitMachine(w)]
    /\ Submit(AwaitMachine(w))
    /\ Goto(w, "adone")
    /\ UNCHANGED <<heap, block, nextTask, done, result, armed, at, b, st>>

AwaitLock(w) ==
    /\ InBody(w, "await") /\ AwaitMachine(w) # NoTask
    /\ lock[AwaitMachine(w)] = NoThread
    /\ lock' = [lock EXCEPT ![AwaitMachine(w)] = w]
    /\ op' = [op EXCEPT ![w] = AwaitMachine(w)]
    /\ Goto(w, "adone")
    /\ UNCHANGED <<queue, running, heap, block, nextTask, done, result, armed, at, b, st>>

AwaitIsDone(w) ==
    /\ At(w, "adone")
    /\ b' = [b EXCEPT ![w] = done[op[w]]]
    /\ Goto(w, "anext")
    /\ UNCHANGED <<queue, running, heap, frame, armed, at, op, st>>

AwaitSetNext(w) ==
    /\ At(w, "anext")
    /\ nextTask' = IF b[w] THEN nextTask
                   ELSE [nextTask EXCEPT ![op[w]] = running[w]]
    /\ Goto(w, "aunlock")
    /\ UNCHANGED <<queue, running, heap, block, done, result, lock, armed, at, b, op, st>>

AwaitUnLock(w) ==
    /\ At(w, "aunlock")
    /\ lock' = [lock EXCEPT ![op[w]] = NoThread]
    /\ op' = [op EXCEPT ![w] = NoTask]
    /\ Goto(w, "astore")
    /\ UNCHANGED <<queue, running, heap, block, nextTask, done, result, armed, at, b, st>>

\* mutant: the saved block stays the entry block
AwaitStore_Here(w) ==
    /\ At(w, "astore")
    /\ block' = [block EXCEPT ![running[w]] = 1]
    /\ Goto(w, "aret")
    /\ UNCHANGED <<queue, running, heap, nextTask, done, result, lock, armed, at, b, op, st>>

AwaitStore(w) ==
    /\ At(w, "astore")
    /\ block' = [block EXCEPT ![running[w]] = at[w] + 1]
    /\ Goto(w, "aret")
    /\ UNCHANGED <<queue, running, heap, nextTask, done, result, lock, armed, at, b, op, st>>

\* mutant: await always continues
AwaitRet_True(w) ==
    /\ At(w, "aret")
    /\ Goto(w, "step") /\ UNCHANGED <<queue, running, at, b>>
    /\ UNCHANGED <<heap, frame, armed, op, st>>

\* true: the worker calls StepNext again; false: the machine leaves the worker
AwaitRet(w) ==
    /\ At(w, "aret")
    /\ \/ b[w] /\ Goto(w, "step") /\ UNCHANGED <<queue, running, at, b>>
       \/ ~b[w] /\ Leave(w)
    /\ UNCHANGED <<heap, frame, armed, op, st>>

-----------------------------------------------------------------------------
(* return of an async function: save .exit as the next block, store the    *)
(* result, TryQueueContinuous, return false.                               *)

\* mutant: .exit is not saved
RetStoreBlock_Dropped(w) ==
    /\ At(w, "body") /\ at[w] = Return(running[w])
    /\ Goto(w, "rresult")
    /\ UNCHANGED <<queue, running, heap, frame, armed, at, b, op, st>>

RetStoreBlock(w) ==
    /\ At(w, "body") /\ at[w] = Return(running[w])
    /\ block' = [block EXCEPT ![running[w]] = Exit(running[w])]
    /\ Goto(w, "rresult")
    /\ UNCHANGED <<queue, running, heap, nextTask, done, result, lock, armed, at, b, op, st>>

\* mutant: the machine is completed without its result
RetStoreResult_Dropped(w) ==
    /\ At(w, "rresult")
    /\ st' = [st EXCEPT ![w] = running[w]]
    /\ Goto(w, "tlock")
    /\ UNCHANGED <<queue, running, heap, frame, armed, at, b, op>>

RetStoreResult(w) ==
    /\ At(w, "rresult")
    /\ result' = [result EXCEPT ![running[w]] = TRUE]
    /\ st' = [st EXCEPT ![w] = running[w]]
    /\ Goto(w, "tlock")
    /\ UNCHANGED <<queue, running, heap, block, nextTask, done, lock, armed, at, b, op>>

RetFalse(w) ==
    /\ At(w, "rfalse")
    /\ Leave(w)
    /\ UNCHANGED <<heap, frame, armed, op, st>>

\* The event loop runs the callback of a registered operation.
IOCallback(c) ==
    /\ At(UV, "idle") /\ armed[c] > 0
    /\ armed' = [armed EXCEPT ![c] = @ - 1]
    /\ result' = [result EXCEPT ![c] = TRUE]
    /\ st' = [st EXCEPT ![UV] = c]
    /\ Goto(UV, "tlock")
    /\ UNCHANGED <<queue, running, heap, block, nextTask, done, lock, at, b, op>>

-----------------------------------------------------------------------------
(* TryQueueContinuous(st): Lock; SetDone; queue GetContinuous() unless it  *)
(* is nil; UnLock.  nextTask keeps its value.                              *)

TryLock(th) ==
    /\ At(th, "tlock") /\ lock[st[th]] = NoThread
    /\ lock' = [lock EXCEPT ![st[th]] = th]
    /\ Goto(th, "tdone")
    /\ UNCHANGED <<queue, running, heap, block, nextTask, done, result, armed, at, b, op, st>>

\* SetDone also clears the frame's variables; the saved block and the result
\* lie behind them and are kept.  (An AsyncGen has no such variables.)
TrySetDone(th) ==
    /\ At(th, "tdone")
    /\ done' = [done EXCEPT ![st[th]] = TRUE]
    /\ kid' = [kid EXCEPT ![st[th]] = NoKids(st[th])]
    /\ Goto(th, "tqueue")
    /\ UNCHANGED <<queue, running, made, by, block, nextTask, result, lock, armed, at, b, op, st>>

\* mutant: the continuation is forgotten when it is still on a worker
TryQueue_IfIdle(th) ==
    /\ At(th, "tqueue")
    /\ \/ /\ nextTask[st[th]] # NoTask
          /\ \A w \in Workers : running[w] # nextTask[st[th]]
          /\ Submit(nextTask[st[th]])
       \/ /\ nextTask[st[th]] = NoTask \/ \E w \in Workers : running[w] = nextTask[st[th]]
          /\ UNCHANGED TQvars
    /\ Goto(th, "tunlock")
    /\ UNCHANGED <<heap, frame, armed, at, b, op, st>>

TryQueue(th) ==
    /\ At(th, "tqueue")
    /\ \/ nextTask[st[th]] # NoTask /\ Submit(nextTask[st[th]])
       \/ nextTask[st[th]] = NoTask /\ UNCHANGED TQvars
    /\ Goto(th, "tunlock")
    /\ UNCHANGED <<heap, frame, armed, at, b, op, st>>

TryUnLock(th) ==
    /\ At(th, "tunlock")
    /\ lock' = [lock EXCEPT ![st[th]] = NoThread]
    /\ st' = [st EXCEPT ![th] = NoTask]
    /\ Goto(th, IF th = UV THEN "idle" ELSE "rfalse")
    /\ UNCHANGED <<queue, running, heap, block, nextTask, done, result, armed, at, b, op>>

-----------------------------------------------------------------------------
TryStep(th) == TryLock(th) \/ TrySetDone(th) \/ TryQueue(th) \/ TryUnLock(th)

WorkerStep(w) ==
    \/ TakeMachine(w) \/ StepNext(w) \/ StepIO(w) \/ StepJob(w) \/ StepExit(w)
    \/ CallAsync(w) \/ Branch(w)
    \/ AwaitLock(w) \/ AwaitIsDone(w) \/ AwaitSetNext(w) \/ AwaitUnLock(w)
    \/ AwaitStore(w) \/ AwaitRet(w)
    \/ RetStoreBlock(w) \/ RetStoreResult(w) \/ RetFalse(w)
    \/ TryStep(w)

UVStep == TryStep(UV) \/ \E c \in Tasks : IOCallback(c)

Next ==
    \/ \E c \in Roots : MainCall(c)
    \/ \E w \in Workers : WorkerStep(w)
    \/ UVStep

Spec == Init /\ [][Next]_vars

-----------------------------------------------------------------------------
(* Properties *)

PCs == {"idle", "step", "body", "adone", "anext", "aunlock", "astore", "aret",
        "rresult", "tlock", "tdone", "tqueue", "tunlock", "rfalse"}

\* Every variable has its type; blocks are blocks of their machine.
TypeOK ==
    /\ queue \in Seq(Tasks)
    /\ running \in [Workers -> Tasks \union {NoTask}]
    /\ made \subseteq Tasks
    /\ \A c \in Tasks : kid[c] \in [1..Len(Code(c)) -> Tasks \union {NoTask}]
    /\ \A c \in Tasks : block[c] \in 1..Exit(c)
    /\ nextTask \in [Tasks -> Tasks \union {NoTask}]
    /\ done \in [Tasks -> BOOLEAN]
    /\ result \in [Tasks -> BOOLEAN]
    /\ lock \in [Tasks -> Threads \union {NoThread}]
    /\ armed \in [Tasks -> 0..MaxCallbacks]
    /\ pc \in [Threads -> PCs]
    /\ \A w \in Workers : pc[w] \notin {"idle", "step"} => at[w] \in 1..Exit(running[w])
    /\ b \in [Workers -> BOOLEAN]
    /\ op \in [Workers -> Tasks \union {NoTask}]
    /\ st \in [Threads -> Tasks \union {NoTask}]

(***************************************************************************)
(* A stream may complete its machine more than once.  A function that      *)
(* awaits one may then be resumed more than once, and so may its callers:  *)
(* Streaming is the least set of functions with the streams and with       *)
(* whoever awaits a member.  A machine is Single if its function is not.   *)
(***************************************************************************)
AwaitsFun(f, g) == \E i \in 1..Len(Body[f]) :
                      Body[f][i].op = "await" /\ Body[f][Body[f][i].of].of = g
HasStreams(S) == /\ \A f \in Funs : Kind[f] = "stream" => f \in S
                 /\ \A f, g \in Funs : AwaitsFun(f, g) /\ g \in S => f \in S
Streaming == {f \in Funs : \A S \in SUBSET Funs : HasStreams(S) => f \in S}
Single(c) == FunOf[c] \notin Streaming

\* The worker is on its way out of an await that found its machine not done:
\* it has given the machine away with nextTask, and may find it on another worker.
Leaving(w) == pc[w] \in {"aunlock", "astore", "aret"} /\ ~b[w]

InQueue(c) == \E i \in 1..Len(queue) : queue[i] = c
Executes(w, c) == running[w] = c /\ ~Leaving(w)

\* d will queue c: d is not done, or the thread that completes it is about to.
WillQueue(d, c) ==
    /\ nextTask[d] = c
    /\ ~done[d] \/ \E th \in Threads : At(th, "tqueue") /\ st[th] = d

\* An awaiting machine goes on, or is queued to go on, only when every machine
\* it was suspended for is done and has stored its result: the GetResult behind
\* an await never runs before SetResult and SetDone of what was awaited.
AwaitIsKept(c) ==
    \A d \in Tasks :
        nextTask[d] = c /\ (InQueue(c) \/ \E w \in Workers : Executes(w, c))
            => done[d] /\ result[d]

\* So it is for a machine that awaits no stream, with any number of workers:
\* no early resumption by a completion that was not awaited last.
ResultReady == \A c \in Tasks : Single(c) => AwaitIsKept(c)

\* docs/coro.md says so of whatever is awaited, and so it is until a read is
\* completed a second time: then its awaiter, like that of the tcp test programs,
\* is resumed behind the close or write that it awaits by now.
CompletedAgain(s) == KindOf(s) = "stream" /\ done[s] /\ armed[s] <= MaxCallbacks - 2
ReadyUntilAgain == (\E s \in Tasks : CompletedAgain(s)) \/ \A c \in Tasks : AwaitIsKept(c)

\* No coroutine is forgotten, with any number of workers: until it has completed
\* it is queued, on a worker that goes on with it, or the continuation of a
\* machine that will queue it.
NoLostContinuation ==
    \A c \in made : KindOf(c) = "async" /\ ~done[c] =>
        \/ InQueue(c)
        \/ \E w \in Workers : Executes(w, c)
        \/ \E d \in Tasks : WillQueue(d, c)

\* A machine is queued at most once, and never while a worker executes its
\* body: only one that has released the child's mutex, on its way out of an
\* unfinished await, may already be back in the queue.  Nor do two workers
\* execute one body.  Machines that await a stream are excepted: each
\* completion of the read queues them.
QueuedOnce ==
    \A c \in Tasks : Single(c) =>
        /\ \A i, j \in 1..Len(queue) : queue[i] = c /\ queue[j] = c => i = j
        /\ \A w \in Workers : Executes(w, c) => ~InQueue(c)
        /\ \A v, w \in Workers : Executes(v, c) /\ Executes(w, c) => v = w

\* What a completed machine still does: the rest of TryQueueContinuous, and the
\* late stores of workers that left it at an await.  It executes no statement
\* of its cleared frame and does not return again, although a late store may
\* have put the address of an earlier block back over .exit.
NotAfterReturn ==
    \A w \in Workers :
        running[w] # NoTask /\ Single(running[w]) /\ done[running[w]] =>
            Leaving(w) \/ pc[w] \in {"tqueue", "tunlock", "rfalse"}

\* Every statement of an async function without branches is executed once:
\* awaiting suspends the function and resumes it behind the await.
StatementsRunOnce ==
    \A d, e \in Tasks : by[d] # NoTask /\ by[d] = by[e] => d = e

\* A completed machine is stepped again only into .exit: it does not return,
\* and queue its continuation, a second time.
ReturnsOnce ==
    \A w \in Workers : pc[w] \in {"rresult", "tlock", "tdone"} => ~done[running[w]]

\* Functions that wait for a job: the StepNext of coro.Run's AsyncGen completes
\* nothing, so whoever awaits one is never queued again, nor are its callers.
Stranded == {f \in Funs : \A S \in SUBSET Funs :
                /\ \A g \in Funs : Kind[g] = "job" => g \in S
                /\ \A g, h \in Funs : AwaitsFun(g, h) /\ h \in S => g \in S
                => f \in S}

\* Every other async function that was called completes, whatever it awaits.
CallsComplete ==
    \A c \in Tasks : KindOf(c) = "async" /\ FunOf[c] \notin Stranded =>
        (c \in made ~> done[c])
=============================================================================
