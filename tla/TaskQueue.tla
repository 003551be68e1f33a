----------------------------- MODULE TaskQueue -----------------------------
(***************************************************************************)
(* What the coroutine scheduler promises its clients: submitted state      *)
(* machines wait in one FIFO queue, each submission is handed to exactly   *)
(* one worker thread, and a worker runs one state machine at a time.       *)
(* Nothing is said of mutexes, condition variables or program counters.    *)
(***************************************************************************)
EXTENDS Sequences

CONSTANTS
    Workers,    \* the worker threads
    Tasks,      \* state machines (sm.StateMachine values)
    NoTask      \* "not running anything"

ASSUME NoTaskAssumption == NoTask \notin Tasks

VARIABLES
    queue,      \* submissions not yet taken, oldest first
    running     \* running[w]: the state machine worker w executes

TQvars == <<queue, running>>

TQInit == /\ queue = <<>>
          /\ running = [w \in Workers |-> NoTask]

\* Any thread submits t; the same state machine may be submitted again.
Submit(t) == /\ queue' = Append(queue, t)
             /\ UNCHANGED running

\* A free worker takes the oldest submission.
Take(w) == /\ running[w] = NoTask
           /\ queue # <<>>
           /\ running' = [running EXCEPT ![w] = Head(queue)]
           /\ queue' = Tail(queue)

\* StepNext returned false: the worker is free again.
Finish(w) == /\ running[w] # NoTask
             /\ running' = [running EXCEPT ![w] = NoTask]
             /\ UNCHANGED queue

TQNext == \/ \E t \in Tasks : Submit(t)
          \/ \E w \in Workers : Take(w) \/ Finish(w)

TQSpec == TQInit /\ [][TQNext]_TQvars
=============================================================================
