------------------------------- MODULE MCCoro -------------------------------
(***************************************************************************)
(* Programs for TLC: async functions given as their calls, awaits and      *)
(* branches.  Exec starts one worker per CPU (get_available_parallelism);  *)
(* a setup says which workers there are and which calls main makes.        *)
(***************************************************************************)
EXTENDS Coro, TLC

CONSTANTS w1, w2, f1, g1, g2, h1, k1, l1, x1, x2, x3, c1, r1, j1
CONSTANT Setups     \* a set of [cpus : SUBSET Workers, calls : SUBSET Roots]

VARIABLE setup

call(f) == [op |-> "call", of |-> f]
await(i) == [op |-> "await", of |-> i]
branch(i) == [op |-> "branch", of |-> i]

MCFuns == {"f", "g", "h", "k", "l", "delay", "timer", "close", "read", "run"}
MCKind == [f \in MCFuns |->
    CASE f \in {"delay", "timer", "close"} -> "io"
      [] f = "read" -> "stream"
      [] f = "run" -> "job"
      [] OTHER -> "async"]
MCFunOf == [c \in Tasks |->
    CASE c = f1 -> "f"
      [] c \in {g1, g2} -> "g"
      [] c = h1 -> "h"
      [] c = k1 -> "k"
      [] c = l1 -> "l"
      [] c = x1 -> "timer"
      [] c \in {x2, x3} -> "delay"
      [] c = c1 -> "close"
      [] c = r1 -> "read"
      [] OTHER -> "run"]

\* f starts a timer and g and awaits both, g first, so that the timer may fire
\* while f awaits it; g awaits a timer of its own; h awaits a job, as in
\* docs/coro.md; k reads and then closes, as test/tcpclient does; l calls and
\* awaits g, again and again.
MCBody == [a \in MCFuns |->
    CASE a = "f" -> <<call("timer"), call("g"), await(2), await(1)>>
      [] a = "g" -> <<call("delay"), await(1)>>
      [] a = "h" -> <<call("run"), await(1)>>
      [] a = "k" -> <<call("read"), await(1), call("close"), await(3)>>
      [] a = "l" -> <<call("g"), await(1), branch(1)>>
      [] OTHER -> <<>>]

Setup(cpus, calls) == [cpus |-> cpus, calls |-> calls]

\* f and k, or f and h, on one CPU; l, or h and k, on two
MCSetups == {Setup({w1}, {f1, k1}), Setup({w1}, {f1, h1}),
             Setup({w1, w2}, {l1}), Setup({w1, w2}, {h1, k1})}

\* f on two CPUs
RaceSetup == {Setup({w1, w2}, {f1})}

MCInit == Init /\ setup \in Setups

MCNext ==
    /\ \/ \E c \in setup.calls : MainCall(c)
       \/ \E w \in setup.cpus : WorkerStep(w)
       \/ UVStep
    /\ UNCHANGED setup

\* Workers and the event loop keep running (native threads), the events that io
\* machines wait for do happen, and main gets to its calls.
MCFairness ==
    /\ \A c \in Roots : WF_vars(c \in setup.calls /\ MainCall(c))
    /\ \A w \in Workers : WF_vars(w \in setup.cpus /\ WorkerStep(w))
    /\ WF_vars(TryStep(UV))
    /\ \A c \in Tasks : WF_vars(IOCallback(c))

MCSpec == MCInit /\ [][MCNext]_<<vars, setup>>
MCFairSpec == MCSpec /\ MCFairness

OneCPU == setup.cpus = {w1}

\* On one CPU every statement of an async function without branches is executed
\* once: awaiting suspends the function and resumes it behind the await.
StatementsOnOneCPU == OneCPU => StatementsRunOnce

\* On one CPU no machine returns twice, also one that awaits a stream: whatever
\* steps it again after its return comes to .exit.
ReturnsOnOneCPU == OneCPU => ReturnsOnce

\* On one CPU every async function that was called completes, unless it waits for
\* a job of coro.Run: no completion is missed, whatever the order of timers,
\* callbacks and awaits.
CompleteOnOneCPU == OneCPU => CallsComplete
=============================================================================
