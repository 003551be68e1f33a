----------------------------- MODULE CoroProofs -----------------------------
(***************************************************************************)
(* Proofs about Coro, for every program and any number of workers and      *)
(* machines.                                                               *)
(*                                                                         *)
(* The inductive invariant Inv is in two halves.  Of every machine: types, *)
(* where a thread can be and what its locals hold there, who holds a mutex *)
(* (Safe), that a machine is awaited by the machine that made it (Owned),  *)
(* that .exit is saved by a return (ExitMeans), and that it is not lost.   *)
(* Of a machine that awaits no stream: it is in one place, and completes   *)
(* once (Once).  The machine is a token: queueing, taking, suspending at   *)
(* an await (AwaitSetNext hands it to the awaited machine) and completing  *)
(* that one move it.  The block it resumes at plays no part, and so a late *)
(* store of a worker that has given the machine away does no harm here;    *)
(* what it does harm is run coro_two_workers.                              *)
(***************************************************************************)
EXTENDS Coro, SequenceTheorems, TLAPS

\* Labels of an await, of TryQueueContinuous and of a return.
LockPCs == {"adone", "anext", "aunlock"}
AwaitPCs == LockPCs \union {"astore", "aret"}
TryPCs == {"tlock", "tdone", "tqueue", "tunlock"}
RetPCs == {"rresult", "rfalse"} \union TryPCs

-----------------------------------------------------------------------------
(* What holds of every machine. *)

\* The types of the variables, and blocks are blocks of their machine.
Typed ==
    /\ queue \in Seq(Tasks) /\ running \in [Workers -> Tasks \union {NoTask}]
    /\ made \subseteq Tasks /\ DOMAIN by = Tasks
    /\ kid = [c \in Tasks |-> kid[c]]
    /\ \A c \in Tasks : kid[c] \in [1..Len(Code(c)) -> Tasks \union {NoTask}]
    /\ armed \in [Tasks -> 0..MaxCallbacks]
    /\ block \in [Tasks -> Nat] /\ at \in [Workers -> Nat]
    /\ nextTask \in [Tasks -> Tasks \union {NoTask}]
    /\ done \in [Tasks -> BOOLEAN] /\ result \in [Tasks -> BOOLEAN]
    /\ lock \in [Tasks -> Threads \union {NoThread}]
    /\ pc \in [Threads -> PCs] /\ b \in [Workers -> BOOLEAN]
    /\ op \in [Workers -> Tasks \union {NoTask}]
    /\ st \in [Threads -> Tasks \union {NoTask}]

Ranges ==
    /\ \A c \in Tasks : block[c] \in 1..Exit(c)
    /\ \A w \in Workers : pc[w] \notin {"idle", "step"} => at[w] \in 1..Exit(running[w])

\* Where threads can be, and what their locals hold there.
LocalsOK ==
    /\ pc[UV] \in {"idle"} \union TryPCs
    /\ st[UV] # NoTask => KindOf(st[UV]) \in {"io", "stream"}
    /\ \A th \in Threads : pc[th] \in TryPCs <=> st[th] # NoTask
    /\ \A w \in Workers :
          /\ pc[w] = "idle" <=> running[w] = NoTask
          /\ pc[w] \notin {"idle", "step"} => KindOf(running[w]) = "async"
          /\ pc[w] \in AwaitPCs => at[w] \in 1..Len(Code(running[w]))
          /\ pc[w] \in LockPCs => op[w] # NoTask
          /\ st[w] # NoTask => st[w] = running[w]
    /\ \A c \in Tasks : armed[c] > 0 => KindOf(c) \in {"io", "stream"}

\* Who holds the mutex of a machine; what IsDone returned holds until UnLockST.
LockHeld ==
    /\ \A w \in Workers : pc[w] \in LockPCs => lock[op[w]] = w
    /\ \A th \in Threads : pc[th] \in {"tdone", "tqueue", "tunlock"} => lock[st[th]] = th
    /\ \A w \in Workers : pc[w] = "anext" /\ ~b[w] => ~done[op[w]]

\* The result is stored before the machine is done, which it is before its
\* continuation is queued.
ResultFirst ==
    /\ \A c \in Tasks : done[c] => result[c]
    /\ \A th \in Threads : st[th] # NoTask => result[st[th]]
    /\ \A th \in Threads : pc[th] \in {"tqueue", "tunlock"} => done[st[th]]
    /\ \A w \in Workers : pc[w] = "rfalse" => done[running[w]]

Safe == Typed /\ Ranges /\ LocalsOK /\ LockHeld /\ ResultFirst

\* d was made by c, which awaits it.
Child(d, c) == /\ \E i \in 1..Len(Code(c)) : by[d] = <<c, i>>
               /\ AwaitsFun(FunOf[c], FunOf[d])

\* A machine is awaited by the machine that made it, and frames that were not
\* allocated are nowhere.
Owned ==
    /\ \A c \in Tasks : \A i \in 1..Len(Code(c)) : kid[c][i] # NoTask =>
          /\ by[kid[c][i]] = <<c, i>> /\ kid[c][i] \in made
          /\ FunOf[kid[c][i]] = Code(c)[i].of
    /\ \A w \in Workers : pc[w] \in LockPCs => Child(op[w], running[w]) /\ op[w] \in made
    /\ \A c, d \in Tasks : nextTask[d] = c =>
          Child(d, c) /\ c \in made /\ d \in made /\ KindOf(c) = "async"
    /\ \A i \in 1..Len(queue) : queue[i] \in made
    /\ \A w \in Workers : running[w] # NoTask => running[w] \in made
    /\ \A th \in Threads : st[th] # NoTask => st[th] \in made
    /\ \A c \in Tasks : armed[c] > 0 \/ done[c] => c \in made

\* Only a machine that is done, or that a worker is about to complete, has
\* .exit saved or is stepped into it.
Returning(c) == \E w \in Workers : running[w] = c /\ pc[w] \in {"rresult", "tlock", "tdone"}
ExitMeans ==
    /\ \A c \in Tasks : block[c] = Exit(c) => done[c] \/ Returning(c)
    /\ \A w \in Workers : pc[w] = "body" /\ at[w] = Exit(running[w]) =>
          done[running[w]] \/ Returning(running[w])

-----------------------------------------------------------------------------
(* Machines that await no stream. *)

QueueOnce(c) == \A i, j \in 1..Len(queue) : queue[i] = c /\ queue[j] = c => i = j

\* A machine is in one place: once in the queue, on one worker that executes
\* it, or the continuation of one machine that will queue it.
OnePlace(c) ==
    /\ QueueOnce(c)
    /\ InQueue(c) => \A w \in Workers : ~Executes(w, c)
    /\ \A v, w \in Workers : Executes(v, c) /\ Executes(w, c) => v = w
    /\ \A d \in Tasks : WillQueue(d, c) => ~InQueue(c) /\ \A w \in Workers : ~Executes(w, c)
    /\ \A d, e \in Tasks : WillQueue(d, c) /\ WillQueue(e, c) => d = e

\* It completes once: a done machine is nowhere any more, and a machine the
\* event loop completes is nowhere else.
CompletesOnce(c) ==
    /\ done[c] => /\ ~InQueue(c) /\ armed[c] = 0
                  /\ \A d \in Tasks : ~WillQueue(d, c)
                  /\ \A w \in Workers : Executes(w, c) => pc[w] \in {"tqueue", "tunlock", "rfalse"}
                  /\ st[UV] = c => pc[UV] \in {"tqueue", "tunlock"}
    /\ armed[c] > 0 => armed[c] = 1 /\ st[UV] # c
    /\ armed[c] > 0 \/ st[UV] = c => ~InQueue(c) /\ \A w \in Workers : running[w] # c

Once == \A c \in Tasks : Single(c) => OnePlace(c) /\ CompletesOnce(c)

\* The invariant.
Inv == /\ Typed /\ Ranges /\ LocalsOK /\ LockHeld /\ ResultFirst
       /\ Owned /\ ExitMeans /\ NoLostContinuation /\ Once

-----------------------------------------------------------------------------
(* Lemmas *)

\* The constants and threads, as the proofs use them.
LEMMA Consts ==
    /\ UV \notin Workers /\ NoThread \notin Threads /\ NoTask \notin Tasks
    /\ Workers \subseteq Threads /\ UV \in Threads
    /\ \A th \in Threads : th = UV \/ th \in Workers
    /\ \A c \in Tasks : FunOf[c] \in Funs /\ Len(Code(c)) \in Nat
    /\ \A c \in Tasks : Return(c) = Len(Code(c)) + 1 /\ Exit(c) = Len(Code(c)) + 2
    /\ \A c \in Tasks : \A i \in 1..Len(Code(c)) : Code(c)[i] \in Statement
  BY CoroAssumption, NoTaskAssumption, LenProperties, ElementOfSeq
  DEF Threads, Program, Code, Return, Exit

\* An await names a call of its function, a branch a statement or the return.
LEMMA Statements ==
    ASSUME NEW c \in Tasks, NEW i \in 1..Len(Code(c))
    PROVE  /\ Code(c)[i].op = "await" => /\ Code(c)[i].of \in 1..Len(Code(c))
                                         /\ AwaitsFun(FunOf[c], Code(c)[Code(c)[i].of].of)
           /\ Code(c)[i].op = "branch" => Code(c)[i].of \in 1..(Len(Code(c)) + 1)
  BY Consts, CoroAssumption DEF Program, Code, AwaitsFun

\* Who awaits a machine that is not Single is not Single either.
LEMMA SingleChild ==
    ASSUME NEW c \in Tasks, NEW d \in Tasks, Child(d, c), Single(c)
    PROVE  Single(d)
<1>1. FunOf[c] \in Funs /\ FunOf[d] \in Funs /\ AwaitsFun(FunOf[c], FunOf[d])
  BY Consts DEF Child
<1>2. PICK S \in SUBSET Funs : HasStreams(S) /\ FunOf[c] \notin S
  BY <1>1 DEF Single, Streaming
<1>3. FunOf[d] \notin S
  BY <1>1, <1>2 DEF HasStreams
<1> QED BY <1>1, <1>2, <1>3 DEF Single, Streaming

\* A stream is not Single.
LEMMA SingleKind ==
    ASSUME NEW c \in Tasks, Single(c)
    PROVE  KindOf(c) # "stream"
<1>1. FunOf[c] \in Funs
  BY Consts
<1>2. PICK S \in SUBSET Funs : HasStreams(S) /\ FunOf[c] \notin S
  BY <1>1 DEF Single, Streaming
<1> QED BY <1>1, <1>2 DEF HasStreams, KindOf

\* A machine has one maker.
LEMMA OneMaker ==
    ASSUME NEW c, NEW e, NEW d, Child(d, c), Child(d, e)
    PROVE  c = e
  BY DEF Child

\* Submissions keep what is queued.
LEMMA QueueAppend ==
    ASSUME queue \in Seq(Tasks), NEW x \in Tasks, queue' = Append(queue, x)
    PROVE  /\ queue' \in Seq(Tasks)
           /\ \A c : InQueue(c)' <=> InQueue(c) \/ c = x
<1>1. /\ Len(queue) \in Nat /\ Len(queue') = Len(queue) + 1 /\ queue'[Len(queue) + 1] = x
      /\ \A i \in 1..Len(queue) : queue'[i] = queue[i]
  BY AppendProperties, LenProperties
<1>2. \A i : i \in 1..(Len(queue) + 1) <=> i \in 1..Len(queue) \/ i = Len(queue) + 1
  BY <1>1
<1>3. queue' \in Seq(Tasks)
  BY AppendProperties
<1>4. \A c : InQueue(c)' <=> InQueue(c) \/ c = x
  BY <1>1, <1>2, Zenon DEF InQueue
<1> QED BY <1>3, <1>4

\* Taking the oldest submission keeps the others.
LEMMA QueueTail ==
    ASSUME queue \in Seq(Tasks), queue # <<>>, queue' = Tail(queue)
    PROVE  /\ queue' \in Seq(Tasks)
           /\ Head(queue) \in Tasks /\ InQueue(Head(queue))
           /\ \A c : InQueue(c)' => InQueue(c)
           /\ \A c : InQueue(c) => InQueue(c)' \/ c = Head(queue)
<1>1. /\ Len(queue) \in Nat /\ Len(queue) >= 1 /\ Len(queue') = Len(queue) - 1
      /\ Head(queue) = queue[1] /\ Head(queue) \in Tasks /\ queue' \in Seq(Tasks)
      /\ \A i \in 1..(Len(queue) - 1) : queue'[i] = queue[i + 1]
  BY HeadTailProperties, LenProperties, EmptySeq
<1>2. \A i \in 1..Len(queue) : i = 1 \/ (i - 1 \in 1..Len(queue') /\ queue'[i - 1] = queue[i])
  BY <1>1
<1>3. \A i \in 1..Len(queue') : i + 1 \in 1..Len(queue) /\ queue'[i] = queue[i + 1]
  BY <1>1
<1>4. 1 \in 1..Len(queue)
  BY <1>1
<1>5. \A c : InQueue(c)' => InQueue(c)
  BY <1>3, Zenon DEF InQueue
<1>6. \A c : InQueue(c) => InQueue(c)' \/ c = Head(queue)
  BY <1>1, <1>2, Zenon DEF InQueue
<1>7. InQueue(Head(queue))
  BY <1>1, <1>4, Zenon DEF InQueue
<1> QED BY <1>1, <1>5, <1>6, <1>7

\* A new submission is the only one of its machine when there was none.
LEMMA OnceAppend ==
    ASSUME queue \in Seq(Tasks), NEW x \in Tasks, queue' = Append(queue, x)
    PROVE  \A c : QueueOnce(c) /\ (c # x \/ ~InQueue(x)) => QueueOnce(c)'
<1>1. /\ Len(queue) \in Nat /\ Len(queue') = Len(queue) + 1 /\ queue'[Len(queue) + 1] = x
      /\ \A i \in 1..Len(queue) : queue'[i] = queue[i]
  BY AppendProperties, LenProperties
<1>2. \A i : i \in 1..(Len(queue) + 1) <=> i \in 1..Len(queue) \/ i = Len(queue) + 1
  BY <1>1
<1> QED BY <1>1, <1>2, Zenon DEF InQueue, QueueOnce

\* What is queued once is no longer queued when it is taken.
LEMMA OnceTail ==
    ASSUME queue \in Seq(Tasks), queue # <<>>, queue' = Tail(queue)
    PROVE  /\ \A c : QueueOnce(c) => QueueOnce(c)'
           /\ \A c : QueueOnce(c) /\ c = Head(queue) => ~InQueue(c)'
<1>1. /\ Len(queue) \in Nat /\ Len(queue) >= 1 /\ Len(queue') = Len(queue) - 1
      /\ Head(queue) = queue[1]
      /\ \A i \in 1..(Len(queue) - 1) : queue'[i] = queue[i + 1]
  BY HeadTailProperties, LenProperties, EmptySeq
<1>2. \A i \in 1..Len(queue') : i + 1 \in 1..Len(queue) /\ queue'[i] = queue[i + 1] /\ i + 1 # 1
  BY <1>1
<1>3. 1 \in 1..Len(queue)
  BY <1>1
<1>4. ASSUME NEW c, QueueOnce(c) PROVE QueueOnce(c)'
  <2>1. SUFFICES ASSUME NEW i \in 1..Len(queue'), NEW j \in 1..Len(queue'), queue'[i] = c, queue'[j] = c
                 PROVE  i = j
    BY DEF QueueOnce
  <2>2. i + 1 = j + 1
    BY <1>2, <1>4, <2>1 DEF QueueOnce
  <2> QED BY <1>1, <2>2
<1>5. ASSUME NEW c, QueueOnce(c), c = Head(queue) PROVE ~InQueue(c)'
  BY <1>1, <1>2, <1>3, <1>5, Zenon DEF QueueOnce, InQueue
<1> QED BY <1>4, <1>5

\* Where a machine that is not done can be.
Placed(c) == \/ InQueue(c)
             \/ \E w \in Workers : Executes(w, c)
             \/ \E d \in Tasks : WillQueue(d, c)

\* A step that takes no machine from its place loses none.
LEMMA NoneLost ==
    ASSUME NoLostContinuation, made \subseteq Tasks, made' = made,
           \A c \in Tasks : KindOf(c) = "async" /\ ~done'[c] =>
                               ~done[c] /\ (Placed(c) => Placed(c)')
    PROVE  NoLostContinuation'
<1>1. \A c \in made : KindOf(c) = "async" /\ ~done[c] => Placed(c)
  BY DEF NoLostContinuation, Placed
<1>2. \A c \in made' : KindOf(c) = "async" /\ ~done'[c] => Placed(c)'
  BY <1>1
<1> QED BY <1>2 DEF NoLostContinuation, Placed

\* Completions that go on, if they do anything.
GoesOn == /\ \A w \in Workers : running'[w] \in {running[w], NoTask}
          /\ \A w \in Workers : pc[w] \in {"tqueue", "tunlock", "rfalse"} =>
                                    pc'[w] \in {"tqueue", "tunlock", "rfalse"}
          /\ st'[UV] \in {st[UV], NoTask}
          /\ st'[UV] # NoTask /\ pc[UV] \in {"tqueue", "tunlock"} => pc'[UV] \in {"tqueue", "tunlock"}

\* Where no machine goes anywhere, each is still in one place.
LEMMA OnceKept ==
    ASSUME Once, GoesOn, UNCHANGED <<queue, done, armed>>,
           \A w \in Workers, c \in Tasks : Executes(w, c)' => Executes(w, c),
           \A d, c \in Tasks : WillQueue(d, c)' => WillQueue(d, c)
    PROVE  Once'
<1>1. \A c : (InQueue(c)' <=> InQueue(c)) /\ (QueueOnce(c)' <=> QueueOnce(c))
  BY DEF InQueue, QueueOnce
<1>2. ASSUME NEW c \in Tasks, Single(c) PROVE OnePlace(c)' /\ CompletesOnce(c)'
  <2>1. OnePlace(c) /\ CompletesOnce(c)
    BY <1>2 DEF Once
  <2>2. OnePlace(c)'
    BY <1>1, <2>1 DEF OnePlace
  <2>3. CompletesOnce(c)'
    <3>1. ASSUME done[c]
          PROVE  /\ ~InQueue(c)' /\ armed'[c] = 0 /\ \A d \in Tasks : ~WillQueue(d, c)'
                 /\ \A w \in Workers : Executes(w, c)' => pc'[w] \in {"tqueue", "tunlock", "rfalse"}
                 /\ st'[UV] = c => pc'[UV] \in {"tqueue", "tunlock"}
      BY <1>1, <2>1, <3>1, Consts DEF CompletesOnce, GoesOn
    <3>2. armed[c] > 0 => armed[c] = 1 /\ st'[UV] # c
      BY <2>1, Consts DEF CompletesOnce, GoesOn
    <3>3. armed[c] > 0 \/ st'[UV] = c => ~InQueue(c)' /\ \A w \in Workers : running'[w] # c
      BY <1>1, <2>1, Consts DEF CompletesOnce, GoesOn
    <3> QED BY <3>1, <3>2, <3>3 DEF CompletesOnce
  <2> QED BY <2>2, <2>3
<1>3. \A c : Single(c)' <=> Single(c)
  OBVIOUS
<1> QED BY <1>2, <1>3 DEF Once

\* A step that moves no machine.
LEMMA Quiet ==
    ASSUME NoLostContinuation, Once, GoesOn, made \subseteq Tasks,
           UNCHANGED <<queue, made, done, armed>>,
           \A w \in Workers, c \in Tasks : Executes(w, c)' <=> Executes(w, c),
           \A d, c \in Tasks : WillQueue(d, c)' <=> WillQueue(d, c)
    PROVE  NoLostContinuation' /\ Once'
<1>1. \A c : InQueue(c)' <=> InQueue(c)
  BY DEF InQueue
<1>2. \A c \in Tasks : Placed(c) => Placed(c)'
  BY <1>1 DEF Placed
<1> QED BY <1>2, NoneLost, OnceKept

\* A new frame is in the queue only.
LEMMA Fresh ==
    ASSUME Typed, Owned, NoLostContinuation, Once, NEW d \in Tasks \ made,
           queue' = Append(queue, d), made' = made \union {d},
           UNCHANGED <<running, nextTask, done, armed, pc, b, st>>
    PROVE  NoLostContinuation' /\ Once'
<1> USE Consts
<1>1. \A c : InQueue(c)' <=> InQueue(c) \/ c = d
  BY QueueAppend DEF Typed
<1>2. /\ \A w, c : Executes(w, c)' <=> Executes(w, c)
      /\ \A x, c : WillQueue(x, c)' <=> WillQueue(x, c)
  BY DEF Executes, Leaving, WillQueue, At
<1>3. /\ ~InQueue(d) /\ \A w \in Workers : running[w] # d
      /\ \A x \in Tasks : ~WillQueue(x, d)
      /\ ~done[d] /\ ~(armed[d] > 0) /\ st[UV] # d
  <2>1. ~InQueue(d)
    BY DEF Owned, InQueue
  <2>2. (\A w \in Workers : running[w] # d) /\ st[UV] # d
    BY DEF Owned, Typed
  <2>3. ~done[d] /\ ~(armed[d] > 0) /\ \A x \in Tasks : ~WillQueue(x, d)
    BY DEF Owned, WillQueue
  <2> QED BY <2>1, <2>2, <2>3
<1>4. NoLostContinuation'
  BY <1>1, <1>2 DEF NoLostContinuation, Typed
<1>5. ASSUME NEW c \in Tasks, Single(c) PROVE OnePlace(c)' /\ CompletesOnce(c)'
  <2>1. OnePlace(c) /\ CompletesOnce(c)
    BY <1>5 DEF Once
  <2>2. QueueOnce(c)'
    BY <1>3, <2>1, OnceAppend DEF OnePlace, Typed
  <2>3. \A w \in Workers : ~Executes(w, d)
    BY <1>3 DEF Executes
  <2>4. OnePlace(c)'
    BY <1>1, <1>2, <1>3, <2>1, <2>2, <2>3 DEF OnePlace
  <2>5. CompletesOnce(c)'
    BY <1>1, <1>2, <1>3, <2>1 DEF CompletesOnce
  <2> QED BY <2>4, <2>5
<1> QED BY <1>4, <1>5 DEF Once

\* A step that makes no machine and moves none to a new place keeps Owned.
LEMMA OwnedKept ==
    ASSUME Owned, UNCHANGED <<made, by, kid, nextTask>>,
           \A i \in 1..Len(queue') : queue'[i] \in made,
           \A w \in Workers : pc'[w] \in LockPCs =>
               pc[w] \in LockPCs /\ op'[w] = op[w] /\ running'[w] = running[w],
           \A w \in Workers : running'[w] # NoTask => running'[w] \in made,
           \A th \in Threads : st'[th] # NoTask => st'[th] \in made,
           \A c \in Tasks : armed'[c] > 0 \/ done'[c] => c \in made
    PROVE  Owned'
<1>1. \A x, y : Child(x, y)' <=> Child(x, y)
  BY DEF Child
<1>2. \A w \in Workers : pc'[w] \in LockPCs => Child(op[w], running[w])' /\ op'[w] \in made'
  BY <1>1 DEF Owned
<1>3. \A c, d \in Tasks : nextTask'[d] = c =>
          Child(d, c)' /\ c \in made' /\ d \in made' /\ KindOf(c) = "async"
  BY <1>1 DEF Owned
<1> QED BY <1>2, <1>3 DEF Owned

\* A step that saves no .exit, and steps into none, keeps ExitMeans.
LEMMA ExitKept ==
    ASSUME ExitMeans,
           \A c \in Tasks : block'[c] = Exit(c) => block[c] = Exit(c),
           \A c \in Tasks : done[c] \/ Returning(c) => done'[c] \/ Returning(c)',
           \A w \in Workers : pc'[w] = "body" /\ at'[w] = Exit(running'[w]) =>
               /\ pc[w] = "body" /\ at[w] = Exit(running[w])
               /\ running'[w] = running[w] /\ running[w] \in Tasks
    PROVE  ExitMeans'
  BY DEF ExitMeans

-----------------------------------------------------------------------------
(* Inv is inductive, one lemma per action. *)

\* main's call allocates a frame that is nowhere yet.
LEMMA KeepsMainCall ==
    ASSUME Inv, NEW d \in Roots, MainCall(d) PROVE Inv'
<1> USE Consts
<1>a. /\ Typed /\ Ranges /\ LocalsOK /\ LockHeld /\ ResultFirst
      /\ Owned /\ ExitMeans /\ NoLostContinuation /\ Once
  BY DEF Inv
<1>0. /\ d \in Tasks /\ d \notin made
      /\ made' = made \union {d}
      /\ queue' = Append(queue, d)
      /\ UNCHANGED <<running, by, kid, block, nextTask, done, result, lock, armed, pc, at, b, op, st>>
  BY <1>a, CoroAssumption DEF MainCall, Create, Submit, frame, local, Typed, LocalsOK, AwaitPCs, LockPCs, TryPCs
<1>b. \A x, y : Child(x, y)' <=> Child(x, y)
  BY <1>0 DEF Child
<1>1. Typed'
  <2>1. queue' \in Seq(Tasks)
    BY <1>a, <1>0, QueueAppend DEF Typed
  <2> QED BY <1>a, <1>0, <2>1 DEF Typed
<1>2. Ranges'
  BY <1>a, <1>0 DEF Typed, Ranges, LocalsOK
<1>3. LocalsOK'
  BY <1>a, <1>0 DEF Typed, Ranges, LocalsOK, AwaitPCs, LockPCs, TryPCs
<1>4. LockHeld'
  BY <1>a, <1>0 DEF Typed, LocalsOK, LockHeld, LockPCs, TryPCs
<1>5. ResultFirst'
  BY <1>a, <1>0 DEF Typed, LocalsOK, ResultFirst, TryPCs
<1>6. Owned'
  <2>1. \A i \in 1..Len(queue') : queue'[i] \in made'
    <3>1. \A c : InQueue(c)' <=> InQueue(c) \/ c = d
      BY <1>a, <1>0, QueueAppend DEF Typed
    <3>2. \A c : InQueue(c) => c \in made
      BY <1>a DEF Owned, InQueue
    <3> QED BY <1>0, <3>1, <3>2 DEF InQueue
  <2> QED BY <1>a, <1>0, <1>b, <2>1 DEF Owned
<1>7. ExitMeans'
  BY <1>a, <1>0 DEF ExitMeans, Returning
<1>8. NoLostContinuation'
  BY <1>a, <1>0, Fresh
<1>9. Once'
  BY <1>a, <1>0, Fresh
<1> QED BY <1>1, <1>2, <1>3, <1>4, <1>5, <1>6, <1>7, <1>8, <1>9 DEF Inv

\* A machine moves from the queue to a worker.
LEMMA KeepsTakeMachine ==
    ASSUME Inv, NEW w \in Workers, TakeMachine(w) PROVE Inv'
<1> USE Consts
<1>a. /\ Typed /\ Ranges /\ LocalsOK /\ LockHeld /\ ResultFirst
      /\ Owned /\ ExitMeans /\ NoLostContinuation /\ Once
  BY DEF Inv
<1>0. /\ pc[w] = "idle" /\ running[w] = NoTask /\ queue # <<>>
      /\ queue' = Tail(queue)
      /\ running' = [running EXCEPT ![w] = Head(queue)]
      /\ pc' = [pc EXCEPT ![w] = "step"]
      /\ UNCHANGED <<made, by, kid, block, nextTask, done, result, lock, armed, at, b, op, st>>
  BY <1>a DEF TakeMachine, Take, Goto, At, heap, frame, Typed, LocalsOK, AwaitPCs, LockPCs, TryPCs
<1>p. /\ running'[w] = Head(queue) /\ \A x \in Workers : x # w => running'[x] = running[x]
      /\ pc'[w] = "step" /\ \A x \in Threads : x # w => pc'[x] = pc[x]
  BY <1>a, <1>0 DEF Typed
<1>b. \A x, y : Child(x, y)' <=> Child(x, y)
  BY <1>0 DEF Child
<1>1. Typed'
  <2>1. queue' \in Seq(Tasks) /\ Head(queue) \in Tasks
    BY <1>a, <1>0, QueueTail DEF Typed
  <2> QED BY <1>a, <1>0, <2>1 DEF Typed, PCs
<1>2. Ranges'
  <2>1. Head(queue) \in Tasks
    BY <1>a, <1>0, QueueTail DEF Typed
  <2> QED BY <1>a, <1>0, <2>1 DEF Typed, Ranges
<1>3. LocalsOK'
  <2>1. Head(queue) \in Tasks
    BY <1>a, <1>0, QueueTail DEF Typed
  <2> QED BY <1>a, <1>0, <2>1 DEF Typed, LocalsOK, AwaitPCs, LockPCs, TryPCs
<1>4. LockHeld'
  BY <1>a, <1>0 DEF Typed, LocalsOK, LockHeld, LockPCs, TryPCs
<1>5. ResultFirst'
  BY <1>a, <1>0 DEF Typed, LocalsOK, ResultFirst, TryPCs
<1>6. Owned'
  <2>3. /\ \A i \in 1..Len(queue') : queue'[i] \in made
        /\ Head(queue) \in made
    <3>1. InQueue(Head(queue)) /\ \A c : InQueue(c)' => InQueue(c)
      BY <1>a, <1>0, QueueTail DEF Typed
    <3>2. \A c : InQueue(c) => c \in made
      BY <1>a DEF Owned, InQueue
    <3> QED BY <3>1, <3>2 DEF InQueue
  <2>1. \A v \in Workers : pc'[v] \in LockPCs =>
            pc[v] \in LockPCs /\ op'[v] = op[v] /\ running'[v] = running[v]
    BY <1>0, <1>p DEF LockPCs
  <2>2. /\ \A v \in Workers : running'[v] # NoTask => running'[v] \in made
        /\ \A v \in Threads : st'[v] # NoTask => st'[v] \in made
        /\ \A c \in Tasks : armed'[c] > 0 \/ done'[c] => c \in made
    BY <1>a, <1>0, <1>p, <2>3 DEF Owned
  <2> QED BY <1>a, <1>0, <2>1, <2>2, <2>3, OwnedKept
<1>7. ExitMeans'
  <2>1. \A c \in Tasks : done[c] \/ Returning(c) => done'[c] \/ Returning(c)'
    BY <1>a, <1>0, <1>p DEF Returning
  <2>2. \A v \in Workers : pc'[v] = "body" /\ at'[v] = Exit(running'[v]) =>
            /\ pc[v] = "body" /\ at[v] = Exit(running[v])
            /\ running'[v] = running[v] /\ running[v] \in Tasks
    BY <1>a, <1>0, <1>p DEF LocalsOK, Typed
  <2> QED BY <1>a, <1>0, <2>1, <2>2, ExitKept
<1>8. NoLostContinuation'
  <2>1. /\ Head(queue) \in Tasks /\ InQueue(Head(queue))
        /\ \A c : InQueue(c)' => InQueue(c)
        /\ \A c : InQueue(c) => InQueue(c)' \/ c = Head(queue)
    BY <1>a, <1>0, QueueTail DEF Typed
  <2>2. /\ \A v \in Workers, c \in Tasks :
              Executes(v, c)' <=> Executes(v, c) \/ (v = w /\ c = Head(queue))
        /\ \A d, c \in Tasks : WillQueue(d, c)' <=> WillQueue(d, c)
    BY <1>a, <1>0, <2>1 DEF Typed, Executes, Leaving, WillQueue, At
  <2> QED BY <1>a, <1>0, <2>1, <2>2 DEF NoLostContinuation, Typed
<1>9. Once'
  <2>1. /\ Head(queue) \in Tasks /\ InQueue(Head(queue))
        /\ \A c : InQueue(c)' => InQueue(c)
        /\ \A c : InQueue(c) => InQueue(c)' \/ c = Head(queue)
    BY <1>a, <1>0, QueueTail DEF Typed
  <2>2. /\ \A v \in Workers, c \in Tasks :
              Executes(v, c)' <=> Executes(v, c) \/ (v = w /\ c = Head(queue))
        /\ \A d, c \in Tasks : WillQueue(d, c)' <=> WillQueue(d, c)
    BY <1>a, <1>0, <2>1 DEF Typed, Executes, Leaving, WillQueue, At
  <2>3. ASSUME NEW c \in Tasks, Single(c) PROVE OnePlace(c)' /\ CompletesOnce(c)'
    <3>1. OnePlace(c) /\ CompletesOnce(c)
      BY <1>a, <2>3 DEF Once
    <3>2. QueueOnce(c)' /\ (c = Head(queue) => ~InQueue(c)')
      BY <1>a, <1>0, <3>1, OnceTail DEF OnePlace, Typed
    <3>3. OnePlace(c)'
      BY <2>1, <2>2, <3>1, <3>2 DEF OnePlace
    <3>4. \A v \in Workers : pc[v] \in {"tqueue", "tunlock", "rfalse"} => pc'[v] = pc[v]
      BY <1>a, <1>0 DEF Typed
    <3>5. pc'[UV] = pc[UV] /\ \A v \in Workers : running'[v] = running[v] \/ running'[v] = Head(queue)
      BY <1>a, <1>0 DEF Typed
    <3>6. CompletesOnce(c)'
      BY <1>0, <2>1, <2>2, <3>1, <3>4, <3>5 DEF CompletesOnce
    <3> QED BY <3>3, <3>6
  <2> QED BY <2>3 DEF Once
<1> QED BY <1>1, <1>2, <1>3, <1>4, <1>5, <1>6, <1>7, <1>8, <1>9 DEF Inv

\* StepNext jumps to the saved block, which is .exit only after a return.
LEMMA KeepsStepNext ==
    ASSUME Inv, NEW w \in Workers, StepNext(w) PROVE Inv'
<1> USE Consts
<1>a. /\ Typed /\ Ranges /\ LocalsOK /\ LockHeld /\ ResultFirst
      /\ Owned /\ ExitMeans /\ NoLostContinuation /\ Once
  BY DEF Inv
<1>0. /\ pc[w] = "step" /\ running[w] \in Tasks /\ KindOf(running[w]) = "async"
      /\ at' = [at EXCEPT ![w] = block[running[w]]]
      /\ pc' = [pc EXCEPT ![w] = "body"]
      /\ UNCHANGED <<queue, running, made, by, kid, block, nextTask, done, result, lock, armed, b, op, st>>
  BY <1>a DEF StepNext, Goto, At, heap, frame, Typed, LocalsOK, AwaitPCs, LockPCs, TryPCs
<1>p. /\ at'[w] = block[running[w]] /\ \A x \in Workers : x # w => at'[x] = at[x]
      /\ pc'[w] = "body" /\ \A x \in Threads : x # w => pc'[x] = pc[x]
  BY <1>a, <1>0 DEF Typed
<1>b. \A x, y : Child(x, y)' <=> Child(x, y)
  BY <1>0 DEF Child
<1>1. Typed'
  BY <1>a, <1>0 DEF Typed, PCs
<1>2. Ranges'
  BY <1>a, <1>0 DEF Typed, Ranges, LocalsOK
<1>3. LocalsOK'
  BY <1>a, <1>0 DEF Typed, Ranges, LocalsOK, AwaitPCs, LockPCs, TryPCs
<1>4. LockHeld'
  BY <1>a, <1>0 DEF Typed, LocalsOK, LockHeld, LockPCs, TryPCs
<1>5. ResultFirst'
  BY <1>a, <1>0 DEF Typed, LocalsOK, ResultFirst, TryPCs
<1>6. Owned'
  <2>1. \A v \in Workers : pc'[v] \in LockPCs =>
            pc[v] \in LockPCs /\ op'[v] = op[v] /\ running'[v] = running[v]
    BY <1>0, <1>p DEF LockPCs
  <2>2. /\ \A v \in Workers : running'[v] # NoTask => running'[v] \in made
        /\ \A v \in Threads : st'[v] # NoTask => st'[v] \in made
        /\ \A c \in Tasks : armed'[c] > 0 \/ done'[c] => c \in made
    BY <1>a, <1>0, <1>p DEF Owned
  <2>3. \A i \in 1..Len(queue') : queue'[i] \in made
    BY <1>a, <1>0 DEF Owned
  <2> QED BY <1>a, <1>0, <2>1, <2>2, <2>3, OwnedKept
<1>7. ExitMeans'
  <2>1. \A c \in Tasks : Returning(c) => Returning(c)'
    BY <1>0, <1>p DEF Returning
  <2>2. at'[w] = block[running[w]] /\ \A v \in Workers : v # w => at'[v] = at[v] /\ pc'[v] = pc[v]
    BY <1>0, <1>p
  <2> QED BY <1>a, <1>0, <2>1, <2>2 DEF ExitMeans, LocalsOK, Typed
<1>8. NoLostContinuation' /\ Once'
  <2>1. \A v \in Workers, c \in Tasks : Executes(v, c)' <=> Executes(v, c)
    BY <1>a, <1>0 DEF Typed, LocalsOK, Executes, Leaving
  <2>2. \A d, c \in Tasks : WillQueue(d, c)' <=> WillQueue(d, c)
    BY <1>a, <1>0 DEF Typed, WillQueue, At
  <2>3. GoesOn /\ made \subseteq Tasks
    BY <1>a, <1>0 DEF Typed, LocalsOK, TryPCs, GoesOn
  <2> QED BY <1>a, <1>0, <2>1, <2>2, <2>3, Quiet
<1> QED BY <1>1, <1>2, <1>3, <1>4, <1>5, <1>6, <1>7, <1>8 DEF Inv

\* An io machine moves from its worker to the event loop.
LEMMA KeepsStepIO ==
    ASSUME Inv, NEW w \in Workers, StepIO(w) PROVE Inv'
<1> USE Consts
<1>a. /\ Typed /\ Ranges /\ LocalsOK /\ LockHeld /\ ResultFirst
      /\ Owned /\ ExitMeans /\ NoLostContinuation /\ Once
  BY DEF Inv
<1>0. /\ pc[w] = "step" /\ running[w] \in Tasks /\ KindOf(running[w]) \in {"io", "stream"}
      /\ armed' = [armed EXCEPT ![running[w]] = IF KindOf(running[w]) = "io" THEN 1 ELSE 2]
      /\ pc' = [pc EXCEPT ![w] = "idle"]
      /\ running' = [running EXCEPT ![w] = NoTask]
      /\ at' = [at EXCEPT ![w] = 0]
      /\ b' = [b EXCEPT ![w] = FALSE]
      /\ UNCHANGED <<queue, made, by, kid, block, nextTask, done, result, lock, op, st>>
  BY <1>a DEF StepIO, Leave, Finish, MaxCallbacks, Goto, At, heap, frame, Typed, LocalsOK, AwaitPCs, LockPCs, TryPCs
<1>p. /\ armed'[running[w]] = (IF KindOf(running[w]) = "io" THEN 1 ELSE 2) /\ \A x \in Tasks : x # running[w] => armed'[x] = armed[x]
      /\ pc'[w] = "idle" /\ \A x \in Threads : x # w => pc'[x] = pc[x]
      /\ running'[w] = NoTask /\ \A x \in Workers : x # w => running'[x] = running[x]
      /\ at'[w] = 0 /\ \A x \in Workers : x # w => at'[x] = at[x]
      /\ b'[w] = FALSE /\ \A x \in Workers : x # w => b'[x] = b[x]
  BY <1>a, <1>0 DEF Typed
<1>b. \A x, y : Child(x, y)' <=> Child(x, y)
  BY <1>0 DEF Child
<1>1. Typed'
  <2>1. armed' \in [Tasks -> 0..MaxCallbacks]
    BY <1>a, <1>0 DEF Typed, MaxCallbacks
  <2> QED BY <1>a, <1>0, <2>1 DEF Typed, PCs
<1>2. Ranges'
  BY <1>a, <1>0 DEF Typed, Ranges, LocalsOK
<1>3. LocalsOK'
  BY <1>a, <1>0 DEF Typed, Ranges, LocalsOK, AwaitPCs, LockPCs, TryPCs
<1>4. LockHeld'
  BY <1>a, <1>0 DEF Typed, LocalsOK, LockHeld, LockPCs, TryPCs
<1>5. ResultFirst'
  BY <1>a, <1>0 DEF Typed, LocalsOK, ResultFirst, TryPCs
<1>6. Owned'
  <2>1. \A v \in Workers : pc'[v] \in LockPCs =>
            pc[v] \in LockPCs /\ op'[v] = op[v] /\ running'[v] = running[v]
    BY <1>0, <1>p DEF LockPCs
  <2>2. /\ \A v \in Workers : running'[v] # NoTask => running'[v] \in made
        /\ \A v \in Threads : st'[v] # NoTask => st'[v] \in made
        /\ \A c \in Tasks : armed'[c] > 0 \/ done'[c] => c \in made
    BY <1>a, <1>0, <1>p DEF Owned
  <2>3. \A i \in 1..Len(queue') : queue'[i] \in made
    BY <1>a, <1>0 DEF Owned
  <2> QED BY <1>a, <1>0, <2>1, <2>2, <2>3, OwnedKept
<1>7. ExitMeans'
  <2>1. \A c \in Tasks : done[c] \/ Returning(c) => done'[c] \/ Returning(c)'
    BY <1>a, <1>0, <1>p DEF Returning
  <2>2. \A v \in Workers : pc'[v] = "body" /\ at'[v] = Exit(running'[v]) =>
            /\ pc[v] = "body" /\ at[v] = Exit(running[v])
            /\ running'[v] = running[v] /\ running[v] \in Tasks
    BY <1>a, <1>0, <1>p DEF LocalsOK, Typed
  <2> QED BY <1>a, <1>0, <2>1, <2>2, ExitKept
<1>8. NoLostContinuation'
  <2>1. /\ \A v \in Workers, c \in Tasks : Executes(v, c)' <=> Executes(v, c) /\ v # w
        /\ \A d, c \in Tasks : WillQueue(d, c)' <=> WillQueue(d, c)
    BY <1>a, <1>0 DEF Typed, Executes, Leaving, WillQueue, At
  <2>2. \A c : InQueue(c)' <=> InQueue(c)
    BY <1>0 DEF InQueue
  <2>3. \A c \in Tasks : Executes(w, c) => KindOf(c) # "async"
    BY <1>0 DEF Executes
  <2>4. \A c \in Tasks : KindOf(c) = "async" /\ ~done[c] => (Placed(c) => Placed(c)')
    BY <2>1, <2>2, <2>3 DEF Placed
  <2> QED BY <1>a, <1>0, <2>4, NoneLost DEF Typed
<1>9. Once'
  <2>1. /\ \A v \in Workers, c \in Tasks : Executes(v, c)' <=> Executes(v, c) /\ v # w
        /\ \A d, c \in Tasks : WillQueue(d, c)' <=> WillQueue(d, c)
    BY <1>a, <1>0 DEF Typed, Executes, Leaving, WillQueue, At
  <2>2. ASSUME NEW c \in Tasks, Single(c) PROVE OnePlace(c)' /\ CompletesOnce(c)'
    <3>1. OnePlace(c) /\ CompletesOnce(c)
      BY <1>a, <2>2 DEF Once
    <3>2. (InQueue(c)' <=> InQueue(c)) /\ (QueueOnce(c)' <=> QueueOnce(c))
      BY <1>0 DEF InQueue, QueueOnce
    <3>3. OnePlace(c)'
      BY <2>1, <3>1, <3>2 DEF OnePlace
    <3>4. /\ \A v \in Workers : v # w => pc'[v] = pc[v] /\ running'[v] = running[v]
          /\ running'[w] = NoTask /\ pc'[UV] = pc[UV]
          /\ c # running[w] => armed'[c] = armed[c]
      BY <1>a, <1>0 DEF Typed
    <3>5. CASE c # running[w]
      BY <1>0, <2>1, <3>1, <3>2, <3>3, <3>4, <3>5, <1>p DEF CompletesOnce
    <3>6. CASE c = running[w]
      <4>1. KindOf(c) = "io" /\ armed'[c] = 1
        BY <1>a, <1>0, <2>2, <3>6, SingleKind DEF Typed
      <4>2. \A v \in Workers : running[v] = c => Executes(v, c)
        BY <1>a, <4>1 DEF Executes, Leaving, LocalsOK
      <4>3. Executes(w, c) /\ \A v \in Workers : running'[v] # c
        BY <1>0, <3>1, <3>4, <3>6, <4>2 DEF OnePlace
      <4>4. ~InQueue(c) /\ st[UV] # c /\ ~done[c]
        BY <1>0, <3>1, <3>6, <4>3 DEF OnePlace, CompletesOnce
      <4>5. done' = done /\ st' = st
        BY <1>0
      <4> QED BY <3>2, <3>3, <4>1, <4>3, <4>4, <4>5 DEF CompletesOnce
    <3> QED BY <3>3, <3>5, <3>6
  <2> QED BY <2>2 DEF Once
<1> QED BY <1>1, <1>2, <1>3, <1>4, <1>5, <1>6, <1>7, <1>8, <1>9 DEF Inv

\* A job is never completed.
LEMMA KeepsStepJob ==
    ASSUME Inv, NEW w \in Workers, StepJob(w) PROVE Inv'
<1> USE Consts
<1>a. /\ Typed /\ Ranges /\ LocalsOK /\ LockHeld /\ ResultFirst
      /\ Owned /\ ExitMeans /\ NoLostContinuation /\ Once
  BY DEF Inv
<1>0. /\ pc[w] = "step" /\ running[w] \in Tasks /\ KindOf(running[w]) = "job"
      /\ result' = [result EXCEPT ![running[w]] = TRUE]
      /\ pc' = [pc EXCEPT ![w] = "idle"]
      /\ running' = [running EXCEPT ![w] = NoTask]
      /\ at' = [at EXCEPT ![w] = 0]
      /\ b' = [b EXCEPT ![w] = FALSE]
      /\ UNCHANGED <<queue, made, by, kid, block, nextTask, done, lock, armed, op, st>>
  BY <1>a DEF StepJob, Leave, Finish, Goto, At, heap, Typed, LocalsOK, AwaitPCs, LockPCs, TryPCs
<1>p. /\ result'[running[w]] = TRUE /\ \A x \in Tasks : x # running[w] => result'[x] = result[x]
      /\ pc'[w] = "idle" /\ \A x \in Threads : x # w => pc'[x] = pc[x]
      /\ running'[w] = NoTask /\ \A x \in Workers : x # w => running'[x] = running[x]
      /\ at'[w] = 0 /\ \A x \in Workers : x # w => at'[x] = at[x]
      /\ b'[w] = FALSE /\ \A x \in Workers : x # w => b'[x] = b[x]
  BY <1>a, <1>0 DEF Typed
<1>b. \A x, y : Child(x, y)' <=> Child(x, y)
  BY <1>0 DEF Child
<1>1. Typed'
  BY <1>a, <1>0 DEF Typed, PCs
<1>2. Ranges'
  BY <1>a, <1>0 DEF Typed, Ranges, LocalsOK
<1>3. LocalsOK'
  BY <1>a, <1>0 DEF Typed, Ranges, LocalsOK, AwaitPCs, LockPCs, TryPCs
<1>4. LockHeld'
  BY <1>a, <1>0 DEF Typed, LocalsOK, LockHeld, LockPCs, TryPCs
<1>5. ResultFirst'
  BY <1>a, <1>0 DEF Typed, LocalsOK, ResultFirst, TryPCs
<1>6. Owned'
  <2>1. \A v \in Workers : pc'[v] \in LockPCs =>
            pc[v] \in LockPCs /\ op'[v] = op[v] /\ running'[v] = running[v]
    BY <1>0, <1>p DEF LockPCs
  <2>2. /\ \A v \in Workers : running'[v] # NoTask => running'[v] \in made
        /\ \A v \in Threads : st'[v] # NoTask => st'[v] \in made
        /\ \A c \in Tasks : armed'[c] > 0 \/ done'[c] => c \in made
    BY <1>a, <1>0, <1>p DEF Owned
  <2>3. \A i \in 1..Len(queue') : queue'[i] \in made
    BY <1>a, <1>0 DEF Owned
  <2> QED BY <1>a, <1>0, <2>1, <2>2, <2>3, OwnedKept
<1>7. ExitMeans'
  <2>1. \A c \in Tasks : done[c] \/ Returning(c) => done'[c] \/ Returning(c)'
    BY <1>a, <1>0, <1>p DEF Returning
  <2>2. \A v \in Workers : pc'[v] = "body" /\ at'[v] = Exit(running'[v]) =>
            /\ pc[v] = "body" /\ at[v] = Exit(running[v])
            /\ running'[v] = running[v] /\ running[v] \in Tasks
    BY <1>a, <1>0, <1>p DEF LocalsOK, Typed
  <2> QED BY <1>a, <1>0, <2>1, <2>2, ExitKept
<1>8. NoLostContinuation'
  <2>1. /\ \A v \in Workers, c \in Tasks : Executes(v, c)' <=> Executes(v, c) /\ v # w
        /\ \A d, c \in Tasks : WillQueue(d, c)' <=> WillQueue(d, c)
    BY <1>a, <1>0 DEF Typed, Executes, Leaving, WillQueue, At
  <2>2. \A c : InQueue(c)' <=> InQueue(c)
    BY <1>0 DEF InQueue
  <2>3. \A c \in Tasks : Executes(w, c) => KindOf(c) # "async"
    BY <1>0 DEF Executes
  <2>4. \A c \in Tasks : KindOf(c) = "async" /\ ~done[c] => (Placed(c) => Placed(c)')
    BY <2>1, <2>2, <2>3 DEF Placed
  <2> QED BY <1>a, <1>0, <2>4, NoneLost DEF Typed
<1>9. Once'
  <2>1. /\ \A v \in Workers, c \in Tasks : Executes(v, c)' <=> Executes(v, c) /\ v # w
        /\ \A d, c \in Tasks : WillQueue(d, c)' <=> WillQueue(d, c)
    BY <1>a, <1>0 DEF Typed, Executes, Leaving, WillQueue, At
  <2>2. GoesOn
    BY <1>a, <1>0 DEF Typed, GoesOn
  <2> QED BY <1>a, <1>0, <2>1, <2>2, OnceKept
<1> QED BY <1>1, <1>2, <1>3, <1>4, <1>5, <1>6, <1>7, <1>8, <1>9 DEF Inv

\* A worker that finds .exit leaves a machine that is or gets done.
LEMMA KeepsStepExit ==
    ASSUME Inv, NEW w \in Workers, StepExit(w) PROVE Inv'
<1> USE Consts
<1>a. /\ Typed /\ Ranges /\ LocalsOK /\ LockHeld /\ ResultFirst
      /\ Owned /\ ExitMeans /\ NoLostContinuation /\ Once
  BY DEF Inv
<1>0. /\ pc[w] = "body" /\ running[w] \in Tasks /\ at[w] = Exit(running[w])
      /\ pc' = [pc EXCEPT ![w] = "idle"]
      /\ running' = [running EXCEPT ![w] = NoTask]
      /\ at' = [at EXCEPT ![w] = 0]
      /\ b' = [b EXCEPT ![w] = FALSE]
      /\ UNCHANGED <<queue, made, by, kid, block, nextTask, done, result, lock, armed, op, st>>
  BY <1>a DEF StepExit, Leave, Finish, Goto, At, heap, frame, Typed, LocalsOK, AwaitPCs, LockPCs, TryPCs
<1>p. /\ pc'[w] = "idle" /\ \A x \in Threads : x # w => pc'[x] = pc[x]
      /\ running'[w] = NoTask /\ \A x \in Workers : x # w => running'[x] = running[x]
      /\ at'[w] = 0 /\ \A x \in Workers : x # w => at'[x] = at[x]
      /\ b'[w] = FALSE /\ \A x \in Workers : x # w => b'[x] = b[x]
  BY <1>a, <1>0 DEF Typed
<1>b. \A x, y : Child(x, y)' <=> Child(x, y)
  BY <1>0 DEF Child
<1>1. Typed'
  BY <1>a, <1>0 DEF Typed, PCs
<1>2. Ranges'
  BY <1>a, <1>0 DEF Typed, Ranges, LocalsOK
<1>3. LocalsOK'
  BY <1>a, <1>0 DEF Typed, Ranges, LocalsOK, AwaitPCs, LockPCs, TryPCs
<1>4. LockHeld'
  BY <1>a, <1>0 DEF Typed, LocalsOK, LockHeld, LockPCs, TryPCs
<1>5. ResultFirst'
  BY <1>a, <1>0 DEF Typed, LocalsOK, ResultFirst, TryPCs
<1>6. Owned'
  <2>1. \A v \in Workers : pc'[v] \in LockPCs =>
            pc[v] \in LockPCs /\ op'[v] = op[v] /\ running'[v] = running[v]
    BY <1>0, <1>p DEF LockPCs
  <2>2. /\ \A v \in Workers : running'[v] # NoTask => running'[v] \in made
        /\ \A v \in Threads : st'[v] # NoTask => st'[v] \in made
        /\ \A c \in Tasks : armed'[c] > 0 \/ done'[c] => c \in made
    BY <1>a, <1>0, <1>p DEF Owned
  <2>3. \A i \in 1..Len(queue') : queue'[i] \in made
    BY <1>a, <1>0 DEF Owned
  <2> QED BY <1>a, <1>0, <2>1, <2>2, <2>3, OwnedKept
<1>7. ExitMeans'
  <2>1. \A c \in Tasks : done[c] \/ Returning(c) => done'[c] \/ Returning(c)'
    BY <1>a, <1>0, <1>p DEF Returning
  <2>2. \A v \in Workers : pc'[v] = "body" /\ at'[v] = Exit(running'[v]) =>
            /\ pc[v] = "body" /\ at[v] = Exit(running[v])
            /\ running'[v] = running[v] /\ running[v] \in Tasks
    BY <1>a, <1>0, <1>p DEF LocalsOK, Typed
  <2> QED BY <1>a, <1>0, <2>1, <2>2, ExitKept
<1>8. NoLostContinuation'
  <2>1. /\ \A v \in Workers, c \in Tasks : Executes(v, c)' <=> Executes(v, c) /\ v # w
        /\ \A d, c \in Tasks : WillQueue(d, c)' <=> WillQueue(d, c)
    BY <1>a, <1>0 DEF Typed, Executes, Leaving, WillQueue, At
  <2>2. \A c : InQueue(c)' <=> InQueue(c)
    BY <1>0 DEF InQueue
  <2>3. \A c \in Tasks : Executes(w, c) => done[c] \/ \E v \in Workers : Executes(v, c) /\ v # w
    BY <1>a, <1>0 DEF Executes, Leaving, ExitMeans, Returning
  <2>4. \A c \in Tasks : KindOf(c) = "async" /\ ~done[c] => (Placed(c) => Placed(c)')
    BY <2>1, <2>2, <2>3 DEF Placed
  <2> QED BY <1>a, <1>0, <2>4, NoneLost DEF Typed
<1>9. Once'
  <2>1. /\ \A v \in Workers, c \in Tasks : Executes(v, c)' <=> Executes(v, c) /\ v # w
        /\ \A d, c \in Tasks : WillQueue(d, c)' <=> WillQueue(d, c)
    BY <1>a, <1>0 DEF Typed, Executes, Leaving, WillQueue, At
  <2>2. GoesOn
    BY <1>a, <1>0 DEF Typed, GoesOn
  <2> QED BY <1>a, <1>0, <2>1, <2>2, OnceKept
<1> QED BY <1>1, <1>2, <1>3, <1>4, <1>5, <1>6, <1>7, <1>8, <1>9 DEF Inv

\* The frame of a call is nowhere yet, and belongs to the caller.
LEMMA KeepsCallAsync ==
    ASSUME Inv, NEW w \in Workers, CallAsync(w) PROVE Inv'
<1> USE Consts
<1>a. /\ Typed /\ Ranges /\ LocalsOK /\ LockHeld /\ ResultFirst
      /\ Owned /\ ExitMeans /\ NoLostContinuation /\ Once
  BY DEF Inv
<1>0. PICK d \in Tasks \ made :
          /\ pc[w] = "body" /\ running[w] \in Tasks /\ at[w] \in 1..Len(Code(running[w]))
          /\ FunOf[d] = Code(running[w])[at[w]].of
          /\ made' = made \union {d} /\ queue' = Append(queue, d)
          /\ by' = [by EXCEPT ![d] = <<running[w], at[w]>>]
          /\ kid' = [kid EXCEPT ![running[w]][at[w]] = d]
          /\ at' = [at EXCEPT ![w] = @ + 1]
          /\ UNCHANGED <<running, block, nextTask, done, result, lock, armed, pc, b, op, st>>
  <2>1. pc[w] = "body" /\ running[w] \in Tasks /\ at[w] \in 1..Len(Code(running[w]))
    BY <1>a DEF CallAsync, InBody, At, Typed, Ranges, LocalsOK
  <2> QED BY <2>1 DEF CallAsync, Create, Submit, Target, frame
<1>p. at'[w] = at[w] + 1 /\ \A x \in Workers : x # w => at'[x] = at[x]
  BY <1>a, <1>0 DEF Typed
<1>k. ASSUME NEW c \in Tasks, NEW i \in 1..Len(Code(c))
      PROVE  kid'[c][i] = IF c = running[w] /\ i = at[w] THEN d ELSE kid[c][i]
  BY <1>a, <1>0 DEF Typed
<1>1. Typed'
  <2>1. queue' \in Seq(Tasks)
    BY <1>a, <1>0, QueueAppend DEF Typed
  <2>2. /\ kid' = [c \in Tasks |-> kid'[c]]
        /\ \A c \in Tasks : kid'[c] \in [1..Len(Code(c)) -> Tasks \union {NoTask}]
    BY <1>a, <1>0 DEF Typed
  <2>3. at' \in [Workers -> Nat] /\ DOMAIN by' = Tasks /\ made' \subseteq Tasks
    BY <1>a, <1>0 DEF Typed
  <2> QED BY <1>a, <1>0, <2>1, <2>2, <2>3 DEF Typed
<1>2. Ranges'
  BY <1>a, <1>0 DEF Typed, Ranges, LocalsOK
<1>3. LocalsOK'
  BY <1>a, <1>0 DEF Typed, Ranges, LocalsOK, AwaitPCs, LockPCs, TryPCs
<1>4. LockHeld'
  BY <1>a, <1>0 DEF Typed, LocalsOK, LockHeld, LockPCs, TryPCs
<1>5. ResultFirst'
  BY <1>a, <1>0 DEF Typed, LocalsOK, ResultFirst, TryPCs
<1>6. Owned'
  <2>1. \A i \in 1..Len(queue') : queue'[i] \in made'
    <3>1. \A c : InQueue(c)' <=> InQueue(c) \/ c = d
      BY <1>a, <1>0, QueueAppend DEF Typed
    <3>2. \A c : InQueue(c) => c \in made
      BY <1>a DEF Owned, InQueue
    <3> QED BY <1>0, <3>1, <3>2 DEF InQueue
  <2>2. /\ \A x \in Tasks : x # d => by'[x] = by[x]
        /\ by'[d] = <<running[w], at[w]>>
    BY <1>a, <1>0 DEF Typed
  <2>3. \A x \in Tasks : \A y : x # d /\ Child(x, y) => Child(x, y)'
    BY <2>2 DEF Child
  <2>4. ASSUME NEW c \in Tasks, NEW i \in 1..Len(Code(c)), kid'[c][i] # NoTask
        PROVE  /\ by'[kid'[c][i]] = <<c, i>> /\ kid'[c][i] \in made'
               /\ FunOf[kid'[c][i]] = Code(c)[i].of
    <3>1. CASE c = running[w] /\ i = at[w]
      <4>1. kid'[c][i] = d
        BY <1>k, <3>1
      <4> QED BY <1>0, <2>2, <3>1, <4>1
    <3>2. CASE ~(c = running[w] /\ i = at[w])
      <4>1. kid'[c][i] = kid[c][i] /\ kid[c][i] \in Tasks
        BY <1>a, <1>k, <2>4, <3>2 DEF Typed
      <4>2. by[kid[c][i]] = <<c, i>> /\ kid[c][i] \in made /\ FunOf[kid[c][i]] = Code(c)[i].of
        BY <1>a, <2>4, <4>1 DEF Owned
      <4>3. kid[c][i] # d /\ made' = made \union {d}
        BY <1>0, <4>2
      <4> QED BY <2>2, <4>1, <4>2, <4>3
    <3> QED BY <3>1, <3>2
  <2>5. \A v \in Workers : pc'[v] \in LockPCs => Child(op[v], running[v])' /\ op'[v] \in made'
    BY <1>a, <1>0, <2>3 DEF Owned, Typed
  <2>6. \A x, y \in Tasks : nextTask'[x] = y =>
            Child(x, y)' /\ y \in made' /\ x \in made' /\ KindOf(y) = "async"
    BY <1>a, <1>0, <2>3 DEF Owned
  <2>7. /\ \A v \in Workers : running'[v] # NoTask => running'[v] \in made'
        /\ \A th \in Threads : st'[th] # NoTask => st'[th] \in made'
        /\ \A c \in Tasks : armed'[c] > 0 \/ done'[c] => c \in made'
    BY <1>a, <1>0 DEF Owned
  <2> QED BY <1>0, <2>1, <2>4, <2>5, <2>6, <2>7 DEF Owned
<1>7. ExitMeans'
  <2>1. \A c \in Tasks : done[c] \/ Returning(c) => done'[c] \/ Returning(c)'
    BY <1>a, <1>0, <1>p DEF Returning
  <2>2. \A v \in Workers : pc'[v] = "body" /\ at'[v] = Exit(running'[v]) =>
            /\ pc[v] = "body" /\ at[v] = Exit(running[v])
            /\ running'[v] = running[v] /\ running[v] \in Tasks
    BY <1>a, <1>0, <1>p DEF LocalsOK, Typed
  <2> QED BY <1>a, <1>0, <2>1, <2>2, ExitKept
<1>8. NoLostContinuation'
  BY <1>a, <1>0, Fresh
<1>9. Once'
  BY <1>a, <1>0, Fresh
<1> QED BY <1>1, <1>2, <1>3, <1>4, <1>5, <1>6, <1>7, <1>8, <1>9 DEF Inv

\* A branch moves only the worker's place in the body.
LEMMA KeepsBranch ==
    ASSUME Inv, NEW w \in Workers, Branch(w) PROVE Inv'
<1> USE Consts
<1>a. /\ Typed /\ Ranges /\ LocalsOK /\ LockHeld /\ ResultFirst
      /\ Owned /\ ExitMeans /\ NoLostContinuation /\ Once
  BY DEF Inv
<1>0. /\ pc[w] = "body" /\ running[w] \in Tasks
      /\ \E i \in 1..(Len(Code(running[w])) + 1) : at' = [at EXCEPT ![w] = i]
      /\ UNCHANGED <<queue, running, made, by, kid, block, nextTask, done, result, lock, armed, pc, b, op, st>>
  <2>1. /\ pc[w] = "body" /\ running[w] \in Tasks /\ at[w] \in 1..Len(Code(running[w]))
        /\ Code(running[w])[at[w]].op = "branch"
    BY <1>a DEF Branch, InBody, At, Typed, Ranges, LocalsOK
  <2>2. Target(w) \in 1..(Len(Code(running[w])) + 1)
    BY <2>1, Statements DEF Target
  <2>3. at[w] + 1 \in 1..(Len(Code(running[w])) + 1)
    BY <2>1
  <2> QED BY <2>1, <2>2, <2>3 DEF Branch, heap, frame
<1>b. \A x, y : Child(x, y)' <=> Child(x, y)
  BY <1>0 DEF Child
<1>1. Typed'
  BY <1>a, <1>0 DEF Typed, PCs
<1>2. Ranges'
  BY <1>a, <1>0 DEF Typed, Ranges, LocalsOK
<1>3. LocalsOK'
  BY <1>a, <1>0 DEF Typed, Ranges, LocalsOK, AwaitPCs, LockPCs, TryPCs
<1>4. LockHeld'
  BY <1>a, <1>0 DEF Typed, LocalsOK, LockHeld, LockPCs, TryPCs
<1>5. ResultFirst'
  BY <1>a, <1>0 DEF Typed, LocalsOK, ResultFirst, TryPCs
<1>6. Owned'
  <2>1. \A v \in Workers : pc'[v] \in LockPCs =>
            pc[v] \in LockPCs /\ op'[v] = op[v] /\ running'[v] = running[v]
    BY <1>0 DEF LockPCs
  <2>2. /\ \A v \in Workers : running'[v] # NoTask => running'[v] \in made
        /\ \A v \in Threads : st'[v] # NoTask => st'[v] \in made
        /\ \A c \in Tasks : armed'[c] > 0 \/ done'[c] => c \in made
    BY <1>a, <1>0 DEF Owned
  <2>3. \A i \in 1..Len(queue') : queue'[i] \in made
    BY <1>a, <1>0 DEF Owned
  <2> QED BY <1>a, <1>0, <2>1, <2>2, <2>3, OwnedKept
<1>7. ExitMeans'
  <2>1. \A c \in Tasks : Returning(c) => Returning(c)'
    BY <1>0 DEF Returning
  <2>2. at'[w] # Exit(running[w]) /\ \A v \in Workers : v # w => at'[v] = at[v]
    BY <1>a, <1>0 DEF Typed
  <2> QED BY <1>a, <1>0, <2>1, <2>2 DEF ExitMeans, LocalsOK, Typed
<1>8. NoLostContinuation' /\ Once'
  <2>1. \A v \in Workers, c \in Tasks : Executes(v, c)' <=> Executes(v, c)
    BY <1>a, <1>0 DEF Typed, LocalsOK, Executes, Leaving
  <2>2. \A d, c \in Tasks : WillQueue(d, c)' <=> WillQueue(d, c)
    BY <1>a, <1>0 DEF Typed, WillQueue, At
  <2>3. GoesOn /\ made \subseteq Tasks
    BY <1>a, <1>0 DEF Typed, LocalsOK, TryPCs, GoesOn
  <2> QED BY <1>a, <1>0, <2>1, <2>2, <2>3, Quiet
<1> QED BY <1>1, <1>2, <1>3, <1>4, <1>5, <1>6, <1>7, <1>8 DEF Inv

\* The operand of an await is a machine the caller has made.
LEMMA KeepsAwaitLock ==
    ASSUME Inv, NEW w \in Workers, AwaitLock(w) PROVE Inv'
<1> USE Consts
<1>a. /\ Typed /\ Ranges /\ LocalsOK /\ LockHeld /\ ResultFirst
      /\ Owned /\ ExitMeans /\ NoLostContinuation /\ Once
  BY DEF Inv
<1>0. /\ pc[w] = "body" /\ running[w] \in Tasks /\ at[w] \in 1..Len(Code(running[w]))
      /\ AwaitMachine(w) \in made /\ Child(AwaitMachine(w), running[w])
      /\ lock[AwaitMachine(w)] = NoThread
      /\ lock' = [lock EXCEPT ![AwaitMachine(w)] = w] /\ op' = [op EXCEPT ![w] = AwaitMachine(w)]
      /\ pc' = [pc EXCEPT ![w] = "adone"]
      /\ UNCHANGED <<queue, running, made, by, kid, block, nextTask, done, result, armed, at, b, st>>
  <2>1. /\ pc[w] = "body" /\ running[w] \in Tasks /\ at[w] \in 1..Len(Code(running[w]))
        /\ Code(running[w])[at[w]].op = "await"
    BY <1>a DEF AwaitLock, InBody, At, Typed, Ranges, LocalsOK
  <2>2. /\ Target(w) \in 1..Len(Code(running[w]))
        /\ AwaitsFun(FunOf[running[w]], Code(running[w])[Target(w)].of)
    BY <2>1, Statements DEF Target
  <2>3. AwaitMachine(w) \in made /\ Child(AwaitMachine(w), running[w])
    BY <1>a, <2>1, <2>2 DEF AwaitLock, AwaitMachine, Owned, Child
  <2> QED BY <2>1, <2>3 DEF AwaitLock, Goto, heap
<1>p. /\ lock'[AwaitMachine(w)] = w /\ op'[w] = AwaitMachine(w) /\ pc'[w] = "adone"
      /\ \A x \in Workers : x # w => op'[x] = op[x]
      /\ \A x \in Threads : x # w => pc'[x] = pc[x]
  BY <1>a, <1>0 DEF Typed
<1>b. \A x, y : Child(x, y)' <=> Child(x, y)
  BY <1>0 DEF Child
<1>1. Typed'
  BY <1>a, <1>0 DEF Typed, PCs
<1>2. Ranges'
  BY <1>a, <1>0 DEF Typed, Ranges, LocalsOK
<1>3. LocalsOK'
  BY <1>a, <1>0 DEF Typed, Ranges, LocalsOK, AwaitPCs, LockPCs, TryPCs
<1>4. LockHeld'
  BY <1>a, <1>0 DEF Typed, LocalsOK, LockHeld, LockPCs, TryPCs
<1>5. ResultFirst'
  BY <1>a, <1>0 DEF Typed, LocalsOK, ResultFirst, TryPCs
<1>6. Owned'
  <2>1. \A v \in Workers : pc'[v] \in LockPCs => v = w \/ pc[v] \in LockPCs
    BY <1>p
  <2>2. Child(AwaitMachine(w), running[w])
    BY <1>0
  <2>3. ASSUME NEW v \in Workers, pc'[v] \in LockPCs
        PROVE  Child(op'[v], running[v]) /\ op'[v] \in made
    BY <1>a, <1>0, <1>p, <2>1, <2>2, <2>3 DEF Owned
  <2>4. \A v \in Workers : pc'[v] \in LockPCs => Child(op[v], running[v])' /\ op'[v] \in made'
    BY <1>0, <1>b, <2>3 DEF Child
  <2>5. \A c, d \in Tasks : nextTask'[d] = c =>
            Child(d, c)' /\ c \in made' /\ d \in made' /\ KindOf(c) = "async"
    BY <1>a, <1>0, <1>b DEF Owned
  <2> QED BY <1>a, <1>0, <2>4, <2>5 DEF Owned
<1>7. ExitMeans'
  <2>1. \A c \in Tasks : done[c] \/ Returning(c) => done'[c] \/ Returning(c)'
    BY <1>a, <1>0, <1>p DEF Returning
  <2>2. \A v \in Workers : pc'[v] = "body" /\ at'[v] = Exit(running'[v]) =>
            /\ pc[v] = "body" /\ at[v] = Exit(running[v])
            /\ running'[v] = running[v] /\ running[v] \in Tasks
    BY <1>a, <1>0, <1>p DEF LocalsOK, Typed
  <2> QED BY <1>a, <1>0, <2>1, <2>2, ExitKept
<1>8. NoLostContinuation' /\ Once'
  <2>1. \A v \in Workers, c \in Tasks : Executes(v, c)' <=> Executes(v, c)
    BY <1>a, <1>0 DEF Typed, LocalsOK, Executes, Leaving
  <2>2. \A d, c \in Tasks : WillQueue(d, c)' <=> WillQueue(d, c)
    BY <1>a, <1>0 DEF Typed, WillQueue, At
  <2>3. GoesOn /\ made \subseteq Tasks
    BY <1>a, <1>0 DEF Typed, LocalsOK, TryPCs, GoesOn
  <2> QED BY <1>a, <1>0, <2>1, <2>2, <2>3, Quiet
<1> QED BY <1>1, <1>2, <1>3, <1>4, <1>5, <1>6, <1>7, <1>8 DEF Inv

\* What IsDone returns holds under the mutex.
LEMMA KeepsAwaitIsDone ==
    ASSUME Inv, NEW w \in Workers, AwaitIsDone(w) PROVE Inv'
<1> USE Consts
<1>a. /\ Typed /\ Ranges /\ LocalsOK /\ LockHeld /\ ResultFirst
      /\ Owned /\ ExitMeans /\ NoLostContinuation /\ Once
  BY DEF Inv
<1>0. /\ pc[w] = "adone" /\ running[w] \in Tasks /\ op[w] \in Tasks
      /\ b' = [b EXCEPT ![w] = done[op[w]]]
      /\ pc' = [pc EXCEPT ![w] = "anext"]
      /\ UNCHANGED <<queue, running, made, by, kid, block, nextTask, done, result, lock, armed, at, op, st>>
  BY <1>a DEF AwaitIsDone, Goto, At, heap, frame, Typed, LocalsOK, AwaitPCs, LockPCs, TryPCs
<1>p. /\ b'[w] = done[op[w]] /\ \A x \in Workers : x # w => b'[x] = b[x]
      /\ pc'[w] = "anext" /\ \A x \in Threads : x # w => pc'[x] = pc[x]
  BY <1>a, <1>0 DEF Typed
<1>b. \A x, y : Child(x, y)' <=> Child(x, y)
  BY <1>0 DEF Child
<1>1. Typed'
  BY <1>a, <1>0 DEF Typed, PCs
<1>2. Ranges'
  BY <1>a, <1>0 DEF Typed, Ranges, LocalsOK
<1>3. LocalsOK'
  BY <1>a, <1>0 DEF Typed, Ranges, LocalsOK, AwaitPCs, LockPCs, TryPCs
<1>4. LockHeld'
  BY <1>a, <1>0 DEF Typed, LocalsOK, LockHeld, LockPCs, TryPCs
<1>5. ResultFirst'
  BY <1>a, <1>0 DEF Typed, LocalsOK, ResultFirst, TryPCs
<1>6. Owned'
  <2>1. \A v \in Workers : pc'[v] \in LockPCs =>
            pc[v] \in LockPCs /\ op'[v] = op[v] /\ running'[v] = running[v]
    BY <1>0, <1>p DEF LockPCs
  <2>2. /\ \A v \in Workers : running'[v] # NoTask => running'[v] \in made
        /\ \A v \in Threads : st'[v] # NoTask => st'[v] \in made
        /\ \A c \in Tasks : armed'[c] > 0 \/ done'[c] => c \in made
    BY <1>a, <1>0, <1>p DEF Owned
  <2>3. \A i \in 1..Len(queue') : queue'[i] \in made
    BY <1>a, <1>0 DEF Owned
  <2> QED BY <1>a, <1>0, <2>1, <2>2, <2>3, OwnedKept
<1>7. ExitMeans'
  <2>1. \A c \in Tasks : done[c] \/ Returning(c) => done'[c] \/ Returning(c)'
    BY <1>a, <1>0, <1>p DEF Returning
  <2>2. \A v \in Workers : pc'[v] = "body" /\ at'[v] = Exit(running'[v]) =>
            /\ pc[v] = "body" /\ at[v] = Exit(running[v])
            /\ running'[v] = running[v] /\ running[v] \in Tasks
    BY <1>a, <1>0, <1>p DEF LocalsOK, Typed
  <2> QED BY <1>a, <1>0, <2>1, <2>2, ExitKept
<1>8. NoLostContinuation' /\ Once'
  <2>1. \A v \in Workers, c \in Tasks : Executes(v, c)' <=> Executes(v, c)
    BY <1>a, <1>0 DEF Typed, LocalsOK, Executes, Leaving
  <2>2. \A d, c \in Tasks : WillQueue(d, c)' <=> WillQueue(d, c)
    BY <1>a, <1>0 DEF Typed, WillQueue, At
  <2>3. GoesOn /\ made \subseteq Tasks
    BY <1>a, <1>0 DEF Typed, LocalsOK, TryPCs, GoesOn
  <2> QED BY <1>a, <1>0, <2>1, <2>2, <2>3, Quiet
<1> QED BY <1>1, <1>2, <1>3, <1>4, <1>5, <1>6, <1>7, <1>8 DEF Inv

\* A machine moves from its worker to the unfinished machine it awaits.
LEMMA KeepsAwaitSetNext ==
    ASSUME Inv, NEW w \in Workers, AwaitSetNext(w) PROVE Inv'
<1> USE Consts
<1>a. /\ Typed /\ Ranges /\ LocalsOK /\ LockHeld /\ ResultFirst
      /\ Owned /\ ExitMeans /\ NoLostContinuation /\ Once
  BY DEF Inv
<1>0. /\ pc[w] = "anext" /\ running[w] \in Tasks /\ op[w] \in Tasks
      /\ nextTask' = IF b[w] THEN nextTask ELSE [nextTask EXCEPT ![op[w]] = running[w]]
      /\ pc' = [pc EXCEPT ![w] = "aunlock"]
      /\ UNCHANGED <<queue, running, made, by, kid, block, done, result, lock, armed, at, b, op, st>>
  BY <1>a DEF AwaitSetNext, Goto, At, heap, Typed, LocalsOK, AwaitPCs, LockPCs, TryPCs
<1>p. /\ pc'[w] = "aunlock" /\ \A x \in Threads : x # w => pc'[x] = pc[x]
      /\ \A x \in Tasks : nextTask'[x] = IF ~b[w] /\ x = op[w] THEN running[w] ELSE nextTask[x]
  BY <1>a, <1>0 DEF Typed
<1>b. \A x, y : Child(x, y)' <=> Child(x, y)
  BY <1>0 DEF Child
<1>1. Typed'
  BY <1>a, <1>0 DEF Typed, PCs
<1>2. Ranges'
  BY <1>a, <1>0 DEF Typed, Ranges, LocalsOK
<1>3. LocalsOK'
  BY <1>a, <1>0 DEF Typed, Ranges, LocalsOK, AwaitPCs, LockPCs, TryPCs
<1>4. LockHeld'
  BY <1>a, <1>0 DEF Typed, LocalsOK, LockHeld, LockPCs, TryPCs
<1>5. ResultFirst'
  BY <1>a, <1>0 DEF Typed, LocalsOK, ResultFirst, TryPCs
<1>6. Owned'
  <2>1. /\ Child(op[w], running[w]) /\ op[w] \in made /\ running[w] \in made
        /\ KindOf(running[w]) = "async"
    BY <1>a, <1>0 DEF Owned, LocalsOK, LockPCs
  <2>2. \A v \in Workers : pc'[v] \in LockPCs => pc[v] \in LockPCs
    BY <1>0, <1>p DEF LockPCs
  <2>3. \A v \in Workers : pc'[v] \in LockPCs => Child(op[v], running[v])' /\ op'[v] \in made'
    BY <1>a, <1>0, <1>b, <2>2 DEF Owned
  <2>4. ASSUME NEW c \in Tasks, NEW d \in Tasks, nextTask'[d] = c
        PROVE  Child(d, c)' /\ c \in made' /\ d \in made' /\ KindOf(c) = "async"
    BY <1>a, <1>0, <1>b, <1>p, <2>1, <2>4 DEF Owned
  <2> QED BY <1>a, <1>0, <2>3, <2>4 DEF Owned
<1>7. ExitMeans'
  <2>1. \A c \in Tasks : done[c] \/ Returning(c) => done'[c] \/ Returning(c)'
    BY <1>a, <1>0, <1>p DEF Returning
  <2>2. \A v \in Workers : pc'[v] = "body" /\ at'[v] = Exit(running'[v]) =>
            /\ pc[v] = "body" /\ at[v] = Exit(running[v])
            /\ running'[v] = running[v] /\ running[v] \in Tasks
    BY <1>a, <1>0, <1>p DEF LocalsOK, Typed
  <2> QED BY <1>a, <1>0, <2>1, <2>2, ExitKept
<1>8. NoLostContinuation' /\ Once'
  <2>1. CASE b[w]
    <3>1. \A v \in Workers, c \in Tasks : Executes(v, c)' <=> Executes(v, c)
      BY <1>0, <1>p, <2>1 DEF Executes, Leaving
    <3>2. \A d, c \in Tasks : WillQueue(d, c)' <=> WillQueue(d, c)
      BY <1>0, <1>p, <2>1 DEF WillQueue, At
    <3>3. GoesOn /\ made \subseteq Tasks
      BY <1>a, <1>0, <1>p DEF Typed, GoesOn
    <3> QED BY <1>a, <1>0, <3>1, <3>2, <3>3, Quiet
  <2>2. CASE ~b[w]
    <3>1. /\ ~done[op[w]] /\ Child(op[w], running[w]) /\ Executes(w, running[w])
      BY <1>a, <1>0, <2>2 DEF LockHeld, Owned, Executes, Leaving, LockPCs
    <3>2. \A v \in Workers, c \in Tasks : Executes(v, c)' <=> Executes(v, c) /\ v # w
      BY <1>0, <1>p, <2>2 DEF Executes, Leaving
    <3>3. \A c \in Tasks : nextTask[op[w]] = c => c = running[w]
      BY <1>a, <1>0, <3>1, OneMaker DEF Owned
    <3>4. \A d, c \in Tasks :
              WillQueue(d, c)' <=> WillQueue(d, c) \/ (d = op[w] /\ c = running[w])
      BY <1>0, <1>p, <2>2, <3>1, <3>3 DEF WillQueue, At
    <3>5. NoLostContinuation'
      <4>1. \A c : InQueue(c)' <=> InQueue(c)
        BY <1>0 DEF InQueue
      <4>2. \A c \in Tasks : Executes(w, c) => c = running[w]
        BY DEF Executes
      <4>3. \A c \in Tasks : Placed(c) => Placed(c)'
        BY <1>0, <3>2, <3>4, <4>1, <4>2 DEF Placed
      <4> QED BY <1>a, <1>0, <4>3, NoneLost DEF Typed
    <3>6. ASSUME NEW c \in Tasks, Single(c) PROVE OnePlace(c)' /\ CompletesOnce(c)'
      <4>1. OnePlace(c) /\ CompletesOnce(c)
        BY <1>a, <3>6 DEF Once
      <4>2. (InQueue(c)' <=> InQueue(c)) /\ (QueueOnce(c)' <=> QueueOnce(c))
        BY <1>0 DEF InQueue, QueueOnce
      <4>3. c = running[w] => /\ ~InQueue(c) /\ ~done[c]
                              /\ \A v \in Workers : Executes(v, c) => v = w
                              /\ \A d \in Tasks : ~WillQueue(d, c)
        BY <1>0, <3>1, <4>1 DEF OnePlace, CompletesOnce
      <4>4. OnePlace(c)'
        BY <3>2, <3>4, <4>1, <4>2, <4>3 DEF OnePlace
      <4>5. CompletesOnce(c)'
        BY <1>0, <1>p, <3>2, <3>4, <4>1, <4>2, <4>3 DEF CompletesOnce
      <4> QED BY <4>4, <4>5
    <3> QED BY <3>5, <3>6 DEF Once
  <2> QED BY <2>1, <2>2
<1> QED BY <1>1, <1>2, <1>3, <1>4, <1>5, <1>6, <1>7, <1>8 DEF Inv

\* Unlocking moves no machine.
LEMMA KeepsAwaitUnLock ==
    ASSUME Inv, NEW w \in Workers, AwaitUnLock(w) PROVE Inv'
<1> USE Consts
<1>a. /\ Typed /\ Ranges /\ LocalsOK /\ LockHeld /\ ResultFirst
      /\ Owned /\ ExitMeans /\ NoLostContinuation /\ Once
  BY DEF Inv
<1>0. /\ pc[w] = "aunlock" /\ running[w] \in Tasks /\ op[w] \in Tasks
      /\ lock' = [lock EXCEPT ![op[w]] = NoThread]
      /\ op' = [op EXCEPT ![w] = NoTask]
      /\ pc' = [pc EXCEPT ![w] = "astore"]
      /\ UNCHANGED <<queue, running, made, by, kid, block, nextTask, done, result, armed, at, b, st>>
  BY <1>a DEF AwaitUnLock, Goto, At, heap, Typed, LocalsOK, AwaitPCs, LockPCs, TryPCs
<1>p. /\ lock'[op[w]] = NoThread /\ \A x \in Tasks : x # op[w] => lock'[x] = lock[x]
      /\ op'[w] = NoTask /\ \A x \in Workers : x # w => op'[x] = op[x]
      /\ pc'[w] = "astore" /\ \A x \in Threads : x # w => pc'[x] = pc[x]
  BY <1>a, <1>0 DEF Typed
<1>b. \A x, y : Child(x, y)' <=> Child(x, y)
  BY <1>0 DEF Child
<1>1. Typed'
  BY <1>a, <1>0 DEF Typed, PCs
<1>2. Ranges'
  BY <1>a, <1>0 DEF Typed, Ranges, LocalsOK
<1>3. LocalsOK'
  BY <1>a, <1>0 DEF Typed, Ranges, LocalsOK, AwaitPCs, LockPCs, TryPCs
<1>4. LockHeld'
  BY <1>a, <1>0 DEF Typed, LocalsOK, LockHeld, LockPCs, TryPCs
<1>5. ResultFirst'
  BY <1>a, <1>0 DEF Typed, LocalsOK, ResultFirst, TryPCs
<1>6. Owned'
  <2>1. \A v \in Workers : pc'[v] \in LockPCs =>
            pc[v] \in LockPCs /\ op'[v] = op[v] /\ running'[v] = running[v]
    BY <1>0, <1>p DEF LockPCs
  <2>2. /\ \A v \in Workers : running'[v] # NoTask => running'[v] \in made
        /\ \A v \in Threads : st'[v] # NoTask => st'[v] \in made
        /\ \A c \in Tasks : armed'[c] > 0 \/ done'[c] => c \in made
    BY <1>a, <1>0, <1>p DEF Owned
  <2>3. \A i \in 1..Len(queue') : queue'[i] \in made
    BY <1>a, <1>0 DEF Owned
  <2> QED BY <1>a, <1>0, <2>1, <2>2, <2>3, OwnedKept
<1>7. ExitMeans'
  <2>1. \A c \in Tasks : done[c] \/ Returning(c) => done'[c] \/ Returning(c)'
    BY <1>a, <1>0, <1>p DEF Returning
  <2>2. \A v \in Workers : pc'[v] = "body" /\ at'[v] = Exit(running'[v]) =>
            /\ pc[v] = "body" /\ at[v] = Exit(running[v])
            /\ running'[v] = running[v] /\ running[v] \in Tasks
    BY <1>a, <1>0, <1>p DEF LocalsOK, Typed
  <2> QED BY <1>a, <1>0, <2>1, <2>2, ExitKept
<1>8. NoLostContinuation' /\ Once'
  <2>1. \A v \in Workers, c \in Tasks : Executes(v, c)' <=> Executes(v, c)
    BY <1>a, <1>0 DEF Typed, LocalsOK, Executes, Leaving
  <2>2. \A d, c \in Tasks : WillQueue(d, c)' <=> WillQueue(d, c)
    BY <1>a, <1>0 DEF Typed, WillQueue, At
  <2>3. GoesOn /\ made \subseteq Tasks
    BY <1>a, <1>0 DEF Typed, LocalsOK, TryPCs, GoesOn
  <2> QED BY <1>a, <1>0, <2>1, <2>2, <2>3, Quiet
<1> QED BY <1>1, <1>2, <1>3, <1>4, <1>5, <1>6, <1>7, <1>8 DEF Inv

\* The late store of the resume block moves no machine and is not .exit.
LEMMA KeepsAwaitStore ==
    ASSUME Inv, NEW w \in Workers, AwaitStore(w) PROVE Inv'
<1> USE Consts
<1>a. /\ Typed /\ Ranges /\ LocalsOK /\ LockHeld /\ ResultFirst
      /\ Owned /\ ExitMeans /\ NoLostContinuation /\ Once
  BY DEF Inv
<1>0. /\ pc[w] = "astore" /\ running[w] \in Tasks /\ at[w] \in 1..Len(Code(running[w]))
      /\ block' = [block EXCEPT ![running[w]] = at[w] + 1]
      /\ pc' = [pc EXCEPT ![w] = "aret"]
      /\ UNCHANGED <<queue, running, made, by, kid, nextTask, done, result, lock, armed, at, b, op, st>>
  BY <1>a DEF AwaitStore, Goto, At, heap, Typed, LocalsOK, AwaitPCs, LockPCs, TryPCs
<1>p. /\ block'[running[w]] = at[w] + 1 /\ \A x \in Tasks : x # running[w] => block'[x] = block[x]
      /\ pc'[w] = "aret" /\ \A x \in Threads : x # w => pc'[x] = pc[x]
  BY <1>a, <1>0 DEF Typed
<1>b. \A x, y : Child(x, y)' <=> Child(x, y)
  BY <1>0 DEF Child
<1>1. Typed'
  BY <1>a, <1>0 DEF Typed, PCs
<1>2. Ranges'
  BY <1>a, <1>0 DEF Typed, Ranges, LocalsOK
<1>3. LocalsOK'
  BY <1>a, <1>0 DEF Typed, Ranges, LocalsOK, AwaitPCs, LockPCs, TryPCs
<1>4. LockHeld'
  BY <1>a, <1>0 DEF Typed, LocalsOK, LockHeld, LockPCs, TryPCs
<1>5. ResultFirst'
  BY <1>a, <1>0 DEF Typed, LocalsOK, ResultFirst, TryPCs
<1>6. Owned'
  <2>1. \A v \in Workers : pc'[v] \in LockPCs =>
            pc[v] \in LockPCs /\ op'[v] = op[v] /\ running'[v] = running[v]
    BY <1>0, <1>p DEF LockPCs
  <2>2. /\ \A v \in Workers : running'[v] # NoTask => running'[v] \in made
        /\ \A v \in Threads : st'[v] # NoTask => st'[v] \in made
        /\ \A c \in Tasks : armed'[c] > 0 \/ done'[c] => c \in made
    BY <1>a, <1>0, <1>p DEF Owned
  <2>3. \A i \in 1..Len(queue') : queue'[i] \in made
    BY <1>a, <1>0 DEF Owned
  <2> QED BY <1>a, <1>0, <2>1, <2>2, <2>3, OwnedKept
<1>7. ExitMeans'
  <2>1. \A c \in Tasks : Returning(c) => Returning(c)'
    BY <1>0, <1>p DEF Returning
  <2>2. at[w] + 1 # Exit(running[w])
    BY <1>0
  <2> QED BY <1>a, <1>0, <1>p, <2>1, <2>2 DEF ExitMeans, LocalsOK, Typed
<1>8. NoLostContinuation' /\ Once'
  <2>1. \A v \in Workers, c \in Tasks : Executes(v, c)' <=> Executes(v, c)
    BY <1>a, <1>0 DEF Typed, LocalsOK, Executes, Leaving
  <2>2. \A d, c \in Tasks : WillQueue(d, c)' <=> WillQueue(d, c)
    BY <1>a, <1>0 DEF Typed, WillQueue, At
  <2>3. GoesOn /\ made \subseteq Tasks
    BY <1>a, <1>0 DEF Typed, LocalsOK, TryPCs, GoesOn
  <2> QED BY <1>a, <1>0, <2>1, <2>2, <2>3, Quiet
<1> QED BY <1>1, <1>2, <1>3, <1>4, <1>5, <1>6, <1>7, <1>8 DEF Inv

\* A worker that leaves has given its machine away.
LEMMA KeepsAwaitRet ==
    ASSUME Inv, NEW w \in Workers, AwaitRet(w) PROVE Inv'
<1> USE Consts
<1>a. /\ Typed /\ Ranges /\ LocalsOK /\ LockHeld /\ ResultFirst
      /\ Owned /\ ExitMeans /\ NoLostContinuation /\ Once
  BY DEF Inv
<1>0. /\ pc[w] = "aret" /\ running[w] \in Tasks
      /\ \/ b[w] /\ pc' = [pc EXCEPT ![w] = "step"] /\ UNCHANGED <<running, at, b>>
         \/ /\ ~b[w] /\ pc' = [pc EXCEPT ![w] = "idle"]
            /\ running' = [running EXCEPT ![w] = NoTask]
            /\ at' = [at EXCEPT ![w] = 0] /\ b' = [b EXCEPT ![w] = FALSE]
      /\ UNCHANGED <<queue, made, by, kid, block, nextTask, done, result, lock, armed, op, st>>
  BY <1>a DEF AwaitRet, Leave, Finish, Goto, At, heap, frame, Typed, LocalsOK, AwaitPCs, LockPCs, TryPCs
<1>p. /\ pc'[w] \in {"idle", "step"} /\ (pc'[w] = "idle" <=> running'[w] = NoTask)
      /\ running'[w] \in {running[w], NoTask} /\ (~b[w] => running'[w] = NoTask)
      /\ \A x \in Threads : x # w => pc'[x] = pc[x]
      /\ \A x \in Workers : x # w => running'[x] = running[x] /\ at'[x] = at[x] /\ b'[x] = b[x]
  BY <1>a, <1>0 DEF Typed
<1>b. \A x, y : Child(x, y)' <=> Child(x, y)
  BY <1>0 DEF Child
<1>1. Typed'
  <2>1. CASE b[w]
    BY <1>a, <1>0, <2>1 DEF Typed, PCs
  <2>2. CASE ~b[w]
    <3>1. pc' \in [Threads -> PCs] /\ running' \in [Workers -> Tasks \union {NoTask}]
      BY <1>a, <1>0, <2>2 DEF Typed, PCs
    <3>2. at' \in [Workers -> Nat]
      <4>1. at' = [at EXCEPT ![w] = 0]
        BY <1>0, <2>2
      <4> QED BY <1>a, <4>1 DEF Typed
    <3>3. b' \in [Workers -> BOOLEAN]
      BY <1>a, <1>0, <2>2 DEF Typed
    <3> QED BY <1>a, <1>0, <3>1, <3>2, <3>3 DEF Typed
  <2> QED BY <2>1, <2>2
<1>2. Ranges'
  BY <1>a, <1>0, <1>p DEF Ranges
<1>3. LocalsOK'
  BY <1>a, <1>0, <1>p DEF LocalsOK, AwaitPCs, LockPCs, TryPCs
<1>4. LockHeld'
  BY <1>a, <1>0, <1>p DEF LockHeld, LockPCs
<1>5. ResultFirst'
  BY <1>a, <1>0, <1>p DEF ResultFirst
<1>6. Owned'
  <2>1. \A v \in Workers : pc'[v] \in LockPCs =>
            pc[v] \in LockPCs /\ op'[v] = op[v] /\ running'[v] = running[v]
    BY <1>0, <1>p DEF LockPCs
  <2>2. /\ \A v \in Workers : running'[v] # NoTask => running'[v] \in made
        /\ \A v \in Threads : st'[v] # NoTask => st'[v] \in made
        /\ \A c \in Tasks : armed'[c] > 0 \/ done'[c] => c \in made
    BY <1>a, <1>0, <1>p DEF Owned
  <2>3. \A i \in 1..Len(queue') : queue'[i] \in made
    BY <1>a, <1>0 DEF Owned
  <2> QED BY <1>a, <1>0, <2>1, <2>2, <2>3, OwnedKept
<1>7. ExitMeans'
  <2>1. \A c \in Tasks : done[c] \/ Returning(c) => done'[c] \/ Returning(c)'
    BY <1>a, <1>0, <1>p DEF Returning
  <2>2. \A v \in Workers : pc'[v] = "body" /\ at'[v] = Exit(running'[v]) =>
            /\ pc[v] = "body" /\ at[v] = Exit(running[v])
            /\ running'[v] = running[v] /\ running[v] \in Tasks
    BY <1>a, <1>0, <1>p DEF LocalsOK, Typed
  <2> QED BY <1>a, <1>0, <2>1, <2>2, ExitKept
<1>8. NoLostContinuation' /\ Once'
  <2>1. \A v \in Workers, c \in Tasks : Executes(v, c)' <=> Executes(v, c)
    BY <1>a, <1>0 DEF Typed, LocalsOK, Executes, Leaving
  <2>2. \A d, c \in Tasks : WillQueue(d, c)' <=> WillQueue(d, c)
    BY <1>a, <1>0 DEF Typed, WillQueue, At
  <2>3. GoesOn /\ made \subseteq Tasks
    BY <1>a, <1>0 DEF Typed, LocalsOK, TryPCs, GoesOn
  <2> QED BY <1>a, <1>0, <2>1, <2>2, <2>3, Quiet
<1> QED BY <1>1, <1>2, <1>3, <1>4, <1>5, <1>6, <1>7, <1>8 DEF Inv

\* A return saves .exit and is about to complete its machine.
LEMMA KeepsRetStoreBlock ==
    ASSUME Inv, NEW w \in Workers, RetStoreBlock(w) PROVE Inv'
<1> USE Consts
<1>a. /\ Typed /\ Ranges /\ LocalsOK /\ LockHeld /\ ResultFirst
      /\ Owned /\ ExitMeans /\ NoLostContinuation /\ Once
  BY DEF Inv
<1>0. /\ pc[w] = "body" /\ running[w] \in Tasks
      /\ block' = [block EXCEPT ![running[w]] = Exit(running[w])]
      /\ pc' = [pc EXCEPT ![w] = "rresult"]
      /\ UNCHANGED <<queue, running, made, by, kid, nextTask, done, result, lock, armed, at, b, op, st>>
  BY <1>a DEF RetStoreBlock, Goto, At, heap, Typed, LocalsOK, AwaitPCs, LockPCs, TryPCs
<1>p. /\ block'[running[w]] = Exit(running[w]) /\ \A x \in Tasks : x # running[w] => block'[x] = block[x]
      /\ pc'[w] = "rresult" /\ \A x \in Threads : x # w => pc'[x] = pc[x]
  BY <1>a, <1>0 DEF Typed
<1>b. \A x, y : Child(x, y)' <=> Child(x, y)
  BY <1>0 DEF Child
<1>1. Typed'
  BY <1>a, <1>0 DEF Typed, PCs
<1>2. Ranges'
  BY <1>a, <1>0 DEF Typed, Ranges, LocalsOK
<1>3. LocalsOK'
  BY <1>a, <1>0 DEF Typed, Ranges, LocalsOK, AwaitPCs, LockPCs, TryPCs
<1>4. LockHeld'
  BY <1>a, <1>0 DEF Typed, LocalsOK, LockHeld, LockPCs, TryPCs
<1>5. ResultFirst'
  BY <1>a, <1>0 DEF Typed, LocalsOK, ResultFirst, TryPCs
<1>6. Owned'
  <2>1. \A v \in Workers : pc'[v] \in LockPCs =>
            pc[v] \in LockPCs /\ op'[v] = op[v] /\ running'[v] = running[v]
    BY <1>0, <1>p DEF LockPCs
  <2>2. /\ \A v \in Workers : running'[v] # NoTask => running'[v] \in made
        /\ \A v \in Threads : st'[v] # NoTask => st'[v] \in made
        /\ \A c \in Tasks : armed'[c] > 0 \/ done'[c] => c \in made
    BY <1>a, <1>0, <1>p DEF Owned
  <2>3. \A i \in 1..Len(queue') : queue'[i] \in made
    BY <1>a, <1>0 DEF Owned
  <2> QED BY <1>a, <1>0, <2>1, <2>2, <2>3, OwnedKept
<1>7. ExitMeans'
  <2>1. Returning(running[w])' /\ \A c \in Tasks : Returning(c) => Returning(c)'
    BY <1>0, <1>p DEF Returning
  <2> QED BY <1>a, <1>0, <1>p, <2>1 DEF ExitMeans, LocalsOK, Typed
<1>8. NoLostContinuation' /\ Once'
  <2>1. \A v \in Workers, c \in Tasks : Executes(v, c)' <=> Executes(v, c)
    BY <1>a, <1>0 DEF Typed, LocalsOK, Executes, Leaving
  <2>2. \A d, c \in Tasks : WillQueue(d, c)' <=> WillQueue(d, c)
    BY <1>a, <1>0 DEF Typed, WillQueue, At
  <2>3. GoesOn /\ made \subseteq Tasks
    BY <1>a, <1>0 DEF Typed, LocalsOK, TryPCs, GoesOn
  <2> QED BY <1>a, <1>0, <2>1, <2>2, <2>3, Quiet
<1> QED BY <1>1, <1>2, <1>3, <1>4, <1>5, <1>6, <1>7, <1>8 DEF Inv

\* The result is stored before the machine is completed.
LEMMA KeepsRetStoreResult ==
    ASSUME Inv, NEW w \in Workers, RetStoreResult(w) PROVE Inv'
<1> USE Consts
<1>a. /\ Typed /\ Ranges /\ LocalsOK /\ LockHeld /\ ResultFirst
      /\ Owned /\ ExitMeans /\ NoLostContinuation /\ Once
  BY DEF Inv
<1>0. /\ pc[w] = "rresult" /\ running[w] \in Tasks
      /\ result' = [result EXCEPT ![running[w]] = TRUE]
      /\ st' = [st EXCEPT ![w] = running[w]]
      /\ pc' = [pc EXCEPT ![w] = "tlock"]
      /\ UNCHANGED <<queue, running, made, by, kid, block, nextTask, done, lock, armed, at, b, op>>
  BY <1>a DEF RetStoreResult, Goto, At, heap, Typed, LocalsOK, AwaitPCs, LockPCs, TryPCs
<1>p. /\ result'[running[w]] = TRUE /\ \A x \in Tasks : x # running[w] => result'[x] = result[x]
      /\ st'[w] = running[w] /\ \A x \in Threads : x # w => st'[x] = st[x]
      /\ pc'[w] = "tlock" /\ \A x \in Threads : x # w => pc'[x] = pc[x]
  BY <1>a, <1>0 DEF Typed
<1>b. \A x, y : Child(x, y)' <=> Child(x, y)
  BY <1>0 DEF Child
<1>1. Typed'
  BY <1>a, <1>0 DEF Typed, PCs
<1>2. Ranges'
  BY <1>a, <1>0 DEF Typed, Ranges, LocalsOK
<1>3. LocalsOK'
  BY <1>a, <1>0 DEF Typed, Ranges, LocalsOK, AwaitPCs, LockPCs, TryPCs
<1>4. LockHeld'
  BY <1>a, <1>0 DEF Typed, LocalsOK, LockHeld, LockPCs, TryPCs
<1>5. ResultFirst'
  BY <1>a, <1>0 DEF Typed, LocalsOK, ResultFirst, TryPCs
<1>6. Owned'
  <2>1. \A v \in Workers : pc'[v] \in LockPCs =>
            pc[v] \in LockPCs /\ op'[v] = op[v] /\ running'[v] = running[v]
    BY <1>0, <1>p DEF LockPCs
  <2>2. /\ \A v \in Workers : running'[v] # NoTask => running'[v] \in made
        /\ \A v \in Threads : st'[v] # NoTask => st'[v] \in made
        /\ \A c \in Tasks : armed'[c] > 0 \/ done'[c] => c \in made
    BY <1>a, <1>0, <1>p DEF Owned
  <2>3. \A i \in 1..Len(queue') : queue'[i] \in made
    BY <1>a, <1>0 DEF Owned
  <2> QED BY <1>a, <1>0, <2>1, <2>2, <2>3, OwnedKept
<1>7. ExitMeans'
  <2>1. \A c \in Tasks : done[c] \/ Returning(c) => done'[c] \/ Returning(c)'
    BY <1>a, <1>0, <1>p DEF Returning
  <2>2. \A v \in Workers : pc'[v] = "body" /\ at'[v] = Exit(running'[v]) =>
            /\ pc[v] = "body" /\ at[v] = Exit(running[v])
            /\ running'[v] = running[v] /\ running[v] \in Tasks
    BY <1>a, <1>0, <1>p DEF LocalsOK, Typed
  <2> QED BY <1>a, <1>0, <2>1, <2>2, ExitKept
<1>8. NoLostContinuation' /\ Once'
  <2>1. \A v \in Workers, c \in Tasks : Executes(v, c)' <=> Executes(v, c)
    BY <1>a, <1>0 DEF Typed, LocalsOK, Executes, Leaving
  <2>2. \A d, c \in Tasks : WillQueue(d, c)' <=> WillQueue(d, c)
    BY <1>a, <1>0 DEF Typed, WillQueue, At
  <2>3. GoesOn /\ made \subseteq Tasks
    BY <1>a, <1>0 DEF Typed, LocalsOK, TryPCs, GoesOn
  <2> QED BY <1>a, <1>0, <2>1, <2>2, <2>3, Quiet
<1> QED BY <1>1, <1>2, <1>3, <1>4, <1>5, <1>6, <1>7, <1>8 DEF Inv

\* A completed machine leaves its worker.
LEMMA KeepsRetFalse ==
    ASSUME Inv, NEW w \in Workers, RetFalse(w) PROVE Inv'
<1> USE Consts
<1>a. /\ Typed /\ Ranges /\ LocalsOK /\ LockHeld /\ ResultFirst
      /\ Owned /\ ExitMeans /\ NoLostContinuation /\ Once
  BY DEF Inv
<1>0. /\ pc[w] = "rfalse" /\ running[w] \in Tasks
      /\ pc' = [pc EXCEPT ![w] = "idle"]
      /\ running' = [running EXCEPT ![w] = NoTask]
      /\ at' = [at EXCEPT ![w] = 0]
      /\ b' = [b EXCEPT ![w] = FALSE]
      /\ UNCHANGED <<queue, made, by, kid, block, nextTask, done, result, lock, armed, op, st>>
  BY <1>a DEF RetFalse, Leave, Finish, Goto, At, heap, frame, Typed, LocalsOK, AwaitPCs, LockPCs, TryPCs
<1>p. /\ pc'[w] = "idle" /\ \A x \in Threads : x # w => pc'[x] = pc[x]
      /\ running'[w] = NoTask /\ \A x \in Workers : x # w => running'[x] = running[x]
      /\ at'[w] = 0 /\ \A x \in Workers : x # w => at'[x] = at[x]
      /\ b'[w] = FALSE /\ \A x \in Workers : x # w => b'[x] = b[x]
  BY <1>a, <1>0 DEF Typed
<1>b. \A x, y : Child(x, y)' <=> Child(x, y)
  BY <1>0 DEF Child
<1>1. Typed'
  BY <1>a, <1>0 DEF Typed, PCs
<1>2. Ranges'
  BY <1>a, <1>0 DEF Typed, Ranges, LocalsOK
<1>3. LocalsOK'
  BY <1>a, <1>0 DEF Typed, Ranges, LocalsOK, AwaitPCs, LockPCs, TryPCs
<1>4. LockHeld'
  BY <1>a, <1>0 DEF Typed, LocalsOK, LockHeld, LockPCs, TryPCs
<1>5. ResultFirst'
  BY <1>a, <1>0 DEF Typed, LocalsOK, ResultFirst, TryPCs
<1>6. Owned'
  <2>1. \A v \in Workers : pc'[v] \in LockPCs =>
            pc[v] \in LockPCs /\ op'[v] = op[v] /\ running'[v] = running[v]
    BY <1>0, <1>p DEF LockPCs
  <2>2. /\ \A v \in Workers : running'[v] # NoTask => running'[v] \in made
        /\ \A v \in Threads : st'[v] # NoTask => st'[v] \in made
        /\ \A c \in Tasks : armed'[c] > 0 \/ done'[c] => c \in made
    BY <1>a, <1>0, <1>p DEF Owned
  <2>3. \A i \in 1..Len(queue') : queue'[i] \in made
    BY <1>a, <1>0 DEF Owned
  <2> QED BY <1>a, <1>0, <2>1, <2>2, <2>3, OwnedKept
<1>7. ExitMeans'
  <2>1. \A c \in Tasks : done[c] \/ Returning(c) => done'[c] \/ Returning(c)'
    BY <1>a, <1>0, <1>p DEF Returning
  <2>2. \A v \in Workers : pc'[v] = "body" /\ at'[v] = Exit(running'[v]) =>
            /\ pc[v] = "body" /\ at[v] = Exit(running[v])
            /\ running'[v] = running[v] /\ running[v] \in Tasks
    BY <1>a, <1>0, <1>p DEF LocalsOK, Typed
  <2> QED BY <1>a, <1>0, <2>1, <2>2, ExitKept
<1>8. NoLostContinuation'
  <2>1. /\ \A v \in Workers, c \in Tasks : Executes(v, c)' <=> Executes(v, c) /\ v # w
        /\ \A d, c \in Tasks : WillQueue(d, c)' <=> WillQueue(d, c)
    BY <1>a, <1>0 DEF Typed, Executes, Leaving, WillQueue, At
  <2>2. \A c : InQueue(c)' <=> InQueue(c)
    BY <1>0 DEF InQueue
  <2>3. \A c \in Tasks : Executes(w, c) => done[c]
    BY <1>a, <1>0 DEF Executes, ResultFirst
  <2>4. \A c \in Tasks : KindOf(c) = "async" /\ ~done[c] => (Placed(c) => Placed(c)')
    BY <2>1, <2>2, <2>3 DEF Placed
  <2> QED BY <1>a, <1>0, <2>4, NoneLost DEF Typed
<1>9. Once'
  <2>1. /\ \A v \in Workers, c \in Tasks : Executes(v, c)' <=> Executes(v, c) /\ v # w
        /\ \A d, c \in Tasks : WillQueue(d, c)' <=> WillQueue(d, c)
    BY <1>a, <1>0 DEF Typed, Executes, Leaving, WillQueue, At
  <2>2. ASSUME NEW c \in Tasks, Single(c) PROVE OnePlace(c)' /\ CompletesOnce(c)'
    <3>1. OnePlace(c) /\ CompletesOnce(c)
      BY <1>a, <2>2 DEF Once
    <3>2. (InQueue(c)' <=> InQueue(c)) /\ (QueueOnce(c)' <=> QueueOnce(c))
      BY <1>0 DEF InQueue, QueueOnce
    <3>3. OnePlace(c)'
      BY <2>1, <3>1, <3>2 DEF OnePlace
    <3>4. /\ \A v \in Workers : v # w => pc'[v] = pc[v] /\ running'[v] = running[v]
          /\ running'[w] = NoTask /\ pc'[UV] = pc[UV]
      BY <1>a, <1>0 DEF Typed
    <3>5. CompletesOnce(c)'
      BY <1>0, <2>1, <3>1, <3>2, <3>4 DEF CompletesOnce
    <3> QED BY <3>3, <3>5
  <2> QED BY <2>2 DEF Once
<1> QED BY <1>1, <1>2, <1>3, <1>4, <1>5, <1>6, <1>7, <1>8, <1>9 DEF Inv

\* A machine the event loop was waiting for is nowhere else.
LEMMA KeepsIOCallback ==
    ASSUME Inv, NEW d \in Tasks, IOCallback(d) PROVE Inv'
<1> USE Consts
<1>a. /\ Typed /\ Ranges /\ LocalsOK /\ LockHeld /\ ResultFirst
      /\ Owned /\ ExitMeans /\ NoLostContinuation /\ Once
  BY DEF Inv
<1>0. /\ pc[UV] = "idle" /\ armed[d] > 0
      /\ armed' = [armed EXCEPT ![d] = @ - 1]
      /\ result' = [result EXCEPT ![d] = TRUE]
      /\ st' = [st EXCEPT ![UV] = d]
      /\ pc' = [pc EXCEPT ![UV] = "tlock"]
      /\ UNCHANGED <<queue, running, made, by, kid, block, nextTask, done, lock, at, b, op>>
  BY <1>a DEF IOCallback, Goto, At, heap, Typed, LocalsOK, AwaitPCs, LockPCs, TryPCs
<1>p. /\ armed'[d] = armed[d] - 1 /\ \A x \in Tasks : x # d => armed'[x] = armed[x]
      /\ result'[d] = TRUE /\ \A x \in Tasks : x # d => result'[x] = result[x]
      /\ st'[UV] = d /\ \A x \in Threads : x # UV => st'[x] = st[x]
      /\ pc'[UV] = "tlock" /\ \A x \in Threads : x # UV => pc'[x] = pc[x]
  BY <1>a, <1>0 DEF Typed
<1>b. \A x, y : Child(x, y)' <=> Child(x, y)
  BY <1>0 DEF Child
<1>1. Typed'
  <2>1. armed' \in [Tasks -> 0..MaxCallbacks]
    BY <1>a, <1>0 DEF Typed, MaxCallbacks
  <2> QED BY <1>a, <1>0, <2>1 DEF Typed, PCs
<1>2. Ranges'
  BY <1>a, <1>0 DEF Typed, Ranges, LocalsOK
<1>3. LocalsOK'
  BY <1>a, <1>0 DEF Typed, Ranges, LocalsOK, AwaitPCs, LockPCs, TryPCs
<1>4. LockHeld'
  BY <1>a, <1>0 DEF Typed, LocalsOK, LockHeld, LockPCs, TryPCs
<1>5. ResultFirst'
  BY <1>a, <1>0 DEF Typed, LocalsOK, ResultFirst, TryPCs
<1>6. Owned'
  <2>1. \A v \in Workers : pc'[v] \in LockPCs =>
            pc[v] \in LockPCs /\ op'[v] = op[v] /\ running'[v] = running[v]
    BY <1>0, <1>p DEF LockPCs
  <2>2. /\ \A v \in Workers : running'[v] # NoTask => running'[v] \in made
        /\ \A v \in Threads : st'[v] # NoTask => st'[v] \in made
        /\ \A c \in Tasks : armed'[c] > 0 \/ done'[c] => c \in made
    BY <1>a, <1>0, <1>p DEF Owned
  <2>3. \A i \in 1..Len(queue') : queue'[i] \in made
    BY <1>a, <1>0 DEF Owned
  <2> QED BY <1>a, <1>0, <2>1, <2>2, <2>3, OwnedKept
<1>7. ExitMeans'
  <2>1. \A c \in Tasks : done[c] \/ Returning(c) => done'[c] \/ Returning(c)'
    BY <1>a, <1>0, <1>p DEF Returning
  <2>2. \A v \in Workers : pc'[v] = "body" /\ at'[v] = Exit(running'[v]) =>
            /\ pc[v] = "body" /\ at[v] = Exit(running[v])
            /\ running'[v] = running[v] /\ running[v] \in Tasks
    BY <1>a, <1>0, <1>p DEF LocalsOK, Typed
  <2> QED BY <1>a, <1>0, <2>1, <2>2, ExitKept
<1>8. NoLostContinuation' /\ Once'
  <2>1. /\ \A v \in Workers, c \in Tasks : Executes(v, c)' <=> Executes(v, c)
        /\ \A x, c \in Tasks : WillQueue(x, c)' <=> WillQueue(x, c)
        /\ \A c : (InQueue(c)' <=> InQueue(c)) /\ (QueueOnce(c)' <=> QueueOnce(c))
    <3>1. \A v \in Workers, c \in Tasks : Executes(v, c)' <=> Executes(v, c)
      BY <1>0, <1>p DEF Executes, Leaving
    <3>2. \A x, c \in Tasks : WillQueue(x, c)' <=> WillQueue(x, c)
      BY <1>0, <1>p DEF WillQueue, At
    <3> QED BY <1>0, <3>1, <3>2 DEF InQueue, QueueOnce
  <2>2. NoLostContinuation'
    <3>1. \A c \in Tasks : Placed(c) => Placed(c)'
      BY <2>1 DEF Placed
    <3> QED BY <1>a, <1>0, <3>1, NoneLost DEF Typed
  <2>3. st[UV] = NoTask
    BY <1>a, <1>0 DEF LocalsOK, TryPCs
  <2>4. ASSUME NEW c \in Tasks, Single(c) PROVE OnePlace(c)' /\ CompletesOnce(c)'
    <3>1. OnePlace(c) /\ CompletesOnce(c)
      BY <1>a, <2>4 DEF Once
    <3>2. OnePlace(c)'
      BY <2>1, <3>1 DEF OnePlace
    <3>3. \A v \in Workers : pc'[v] = pc[v]
      BY <1>p
    <3>4. CASE c = d
      <4>1. armed[c] = 1 /\ ~done[c] /\ ~InQueue(c) /\ \A v \in Workers : running[v] # c
        BY <1>0, <3>1, <3>4 DEF CompletesOnce
      <4>2. armed'[c] = 0 /\ st'[UV] = c
        BY <1>p, <3>4, <4>1
      <4> QED BY <1>0, <2>1, <3>2, <4>1, <4>2 DEF CompletesOnce
    <3>5. CASE c # d
      <4>1. armed'[c] = armed[c] /\ st'[UV] # c
        BY <1>p, <3>5
      <4> QED BY <1>0, <2>1, <3>1, <3>2, <3>3, <4>1 DEF CompletesOnce
    <3> QED BY <3>2, <3>4, <3>5
  <2> QED BY <2>2, <2>4 DEF Once
<1> QED BY <1>1, <1>2, <1>3, <1>4, <1>5, <1>6, <1>7, <1>8 DEF Inv

\* Locking moves no machine.
LEMMA KeepsTryLock ==
    ASSUME Inv, NEW th \in Threads, TryLock(th) PROVE Inv'
<1> USE Consts
<1>a. /\ Typed /\ Ranges /\ LocalsOK /\ LockHeld /\ ResultFirst
      /\ Owned /\ ExitMeans /\ NoLostContinuation /\ Once
  BY DEF Inv
<1>0. /\ pc[th] = "tlock" /\ st[th] \in Tasks /\ lock[st[th]] = NoThread
      /\ lock' = [lock EXCEPT ![st[th]] = th]
      /\ pc' = [pc EXCEPT ![th] = "tdone"]
      /\ UNCHANGED <<queue, running, made, by, kid, block, nextTask, done, result, armed, at, b, op, st>>
  BY <1>a DEF TryLock, Goto, At, heap, Typed, LocalsOK, AwaitPCs, LockPCs, TryPCs
<1>p. /\ lock'[st[th]] = th /\ \A x \in Tasks : x # st[th] => lock'[x] = lock[x]
      /\ pc'[th] = "tdone" /\ \A x \in Threads : x # th => pc'[x] = pc[x]
  BY <1>a, <1>0 DEF Typed
<1>b. \A x, y : Child(x, y)' <=> Child(x, y)
  BY <1>0 DEF Child
<1>1. Typed'
  BY <1>a, <1>0 DEF Typed, PCs
<1>2. Ranges'
  BY <1>a, <1>0 DEF Typed, Ranges, LocalsOK
<1>3. LocalsOK'
  BY <1>a, <1>0 DEF Typed, Ranges, LocalsOK, AwaitPCs, LockPCs, TryPCs
<1>4. LockHeld'
  BY <1>a, <1>0 DEF Typed, LocalsOK, LockHeld, LockPCs, TryPCs
<1>5. ResultFirst'
  BY <1>a, <1>0 DEF Typed, LocalsOK, ResultFirst, TryPCs
<1>6. Owned'
  <2>1. \A v \in Workers : pc'[v] \in LockPCs =>
            pc[v] \in LockPCs /\ op'[v] = op[v] /\ running'[v] = running[v]
    BY <1>0, <1>p DEF LockPCs
  <2>2. /\ \A v \in Workers : running'[v] # NoTask => running'[v] \in made
        /\ \A v \in Threads : st'[v] # NoTask => st'[v] \in made
        /\ \A c \in Tasks : armed'[c] > 0 \/ done'[c] => c \in made
    BY <1>a, <1>0, <1>p DEF Owned
  <2>3. \A i \in 1..Len(queue') : queue'[i] \in made
    BY <1>a, <1>0 DEF Owned
  <2> QED BY <1>a, <1>0, <2>1, <2>2, <2>3, OwnedKept
<1>7. ExitMeans'
  <2>1. \A c \in Tasks : done[c] \/ Returning(c) => done'[c] \/ Returning(c)'
    BY <1>a, <1>0, <1>p DEF Returning
  <2>2. \A v \in Workers : pc'[v] = "body" /\ at'[v] = Exit(running'[v]) =>
            /\ pc[v] = "body" /\ at[v] = Exit(running[v])
            /\ running'[v] = running[v] /\ running[v] \in Tasks
    BY <1>a, <1>0, <1>p DEF LocalsOK, Typed
  <2> QED BY <1>a, <1>0, <2>1, <2>2, ExitKept
<1>8. NoLostContinuation' /\ Once'
  <2>1. \A v \in Workers, c \in Tasks : Executes(v, c)' <=> Executes(v, c)
    BY <1>a, <1>0 DEF Typed, LocalsOK, Executes, Leaving
  <2>2. \A d, c \in Tasks : WillQueue(d, c)' <=> WillQueue(d, c)
    BY <1>a, <1>0 DEF Typed, WillQueue, At
  <2>3. GoesOn /\ made \subseteq Tasks
    BY <1>a, <1>0 DEF Typed, LocalsOK, TryPCs, GoesOn
  <2> QED BY <1>a, <1>0, <2>1, <2>2, <2>3, Quiet
<1> QED BY <1>1, <1>2, <1>3, <1>4, <1>5, <1>6, <1>7, <1>8 DEF Inv

\* The completed machine is not done yet, and is nowhere else.
LEMMA KeepsTrySetDone ==
    ASSUME Inv, NEW th \in Threads, TrySetDone(th) PROVE Inv'
<1> USE Consts
<1>a. /\ Typed /\ Ranges /\ LocalsOK /\ LockHeld /\ ResultFirst
      /\ Owned /\ ExitMeans /\ NoLostContinuation /\ Once
  BY DEF Inv
<1>0. /\ pc[th] = "tdone" /\ st[th] \in Tasks
      /\ done' = [done EXCEPT ![st[th]] = TRUE]
      /\ kid' = [kid EXCEPT ![st[th]] = NoKids(st[th])]
      /\ pc' = [pc EXCEPT ![th] = "tqueue"]
      /\ UNCHANGED <<queue, running, made, by, block, nextTask, result, lock, armed, at, b, op, st>>
  BY <1>a DEF TrySetDone, Goto, At, Typed, LocalsOK, AwaitPCs, LockPCs, TryPCs
<1>p. /\ done'[st[th]] = TRUE /\ \A x \in Tasks : x # st[th] => done'[x] = done[x]
      /\ kid'[st[th]] = NoKids(st[th]) /\ \A x \in Tasks : x # st[th] => kid'[x] = kid[x]
      /\ pc'[th] = "tqueue" /\ \A x \in Threads : x # th => pc'[x] = pc[x]
  BY <1>a, <1>0 DEF Typed
<1>b. \A x, y : Child(x, y)' <=> Child(x, y)
  BY <1>0 DEF Child
<1>1. Typed'
  <2>1. /\ kid' = [c \in Tasks |-> kid'[c]]
        /\ \A c \in Tasks : kid'[c] \in [1..Len(Code(c)) -> Tasks \union {NoTask}]
    BY <1>a, <1>0, <1>p DEF Typed, NoKids
  <2> QED BY <1>a, <1>0, <2>1 DEF Typed, PCs
<1>2. Ranges'
  BY <1>a, <1>0 DEF Typed, Ranges, LocalsOK
<1>3. LocalsOK'
  BY <1>a, <1>0 DEF Typed, Ranges, LocalsOK, AwaitPCs, LockPCs, TryPCs
<1>4. LockHeld'
  BY <1>a, <1>0 DEF Typed, LocalsOK, LockHeld, LockPCs, TryPCs
<1>5. ResultFirst'
  BY <1>a, <1>0 DEF Typed, LocalsOK, ResultFirst, TryPCs
<1>6. Owned'
  <2>1. ASSUME NEW c \in Tasks, NEW i \in 1..Len(Code(c)), kid'[c][i] # NoTask
        PROVE  kid'[c][i] = kid[c][i]
    BY <1>0, <1>p, <2>1 DEF NoKids
  <2>2. st[th] \in made
    BY <1>a, <1>0 DEF Owned
  <2> QED BY <1>a, <1>0, <1>b, <1>p, <2>1, <2>2 DEF Owned, LockPCs
<1>7. ExitMeans'
  <2>1. \A c \in Tasks : Returning(c) => Returning(c)' \/ c = st[th]
    BY <1>a, <1>0, <1>p DEF Returning, LocalsOK
  <2> QED BY <1>a, <1>0, <1>p, <2>1 DEF ExitMeans, LocalsOK, Typed
<1>8. NoLostContinuation' /\ Once'
  <2>1. /\ \A v \in Workers, c \in Tasks : Executes(v, c)' <=> Executes(v, c)
        /\ \A c : (InQueue(c)' <=> InQueue(c)) /\ (QueueOnce(c)' <=> QueueOnce(c))
    <3>1. \A v \in Workers, c \in Tasks : Executes(v, c)' <=> Executes(v, c)
      BY <1>0, <1>p DEF Executes, Leaving
    <3> QED BY <1>0, <3>1 DEF InQueue, QueueOnce
  <2>2. \A x, c \in Tasks : x # st[th] => (WillQueue(x, c)' <=> WillQueue(x, c))
    BY <1>0, <1>p DEF WillQueue, At
  <2>3. \A x, c \in Tasks : x = st[th] => (WillQueue(x, c)' <=> nextTask[x] = c)
    BY <1>0, <1>p DEF WillQueue, At
  <2>4. NoLostContinuation'
    <3>1. \A x, c \in Tasks : WillQueue(x, c) => WillQueue(x, c)'
      <4>1. \A x, c \in Tasks : WillQueue(x, c) => nextTask[x] = c
        BY DEF WillQueue
      <4> QED BY <2>2, <2>3, <4>1
    <3>2. \A c \in Tasks : Placed(c) => Placed(c)'
      BY <2>1, <3>1 DEF Placed
    <3>3. \A c \in Tasks : done[c] => done'[c]
      BY <1>p
    <3> QED BY <1>a, <1>0, <3>2, <3>3, NoneLost DEF Typed
  <2>5. Single(st[th]) => /\ ~done[st[th]] /\ ~InQueue(st[th]) /\ armed[st[th]] = 0
                          /\ \A x \in Tasks : ~WillQueue(x, st[th])
                          /\ \A v \in Workers : Executes(v, st[th]) => v = th
                          /\ st[UV] = st[th] => th = UV
    <3> SUFFICES ASSUME Single(st[th])
                 PROVE  /\ ~done[st[th]] /\ ~InQueue(st[th]) /\ armed[st[th]] = 0
                        /\ \A x \in Tasks : ~WillQueue(x, st[th])
                        /\ \A v \in Workers : Executes(v, st[th]) => v = th
                        /\ st[UV] = st[th] => th = UV
      OBVIOUS
    <3>1. OnePlace(st[th]) /\ CompletesOnce(st[th]) /\ armed[st[th]] \in 0..2
      BY <1>a, <1>0 DEF Once, Typed, MaxCallbacks
    <3>2. CASE th \in Workers
      <4>1. Executes(th, st[th]) /\ running[th] = st[th]
        BY <1>a, <1>0, <3>2 DEF Executes, Leaving, LocalsOK
      <4> QED BY <1>0, <3>1, <3>2, <4>1 DEF OnePlace, CompletesOnce
    <3>3. CASE th = UV
      <4>1. \A x \in Tasks : ~WillQueue(x, st[th])
        BY <1>a, <1>0, <3>3 DEF LocalsOK, Owned, WillQueue
      <4>2. \A v \in Workers : ~Executes(v, st[th])
        BY <3>1, <3>3 DEF CompletesOnce, Executes
      <4> QED BY <1>0, <3>1, <3>3, <4>1, <4>2 DEF CompletesOnce
    <3> QED BY <3>2, <3>3
  <2>6. ASSUME NEW c \in Tasks, Single(c) PROVE OnePlace(c)' /\ CompletesOnce(c)'
    <3>1. OnePlace(c) /\ CompletesOnce(c)
      BY <1>a, <2>6 DEF Once
    <3>2. \A x \in Tasks : WillQueue(x, c)' <=> WillQueue(x, c)
      <4>1. nextTask[st[th]] = c => Single(st[th])
        BY <1>a, <1>0, <2>6, SingleChild DEF Owned
      <4>2. nextTask[st[th]] = c => WillQueue(st[th], c)
        BY <2>5, <4>1 DEF WillQueue
      <4>3. WillQueue(st[th], c) => nextTask[st[th]] = c
        BY DEF WillQueue
      <4>4. \A x \in Tasks : x = st[th] => (WillQueue(x, c)' <=> WillQueue(x, c))
        BY <2>3, <4>2, <4>3
      <4>5. \A x \in Tasks : x # st[th] => (WillQueue(x, c)' <=> WillQueue(x, c))
        BY <2>2
      <4> QED BY <4>4, <4>5
    <3>3. OnePlace(c)'
      BY <2>1, <3>1, <3>2 DEF OnePlace
    <3>4. CASE c = st[th]
      BY <1>0, <1>p, <2>1, <2>5, <2>6, <3>1, <3>2, <3>3, <3>4 DEF CompletesOnce
    <3>5. CASE c # st[th]
      <4>1. done'[c] = done[c] /\ (st[UV] = c => pc'[UV] = pc[UV])
        BY <1>p, <3>5
      <4>2. \A v \in Workers : pc[v] \in {"tqueue", "tunlock", "rfalse"} => pc'[v] = pc[v]
        BY <1>0, <1>p
      <4> QED BY <1>0, <2>1, <3>1, <3>2, <3>3, <4>1, <4>2 DEF CompletesOnce
    <3> QED BY <3>3, <3>4, <3>5
  <2> QED BY <2>4, <2>6 DEF Once
<1> QED BY <1>1, <1>2, <1>3, <1>4, <1>5, <1>6, <1>7, <1>8 DEF Inv

\* A continuation moves from the machine it awaited to the queue.
LEMMA KeepsTryQueue ==
    ASSUME Inv, NEW th \in Threads, TryQueue(th) PROVE Inv'
<1> USE Consts
<1>a. /\ Typed /\ Ranges /\ LocalsOK /\ LockHeld /\ ResultFirst
      /\ Owned /\ ExitMeans /\ NoLostContinuation /\ Once
  BY DEF Inv
<1>0. /\ pc[th] = "tqueue" /\ st[th] \in Tasks
      /\ \/ nextTask[st[th]] \in Tasks /\ queue' = Append(queue, nextTask[st[th]])
         \/ nextTask[st[th]] = NoTask /\ queue' = queue
      /\ pc' = [pc EXCEPT ![th] = "tunlock"]
      /\ UNCHANGED <<running, made, by, kid, block, nextTask, done, result, lock, armed, at, b, op, st>>
  BY <1>a DEF TryQueue, Submit, TQvars, Goto, At, heap, frame, Typed, LocalsOK, AwaitPCs, LockPCs, TryPCs
<1>p. /\ pc'[th] = "tunlock" /\ \A x \in Threads : x # th => pc'[x] = pc[x]
  BY <1>a, <1>0 DEF Typed
<1>b. \A x, y : Child(x, y)' <=> Child(x, y)
  BY <1>0 DEF Child
<1>1. Typed'
  <2>1. queue' \in Seq(Tasks)
    BY <1>a, <1>0, QueueAppend DEF Typed
  <2> QED BY <1>a, <1>0, <2>1 DEF Typed, PCs
<1>2. Ranges'
  BY <1>a, <1>0 DEF Typed, Ranges, LocalsOK
<1>3. LocalsOK'
  BY <1>a, <1>0 DEF Typed, Ranges, LocalsOK, AwaitPCs, LockPCs, TryPCs
<1>4. LockHeld'
  BY <1>a, <1>0 DEF Typed, LocalsOK, LockHeld, LockPCs, TryPCs
<1>5. ResultFirst'
  BY <1>a, <1>0 DEF Typed, LocalsOK, ResultFirst, TryPCs
<1>6. Owned'
  <2>3. \A i \in 1..Len(queue') : queue'[i] \in made
    <3>1. \A c : InQueue(c)' => InQueue(c) \/ (c = nextTask[st[th]] /\ c \in Tasks)
      <4>1. CASE queue' = queue
        BY <4>1 DEF InQueue
      <4>2. CASE queue' # queue
        BY <1>a, <1>0, <4>2, QueueAppend DEF Typed
      <4> QED BY <4>1, <4>2
    <3>2. \A c : InQueue(c) => c \in made
      BY <1>a DEF Owned, InQueue
    <3>3. \A c : InQueue(c)' => c \in made
      BY <1>a, <1>0, <3>1, <3>2 DEF Owned
    <3> QED BY <3>3 DEF InQueue
  <2>1. \A v \in Workers : pc'[v] \in LockPCs =>
            pc[v] \in LockPCs /\ op'[v] = op[v] /\ running'[v] = running[v]
    BY <1>0, <1>p DEF LockPCs
  <2>2. /\ \A v \in Workers : running'[v] # NoTask => running'[v] \in made
        /\ \A v \in Threads : st'[v] # NoTask => st'[v] \in made
        /\ \A c \in Tasks : armed'[c] > 0 \/ done'[c] => c \in made
    BY <1>a, <1>0, <1>p DEF Owned
  <2> QED BY <1>a, <1>0, <2>1, <2>2, <2>3, OwnedKept
<1>7. ExitMeans'
  <2>1. \A c \in Tasks : done[c] \/ Returning(c) => done'[c] \/ Returning(c)'
    BY <1>a, <1>0, <1>p DEF Returning
  <2>2. \A v \in Workers : pc'[v] = "body" /\ at'[v] = Exit(running'[v]) =>
            /\ pc[v] = "body" /\ at[v] = Exit(running[v])
            /\ running'[v] = running[v] /\ running[v] \in Tasks
    BY <1>a, <1>0, <1>p DEF LocalsOK, Typed
  <2> QED BY <1>a, <1>0, <2>1, <2>2, ExitKept
<1>8. NoLostContinuation' /\ Once'
  <2>1. done[st[th]] /\ \A v \in Threads : pc[v] = "tqueue" /\ st[v] = st[th] => v = th
    BY <1>a, <1>0 DEF ResultFirst, LockHeld
  <2>2. \A v \in Workers, c \in Tasks : Executes(v, c)' <=> Executes(v, c)
    BY <1>0, <1>p DEF Executes, Leaving
  <2>3. \A x, c \in Tasks : WillQueue(x, c)' <=> WillQueue(x, c) /\ x # st[th]
    BY <1>0, <1>p, <2>1 DEF WillQueue, At
  <2>4. \A c \in Tasks : WillQueue(st[th], c) <=> nextTask[st[th]] = c
    BY <1>0 DEF WillQueue, At
  <2>5. \A c \in Tasks : InQueue(c)' <=> InQueue(c) \/ nextTask[st[th]] = c
    <3>1. CASE queue' = queue
      BY <1>a, <1>0, <3>1, QueueAppend DEF InQueue, Typed
    <3>2. CASE queue' # queue
      BY <1>a, <1>0, <3>2, QueueAppend DEF Typed
    <3> QED BY <3>1, <3>2
  <2>6. NoLostContinuation'
    <3>1. \A c \in Tasks : Placed(c) => Placed(c)'
      BY <2>2, <2>3, <2>4, <2>5 DEF Placed
    <3> QED BY <1>a, <1>0, <3>1, NoneLost DEF Typed
  <2>7. ASSUME NEW c \in Tasks, Single(c) PROVE OnePlace(c)' /\ CompletesOnce(c)'
    <3>1. OnePlace(c) /\ CompletesOnce(c)
      BY <1>a, <2>7 DEF Once
    <3>2. nextTask[st[th]] = c => /\ ~InQueue(c) /\ ~done[c] /\ \A v \in Workers : ~Executes(v, c)
                                  /\ \A x \in Tasks : WillQueue(x, c) => x = st[th]
      BY <1>0, <2>4, <3>1 DEF OnePlace, CompletesOnce
    <3>3. QueueOnce(c)'
      <4>1. CASE queue' = queue
        BY <3>1, <4>1 DEF QueueOnce, OnePlace
      <4>2. CASE queue' # queue
        BY <1>a, <1>0, <3>1, <3>2, <4>2, OnceAppend DEF OnePlace, Typed
      <4> QED BY <4>1, <4>2
    <3>4. OnePlace(c)'
      BY <2>2, <2>3, <2>5, <3>1, <3>2, <3>3 DEF OnePlace
    <3>5. nextTask[st[th]] = c => ~(armed[c] > 0) /\ st[UV] # c
      BY <1>a, <1>0 DEF Owned, LocalsOK
    <3>6. /\ \A v \in Threads : pc[v] \in {"tqueue", "tunlock", "rfalse"} =>
                                   pc'[v] \in {"tqueue", "tunlock", "rfalse"}
          /\ pc[UV] \in {"tqueue", "tunlock"} => pc'[UV] \in {"tqueue", "tunlock"}
      BY <1>0, <1>p
    <3>7. CompletesOnce(c)'
      BY <1>0, <2>2, <2>3, <2>5, <3>1, <3>2, <3>5, <3>6 DEF CompletesOnce
    <3> QED BY <3>4, <3>7
  <2> QED BY <2>6, <2>7 DEF Once
<1> QED BY <1>1, <1>2, <1>3, <1>4, <1>5, <1>6, <1>7, <1>8 DEF Inv

\* A completion ends.
LEMMA KeepsTryUnLock ==
    ASSUME Inv, NEW th \in Threads, TryUnLock(th) PROVE Inv'
<1> USE Consts
<1>a. /\ Typed /\ Ranges /\ LocalsOK /\ LockHeld /\ ResultFirst
      /\ Owned /\ ExitMeans /\ NoLostContinuation /\ Once
  BY DEF Inv
<1>0. /\ pc[th] = "tunlock" /\ st[th] \in Tasks
      /\ lock' = [lock EXCEPT ![st[th]] = NoThread]
      /\ st' = [st EXCEPT ![th] = NoTask]
      /\ pc' = [pc EXCEPT ![th] = IF th = UV THEN "idle" ELSE "rfalse"]
      /\ UNCHANGED <<queue, running, made, by, kid, block, nextTask, done, result, armed, at, b, op>>
  BY <1>a DEF TryUnLock, Goto, At, heap, Typed, LocalsOK, AwaitPCs, LockPCs, TryPCs
<1>p. /\ lock'[st[th]] = NoThread /\ \A x \in Tasks : x # st[th] => lock'[x] = lock[x]
      /\ st'[th] = NoTask /\ \A x \in Threads : x # th => st'[x] = st[x]
      /\ pc'[th] = (IF th = UV THEN "idle" ELSE "rfalse") /\ \A x \in Threads : x # th => pc'[x] = pc[x]
  BY <1>a, <1>0 DEF Typed
<1>b. \A x, y : Child(x, y)' <=> Child(x, y)
  BY <1>0 DEF Child
<1>1. Typed'
  BY <1>a, <1>0 DEF Typed, PCs
<1>2. Ranges'
  BY <1>a, <1>0 DEF Typed, Ranges, LocalsOK
<1>3. LocalsOK'
  BY <1>a, <1>0 DEF Typed, Ranges, LocalsOK, AwaitPCs, LockPCs, TryPCs
<1>4. LockHeld'
  BY <1>a, <1>0 DEF Typed, LocalsOK, LockHeld, LockPCs, TryPCs
<1>5. ResultFirst'
  BY <1>a, <1>0 DEF Typed, LocalsOK, ResultFirst, TryPCs
<1>6. Owned'
  <2>1. \A v \in Workers : pc'[v] \in LockPCs =>
            pc[v] \in LockPCs /\ op'[v] = op[v] /\ running'[v] = running[v]
    BY <1>0, <1>p DEF LockPCs
  <2>2. /\ \A v \in Workers : running'[v] # NoTask => running'[v] \in made
        /\ \A v \in Threads : st'[v] # NoTask => st'[v] \in made
        /\ \A c \in Tasks : armed'[c] > 0 \/ done'[c] => c \in made
    BY <1>a, <1>0, <1>p DEF Owned
  <2>3. \A i \in 1..Len(queue') : queue'[i] \in made
    BY <1>a, <1>0 DEF Owned
  <2> QED BY <1>a, <1>0, <2>1, <2>2, <2>3, OwnedKept
<1>7. ExitMeans'
  <2>1. \A c \in Tasks : done[c] \/ Returning(c) => done'[c] \/ Returning(c)'
    BY <1>a, <1>0, <1>p DEF Returning
  <2>2. \A v \in Workers : pc'[v] = "body" /\ at'[v] = Exit(running'[v]) =>
            /\ pc[v] = "body" /\ at[v] = Exit(running[v])
            /\ running'[v] = running[v] /\ running[v] \in Tasks
    BY <1>a, <1>0, <1>p DEF LocalsOK, Typed
  <2> QED BY <1>a, <1>0, <2>1, <2>2, ExitKept
<1>8. NoLostContinuation' /\ Once'
  <2>1. \A v \in Workers, c \in Tasks : Executes(v, c)' <=> Executes(v, c)
    BY <1>a, <1>0 DEF Typed, LocalsOK, Executes, Leaving
  <2>2. \A d, c \in Tasks : WillQueue(d, c)' <=> WillQueue(d, c)
    BY <1>a, <1>0 DEF Typed, WillQueue, At
  <2>3. GoesOn /\ made \subseteq Tasks
    BY <1>a, <1>0 DEF Typed, LocalsOK, TryPCs, GoesOn
  <2> QED BY <1>a, <1>0, <2>1, <2>2, <2>3, Quiet
<1> QED BY <1>1, <1>2, <1>3, <1>4, <1>5, <1>6, <1>7, <1>8 DEF Inv

\* Inv holds initially: no machine has been made.
LEMMA InvInit == Init => Inv
<1> USE Consts
<1> SUFFICES ASSUME Init PROVE Inv
  OBVIOUS
<1>1. Typed /\ Ranges
  <2>1. queue \in Seq(Tasks) /\ running \in [Workers -> Tasks \union {NoTask}]
    BY DEF Init, TQInit
  <2>2. \A c \in Tasks : kid[c] \in [1..Len(Code(c)) -> Tasks \union {NoTask}]
    BY DEF Init, NoKids
  <2> QED BY <2>1, <2>2 DEF Init, Typed, Ranges, MaxCallbacks, PCs
<1>2. LocalsOK /\ LockHeld /\ ResultFirst
  BY DEF Init, TQInit, LocalsOK, LockHeld, ResultFirst, AwaitPCs, LockPCs, TryPCs
<1>3. Len(queue) = 0 /\ \A c : ~InQueue(c)
  <2>1. Len(queue) = 0
    BY DEF Init, TQInit
  <2> QED BY <2>1 DEF InQueue
<1>4. Owned
  BY <1>3 DEF Init, TQInit, Owned, LockPCs, NoKids
<1>5. ExitMeans
  BY DEF Init, ExitMeans
<1>6. NoLostContinuation
  BY DEF Init, NoLostContinuation
<1>7. ASSUME NEW c \in Tasks PROVE OnePlace(c) /\ CompletesOnce(c)
  <2>1. \A w \in Workers : ~Executes(w, c) /\ running[w] # c
    BY DEF Init, TQInit, Executes
  <2>2. \A d \in Tasks : ~WillQueue(d, c)
    BY DEF Init, WillQueue
  <2>3. QueueOnce(c)
    BY <1>3 DEF QueueOnce
  <2> QED BY <1>3, <2>1, <2>2, <2>3 DEF Init, OnePlace, CompletesOnce
<1> QED BY <1>1, <1>2, <1>4, <1>5, <1>6, <1>7 DEF Inv, Once

\* A step that changes nothing keeps Inv.
LEMMA InvStutter == ASSUME Inv, UNCHANGED vars PROVE Inv'
<1>1. UNCHANGED <<queue, running, made, by, kid, block, nextTask, done, result, lock, armed,
                  pc, at, b, op, st>>
  BY DEF vars, heap, frame, local
<1>2. (\A c : (InQueue(c)' <=> InQueue(c)) /\ (QueueOnce(c)' <=> QueueOnce(c)))
      /\ (\A w, c : Executes(w, c)' <=> Executes(w, c))
      /\ (\A d, c : WillQueue(d, c)' <=> WillQueue(d, c))
  BY <1>1 DEF InQueue, QueueOnce, Executes, Leaving, WillQueue, At
<1>3. Typed' /\ Ranges' /\ LocalsOK' /\ LockHeld' /\ ResultFirst'
  BY <1>1 DEF Inv, Typed, Ranges, LocalsOK, LockHeld, ResultFirst
<1>4. Owned' /\ ExitMeans'
  BY <1>1 DEF Inv, Owned, Child, ExitMeans, Returning
<1>5. NoLostContinuation' /\ Once'
  BY <1>1, <1>2 DEF Inv, NoLostContinuation, Once, OnePlace, CompletesOnce
<1> QED BY <1>3, <1>4, <1>5 DEF Inv

\* Every step keeps Inv.
LEMMA InvStep == ASSUME Inv, [Next]_vars PROVE Inv'
<1>1. CASE UNCHANGED vars
  BY <1>1, InvStutter
<1>2. CASE \E c \in Roots : MainCall(c)
  BY <1>2, KeepsMainCall
<1>3. ASSUME NEW th \in Threads, TryStep(th) PROVE Inv'
  BY <1>3, KeepsTryLock, KeepsTrySetDone, KeepsTryQueue, KeepsTryUnLock DEF TryStep
<1>4. ASSUME NEW w \in Workers, WorkerStep(w) PROVE Inv'
  <2>1. TryStep(w) => Inv'
    BY <1>3, Consts
  <2> QED
    BY <1>4, <2>1, KeepsTakeMachine, KeepsStepNext, KeepsStepIO,
       KeepsStepJob, KeepsStepExit, KeepsCallAsync, KeepsBranch,
       KeepsAwaitLock, KeepsAwaitIsDone, KeepsAwaitSetNext,
       KeepsAwaitUnLock, KeepsAwaitStore, KeepsAwaitRet, KeepsRetStoreBlock,
       KeepsRetStoreResult, KeepsRetFalse
    DEF WorkerStep
<1>5. ASSUME NEW c \in Tasks, IOCallback(c) PROVE Inv'
  BY <1>5, KeepsIOCallback
<1> QED BY <1>1, <1>2, <1>3, <1>4, <1>5, Consts DEF Next, UVStep

\* Inv holds in every reachable state.
LEMMA InvAlways == Spec => []Inv
  BY InvInit, InvStep, PTL DEF Spec

-----------------------------------------------------------------------------
(* Theorems *)

\* TypeOK: every variable keeps its type; workers and saved blocks stay inside
\* the body of their machine.
THEOREM TypeCorrect == Spec => []TypeOK
<1>1. Inv => TypeOK
  BY Consts DEF Inv, Typed, Ranges, TypeOK
<1> QED BY <1>1, InvAlways, PTL

\* ResultReady: with any number of workers, a coroutine that awaits no stream
\* goes on, or is queued to, only when whatever it was suspended for has stored
\* its result and is done.
THEOREM ResultsReady == Spec => []ResultReady
<1>1. ASSUME Inv, NEW c \in Tasks, Single(c), NEW d \in Tasks, nextTask[d] = c,
             InQueue(c) \/ \E w \in Workers : Executes(w, c)
      PROVE  done[d] /\ result[d]
  <2>1. OnePlace(c)
    BY <1>1 DEF Inv, Once
  <2>2. ~WillQueue(d, c)
    BY <1>1, <2>1 DEF OnePlace
  <2>3. done[d]
    BY <1>1, <2>2 DEF WillQueue
  <2> QED BY <1>1, <2>3 DEF Inv, ResultFirst
<1>2. Inv => ResultReady
  BY <1>1 DEF ResultReady, AwaitIsKept
<1> QED BY <1>2, InvAlways, PTL

\* NoLostContinuation: with any number of workers, a coroutine that has not
\* completed is queued, executed, or will be queued by the machine it awaits.
THEOREM NoContinuationLost == Spec => []NoLostContinuation
<1>1. Inv => NoLostContinuation
  BY DEF Inv
<1> QED BY <1>1, InvAlways, PTL

\* QueuedOnce: with any number of workers, a coroutine that awaits no stream is
\* never queued twice, nor while it executes, nor executed by two workers.
THEOREM QueuedOnceAlways == Spec => []QueuedOnce
<1>1. Inv => QueuedOnce
  BY DEF Inv, Once, OnePlace, QueueOnce, QueuedOnce
<1> QED BY <1>1, InvAlways, PTL

\* NotAfterReturn: with any number of workers, a completed coroutine that awaits
\* no stream executes nothing more, whatever block a late store left in it.
THEOREM NothingAfterReturn == Spec => []NotAfterReturn
<1>1. ASSUME Inv, NEW w \in Workers, running[w] # NoTask, Single(running[w]), done[running[w]]
      PROVE  Leaving(w) \/ pc[w] \in {"tqueue", "tunlock", "rfalse"}
  <2>1. running[w] \in Tasks
    BY <1>1 DEF Inv, Typed
  <2>2. CompletesOnce(running[w])
    BY <1>1, <2>1 DEF Inv, Once
  <2> QED BY <1>1, <2>2 DEF CompletesOnce, Executes
<1>2. Inv => NotAfterReturn
  BY <1>1 DEF NotAfterReturn
<1> QED BY <1>2, InvAlways, PTL
=============================================================================
