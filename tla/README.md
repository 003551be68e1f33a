# TLA+ models of calc: compiler, coroutine runtime, libuv binding

calc is a small compiled language.  The compiler (Go, `compiler/`) parses a
module and everything it imports and emits LLVM IR; the runtime (calc itself,
`runtime/`) provides coroutines on worker threads, an event loop around libuv,
TCP, lists and slices.  This directory models the parts of both whose
correctness depends on the order in which things happen, checks them with TLC on
small instances, and proves with TLAPS, for every value of the constants, the
safety properties of the runtime (scheduler, coroutines, list, event loop, TCP
stream) and of the module loader.  The parser, whose backtracking makes its result
depend on the order of its attempts, and the code generator for control flow are
modelled as well.  The program's logic is Go (`compiler/`) and calc (`runtime/`);
of the C under `libuv_helper/` only `uvutil.c` (allocation wrappers and
accessors) belongs to it, the rest are third-party headers.

## Inventory

| component | state | operations | hard because | correct means |
|---|---|---|---|---|
| scheduler (`runtime/coro`) | one task list, one mutex, one condition variable | `QueueTask`, the worker loop of `Exec` | workers, `main` and the loop thread interleave; signals wake one sleeper; spurious wakeups | every submission goes to one worker, in order; no worker sleeps past work |
| coroutines (`compiler/ast/coro.go`, `function.go`, `RetNode` of `ast.go`; `runtime/coro/coro.calc`, `asyncgen.calc`) | per machine: saved block, `nextTask`, done flag, result, mutex | async call, `await`, `return`, `TryQueueContinuous`, libuv callback | completion races the await that waits for it | no continuation lost, no statement repeated, results ready before they are read |
| linked list (`runtime/linkedlist`) | nodes with `prev`/`next`, `first`, `last`, `len` | `Push`, `Pop`, `Shift`, `UnShift`, `remove`, `IndexOp`, `Len` | operations at both ends decide by different fields | a deque; removed nodes are released |
| event loop (`runtime/libuv/uv.calc`, `evqueue.calc`) | job list and mutex, async handle, start-up mutex and condition variable | `StartUVLoop`, `QueueEvJob`, the async and idle callbacks | sends coalesce; jobs arrive while the loop drains; wait without predicate | every job runs once, in order, on the loop thread |
| module loader (`compiler/parser/parser.go`) | `startMap` of channels, `fathers` per load, `emitMu` | `ParseDir`, `ParseModule`, imports of `program` | a goroutine per file; loads wait for each other | a module is emitted once, alone, after its imports; loops are reported |
| TCP streams (`runtime/libuv/tcp.calc`, `buf.calc`, `tcpclient.calc`) | buffer, waiting read, connect request | accept, connect, read, write, close | callbacks come when they come; the request is freed by a worker and used by the loop | bytes delivered once, in order; memory belongs to one side at a time |
| type definitions (`compiler/ast`: `CalcGlobals`, `NewTypeDef`) | `ScopeMap`, pending definitions | rounds over what is not defined yet | definitions in any order, across files; arrival order of files | result independent of the order; ends when everything can be resolved |
| control flow (`cond.go`, `loop.go`, `RetNode`, `YieldNode`) and frames (`buildCtx`) | basic blocks, the current block and jump targets of each scope, frame fields | one per statement kind | nesting: each case patches blocks of the scopes around it | the blocks run the statements in source order; what outlives a `StepNext` call is in the frame |
| escape analysis, conversions, overloads, generics (`compiler/ast`) | allocation tables, casts | code generation | nesting of cases | no pointer to a dead stack slot, values kept |
| lexer and parser (`compiler/lexer`, `compiler/parser`) | position, checkpoints | `Scan`, `SetCheckpoint`, `GobackTo` | backtracking | a failed alternative leaves no trace |

Interactions: compiled code calls `QueueTask` for each async call and
`TryQueueContinuous` at each return; libuv callbacks call `TryQueueContinuous`
from the loop thread; machines hand closures to the loop with `QueueEvJob`; both
lists are `linkedlist.List`.  The lock order is event queue mutex, machine mutex,
scheduler mutex.

## Modules and the code they model

`PROJECT.json` gives, for every definition, the lines it stands for.

| module | models | state | actions |
|---|---|---|---|
| `TaskQueue` | what the scheduler promises | `queue` of submissions, `running` task per worker | `Submit`, `Take`, `Finish` |
| `Scheduler` | `coro.calc` `QueueTask`, `Exec`; `sync/mutex.calc`, `sync/cond.calc`, `List.Push`/`Shift` as used there | program counter and locals of every thread, `tasks` (the list), `mu` (holder of the mutex) | one per lock, test, wait, wake-up, list operation, signal and unlock |
| `Coro` | the code that `AwaitNode.calc`, `RetNode.calc`, `buildGenerator` and an async `CallFuncNode.calc` emit, with `TryQueueContinuous`, `LockST`/`UnLockST`, `AsyncGen.StepNext` of `coro` and `libuv` | per machine (one frame per call): saved block, `nextTask`, done flag, result, mutex, the machines it made; the queue; each worker's position in the emitted code | call, branch, the steps of await (lock, `IsDone`, set `nextTask`, unlock, store block, return), the steps of return, `SetDone` with its clearing of the frame, the libuv callback |
| `Deque` / `LinkedList` | a deque / `linkedlist.calc` field by field | contents / `prev`, `next`, `val`, `first`, `last`, `len`, free nodes | one per method |
| `EvLoop` | `StartUVLoop`, `QueueEvJob`, the async and idle callbacks; libuv's coalescing `uv_async_send` is external | job list, its mutex, the pending send, start-up mutex and condition variable | one per lock, push, send, test, shift, run |
| `ModuleLoader` | `ParseDir`, `ParseModule`, the import loop of `program`, `Merge`, the rounds of `CalcGlobals` with `NewTypeDef` | `startMap` channels, `fathers` of each load, goroutines per file and per module, `emitMu`; the definitions still pending, the types in the scopes | load, import, wait, gather, a round of definitions, emit, close |
| `ControlFlow` | `IfNode`, `IfElseNode`, `ForNode`, `BreakNode`, `ContinueNode`, `RetNode`, `YieldNode`, `AwaitNode`, `addChildScope`, `buildCtx` | basic blocks with terminators, the stack of scopes, frame fields; beside them the flow the source asks for | one per statement: open, else and close of a structure, simple statement, definition, suspension, jump, end of the body |
| `TcpStream` | `TCPListen`, `ReadBufAsync`, `WriteBufAsync`, `CloseAsync`, `ConnectAsync`, `tcpAllocCB`, `Buffer.PreWrite`; `new_conn` of `uvutil.c` | the socket, the buffer and its memory blocks, the connect request, the operations issued, what was delivered | accept; issue, await, resume; one per job and per callback |
| `Lexer` | `lexer.go` | `input` | operators `Scan`, `ScanType`, `SkipLn` |
| `Parser` | all parsing methods of `compiler/parser` | - | one operator per method: position to (tree, position), error, panic or endless loop |
| `Grammar` | reference: the expression grammar of the repository's README as sets of derivation trees, once as README.md writes it and once with the two rules in which the parser departs from it (`Rules`) | - | - |
| `SourceText` | the texts given to the parser | the text and its expected trees | a letter, a statement or an enclosing statement is added |

`SchedulerProofs`, `CoroProofs`, `LinkedListProofs`, `EvLoopProofs`,
`ModuleLoaderProofs`, `TcpStreamProofs` and `ControlFlowProofs` hold the theorems
about the module of that name; `ControlFlowGraphProofs` continues
`ControlFlowProofs`.  `MC*.tla` give the constants their values; `MCCoro` also
chooses how many workers `Exec` starts, one per CPU, and which calls `main` makes.  Each
`.cfg` is one run.

How the parts fit: `Coro` takes the queue of `Scheduler` as one atomic FIFO,
which `Scheduler` is shown to implement (`RefinesTaskQueue`); `Scheduler` and
`EvLoop` take the list as a sequence, which `LinkedList` is shown to implement
(`RefinesDeque`), with the two halves of `Shift` (copy the first node, unlink it)
kept apart because the mutex is all that holds them together; `TcpStream` takes
`TryQueueContinuous` and `QueueEvJob` as atomic, which `Coro` and `EvLoop` look
into.

Abstractions worth knowing:

- An async function is a list of calls, awaits and branches; its other statements are
  the points between them, and `StatementsRunOnce` sees a repetition as two machines
  made by one call statement of one machine.  A machine is kept in a frame variable of
  the function that made it, and awaited there only; nothing in the repository hands
  one on.  An await loads that variable once, at its beginning.
- A stream's read may be completed more than once.  Whoever awaits one may therefore
  be resumed more than once, and so may its callers (`Streaming`); `ResultReady`,
  `QueuedOnce` and `NotAfterReturn` speak of all other machines, `ReadyUntilAgain` of
  all machines until that happens.
- With several workers nothing is claimed about the *block* a machine is resumed at,
  since `coro_two_workers` shows it may be an old one: `ResultReady` says that whoever
  is suspended for a machine is not queued or executed before that machine is done and
  its result stored.
- `Scheduler` lets a thread submit any state machine at any time, also one that is
  queued already: what is submitted is `Coro`'s business.
- A letter of `Lexer` is a character or a whole identifier, keyword, number or
  string.  Unknown characters and bad escapes end the compiler and are left out;
  trees keep the shape of the node, not names, pointer levels or import paths.
- The parser's methods call each other in circles; those calls go through one
  recursive function, `parse`, from a method and a position to its result.  A
  Go panic, an error and an endless loop are three kinds of result, and
  `runWithCatch`, `recover` and a deferred `GobackTo` are operators on results
  (`Catch`, `Recover`, `Restore`).
- `TcpStream` numbers the bytes the peer sends, so that order and loss show.  Its
  coroutine uses a connection as `test/tcpclient` and `test/tcpserver` do: it
  awaits each operation, a client reads the status of its connect and closes once.
  A client closed while its connect is pending, or twice, would free the request
  under libuv or twice; nothing in the code prevents it.
- `ControlFlow` chooses the source one statement at a time, so TLC goes through all
  functions up to the bound.  Statements, conditions and loop steps are numbered
  points; a block is the points it executes and its terminator.  A loop header has a
  definition, a condition and a step or lacks any of them (`Forms`).  `flow` is built
  from the source alone (dangling exits joined to what follows), and `FlowFaithful`
  compares the two graphs; `odd` marks the forms that the generator does not
  handle.  `AsSource`, which does not mention `odd`, fails (run `codegen_source`).
  llir's block operations are external.
- `Grammar` has the rules of README.md; in two of them the parser departs from it (one
  connective per expression with a comparison behind it; any expression as the first
  argument of a call).  `ExpGrammar` compares the parser with README.md's grammar on all
  lines but those that contain one of these forms (`Departs`), and on these with the
  parser's own rules.
- In `ModuleLoader` a type definition is the set of names it uses; generics,
  interfaces and the exception that the strict lookup makes for `_str` are left
  out, and so are two definitions of one name in a module.  The definitions of a
  module are tried in the order in which its files arrived, which is any order.

## Runs

| run | instance | shows |
|---|---|---|
| `scheduler` | 2 workers, `main`, the loop thread, 2 machines, at most 3 queued | mutex discipline, no `Shift` of an empty list, no sleep past work, FIFO hand-over (`RefinesTaskQueue`), and the queue drains |
| `coro` | 1 CPU: nested awaits and timers beside a read (completed twice) and a close, or beside an awaited job; 2 CPUs: a loop of calls and awaits, or a read and close beside a job | no continuation lost; a machine that awaits no stream goes on only when the result is there, is queued once, executed by one worker, and executes nothing after its return; nobody is resumed early until a read is completed again; on one CPU no statement or return is repeated and every call ends that does not wait for a job of `coro.Run` |
| `coro_two_workers` (violation) | 2 CPUs, nested awaits | the block to resume at is stored after the child's mutex is released |
| `linkedlist` | 4 nodes with reuse, 2 values | links, ends and length agree, refinement of `Deque` |
| `evloop` | 2 callers, 3 jobs | no job stranded though sends coalesce, the list is never touched by two threads, jobs run once and in order |
| `evloop_start` (violation) | the same | the start-up signal may be lost and `main` never runs |
| `loader_acyclic` | 5 modules, 6 files, a diamond; 3 programs of 5 types: a chain across two files and a module, two types that need each other, a name that is not defined | modules are emitted after their imports, one at a time; no loop is reported where there is none; no module is emitted with a type unresolved, whichever file came first; loading ends when all can be resolved |
| `loader_split_loop` (violation) | a loop entered at two modules | nobody reports it and all wait |
| `tcp_stream` | a client or a server; 4 bytes, reads of 1 and 3, growth by 2, 3 operations, 1 empty callback | the buffer stays in its block, delivered bytes are not overwritten, full reads get the stream in order, there are just two ways to lose a byte (below), a waiting read is served, the coroutine goes on early only after a read that was completed short, the connect request is live until its callback and freed by the close |
| `parser` | about 40,000 lines over 8 alphabets (up to 4 to 7 letters), 3,600 files of up to 3 extensions | expressions accepted and grouped as the grammar of README.md says but for its two departures, an error costs its line, correct files give back their statements |
| `codegen` | all functions, generators and async functions of up to 4 statements, scopes nested up to 4, loops with four headers | the blocks follow the source exactly for the forms the generator handles |
| `codegen_source` (violation) | up to 3 statements, all eight headers | forms that the grammar derives are compiled wrong, `if c { yield }` for one |

Bounds.  Two workers are what it takes for two to be woken for one task; three
queue places let two submissions pile up behind a signal.  Three jobs for two
callers let a job be pushed before, during and after a drain.  Four nodes reach
removal in the middle with both neighbours present.  Reads of one and three bytes
with growth by two make the buffer hold left-overs, grow with bytes in it, and
serve one read from several callbacks.  Alphabets are chosen per part of the
grammar; five letters hold two operators and their operands, which is what
grouping needs, and six a call with two arguments.  `>` is left out of the lines,
because `a < b > (c)` is a generic call or two comparisons in the grammar itself;
it occurs in the blocks.  `|` alone is lexed as `||`.  Two workers and a
loop of calls let a coroutine be resumed by one worker while another is still leaving
it, a round before.  Four statements hold two nested structures with a jump and
something behind it, which is what every patch of an outer block needs; each known wrong form has at most three.  In the four headers
each of definition, condition and step is there and missing; the proof covers all eight.

Deadlock is checked for `scheduler` and `linkedlist`, which go on forever, and for
`codegen`, where it would be a source text that no action can finish; the
programs, jobs, loads, connections and texts of the other runs come to an end.

Mutants: for each property of a passing run `PROJECT.json` names a changed
definition (in the module, marked "mutant") that breaks it.

## Fairness

- Threads keep running (weak fairness of each worker's, caller's, goroutine's or
  the loop thread's next step): they are operating system threads, and mutexes
  are held only for a bounded number of steps.  Nobody is obliged to submit
  anything.
- `Drains` says that once nobody submits, the list is emptied.  A mutex that
  passes a thread over forever is not assumed away for any single thread; weak
  fairness is enough because every holder lets go.
- In `MCCoro` a timer or read that was started has its callback
  (`WF(IOCallback)`), and in `TcpStream` the peer sends its bytes and closes:
  these are promises of libuv and the peer, not of the code, and the liveness
  properties are relative to them.
- In `ModuleLoader` every goroutine that can run is run.  `Terminates` is claimed
  only for programs without an import loop whose types can be resolved.
- Spurious wake-ups and empty read callbacks may happen and need not.

## Proofs

Every safety property of the passing runs is also a theorem, except those of
`SourceText` and, of the coroutines, `ReadyUntilAgain` and what `MCCoro` says of one CPU.  `PROJECT.json` lists them; the name of the
property stands in the statement, `Spec => []Property`.  Each proof module states
its inductive invariant (`IInv`, or a stack of layers) as a conjunction of named
parts, shows that `Init` implies it and that every action keeps it, and draws the
theorems from it with PTL.  The type invariants of `LinkedList`, `ModuleLoader`,
`TcpStream`, `Coro` and `ControlFlow` are proved and not in a run.

`SchedulerProofs`: for every set of workers, clients and machines and
every queue bound (`ThreadAssumption`: finitely many workers, apart from the other
threads), `TypeOK`, `LockOwnership`, `ShiftSafe`, `SleepOnEmpty`, `WorkConserving`
and the refinement of `TaskQueue`.
The inductive invariant is `IInv == Safe /\ WorkConserving`, where `Safe` joins
the first four with `LocalsOK`.  `LocalsOK` is needed because what a thread
will push or step lies in its locals across several steps.  `LockOwnership` makes
the sections between lock and unlock exclusive, so that `ShiftSafe` (the list
is not empty when a worker has seen it so) and `SleepOnEmpty` (it is empty when a
worker is about to wait) survive the steps of others.  `WorkConserving` counts:
while a worker sleeps, the queued tasks are no more than the workers on their way
to the list plus the signals about to be sent.  Its proof goes by one lemma per
kind of step about how those cardinalities move, and is kept apart from `Safe`,
which needs no cardinalities.  `Refinement` maps the list to `queue` and each worker's `t`
to `running`, except while the node it was copied from is still linked; unlinking
is the step that takes, everything else stutters, submits or finishes.

`EvLoopProofs`: for every set of callers and jobs (`LoopAssumption`: the threads
are different), `TypeOK`, `DrainSafe`, `NoJobStranded` and the refinement of the
job queue.  Beside these, `IInv` has `Places` (nobody calls `QueueEvJob` before
`StartUVLoop` has returned, so no job comes before `uv_async_init`), `LockHeld`
and `LocalsOK`; its last part, that the callback unlocks only an empty list, is
what `NoJobStranded` needs when the callback ends and the pending flag was
consumed at its start.

`LinkedListProofs`: for every finite set of nodes (`ListAssumption`) and every
sequence of operations, `TypeOK`, `WellFormed` and the refinement
of `Deque`.  The invariant says that the nodes from `first` along `next` are a
`Path`: no node twice, `prev` the inverse of `next`, ends and `len` right.  One
lemma per operation says which path it leaves; the refinement reads the values off
the path, and `removeItems` shows that unlinking is deleting one item.

Recursive functions (`Walk`, the rounds of definitions, `FirstIn`, `ReachedIn`): the
library's theorems about those take operators as parameters, which the provers
cannot instantiate.  Three proof modules therefore begin with lemmas of their own:
`NatLeast` gets a least element from the well-foundedness of `<`,
`IntervalInduction` is induction for a *set* of numbers, and `IntervalRecursion`
shows that a recursive function with a step *function* exists and satisfies its
equation.

`ModuleLoaderProofs`: for every program of modules, files, imports and type
definitions (`LoaderAssumption`; its last parts say that a file defines types of
its own module, which is how `ScopeMap` names them), `TypeOK`, `EmitOrder`,
`EmitExclusive`, `LoopIsReal` and `GlobalsSound`.  `IInv` has three independent
parts. `LoadInv`: a file is past an import only when that module is emitted, a
module is past `gather` only when its files are parsed, and who emits holds
`emitMu`.  `FathersInv`: every father leads to the module by imports and every
loaded module is reached from a root, so a module found among its own fathers is
on a loop of the program. `Depends` is the least set closed under imports, which
the proof uses through closed sets alone.  `TypesInv`: the types defined so far
can be defined one after the other (`Grounded`), what a parsed file defines is
defined or pending, and nothing is pending behind `Emit`; `GroundedAdd` shows that
a definition whose strict lookup succeeded keeps `Grounded`, and `RoundFacts` goes
along a round with `IntervalInduction`.

`CoroProofs`: for every program (`CoroAssumption`), any number of workers and any
number of machines, `TypeOK`, `ResultReady`, `NoLostContinuation`, `QueuedOnce` and
`NotAfterReturn`.  The invariant (`Inv`) has two halves.  Of every machine: the types
and what a thread's locals hold where it is (`Typed`, `Ranges`, `LocalsOK`); who holds
a machine's mutex, and that what `IsDone` returned holds until `UnLockST` (`LockHeld`);
that a result is stored before its machine is done (`ResultFirst`); that a machine is
awaited by the machine that made it (`Owned`); that only a return saves `.exit`
(`ExitMeans`); and `NoLostContinuation` itself.  `ExitMeans` is needed for it, because
a machine stepped into `.exit` leaves its worker for good.  Of a machine that awaits
no stream (`Once`): it is in one place, once in the queue, on one worker that executes
it, or the continuation of one machine that will queue it (`OnePlace`), and it
completes once (`CompletesOnce`).  The machine is a token that queueing, taking,
suspending and completing move.  A worker on its way out of an unfinished await has
given it away with `AwaitSetNext` already (`Leaving`), and its late store of the block
changes where the machine resumes but not where the token is: this is why these
properties survive the race of `coro_two_workers`, and why the properties about
statements do not.

`TcpStreamProofs`: for any number of bytes, operations and empty callbacks, any
lengths of reads and any suggested size (`TcpAssumption`: positive lengths, a
positive suggested size, and a data field that is not a buffer when there is
none), `TypeOK`, `BufferBounds`, `DeliveredStable`, `InOrder`, `ReadServed`,
`NothingLost`, `ContinuedWhenDone` and `ConnLifetime`.  As the buffer sees it, an
action keeps it, opens it, or lets q bytes come and takes m away (`BufStep`);
`Delivered` (delivered bytes lie in front of where libuv writes next), `Sorted`
(buffered bytes are in order, behind all that reads got) and `Accounted` are shown
once for these three steps.  For `NothingLost` the history `got` records which result
each await took, so that a byte put into a read after that (`Misled`) is told apart from
one handed over.  `CoOK` relates the coroutine to its operations: until
a short read was completed a second time (`Doubled`) they keep step, and the task
of the buffer that is done was short. `Connecting` says where a client's first
operation stands while the socket is not open.

`ControlFlowProofs`, `ControlFlowGraphProofs`: for functions of any size and any
nesting and every set of loop headers (`BoundAssumption` says only that the bounds are
numbers, `FormsAssumption` that a header has a definition, a condition and a step or
lacks some), `TypeOK` and `FlowFaithful`.  `FlowFaithful` compares two graphs that are
complete only when the function is, so the invariant has to say what the blocks of a
half compiled function will do.  Its layers are

- `Ranged`: the blocks that terminators and scopes name exist;
- `Source`: about the source alone.  An exit leads to one point, dangles, or is kept
  by one scope (`Apart`), and belongs to a point that control comes to (`Reach`, said
  with closed sets instead of paths);
- `Struct`: the blocks that scopes still work on.  No two scopes share one, and the
  block behind a structure and the one beside it are empty until their turn comes.
  This is what makes the writes of one scope harmless to the scopes around it;
- `Tails`, `Quiet`, `Targets`: how the current scope ends so far, that nothing follows
  a jump in the forms that are handled, that `break` and `continue` aim at their loop;
- `Placed`: each point stands in a block whose terminator has the point's exits;
- `Link`: for some `in` and `rk`, with `in[b]` the exits that lead to block b, whatever
  leads to a block goes to its first point, its points follow each other, and what
  leaves a finished block is in `in` of the block it goes on in (`Graph`).  An empty
  block goes on in one that is not empty or has a lower `rk`, so chains of empty
  blocks end.  The witnesses are changed step by step, one lemma per action.

When the function is complete every block is wired (`Whole`).  `IntoIs` then shows, by
induction over `rk`, that `FirstIn` gives the point that the exits in `in[b]` lead to;
so the edges of the blocks from points that control comes to are edges of the source
(`EdgeInFlow`), and with `Placed` and `Source` also the reverse (`FlowInEdges`).  Last,
`ReachedIn` finds a new point at every step or is complete, and there are no more than
`points + 2` to find (`ReachedIsClosed`).

Only model-checked:

- all liveness (`Drains`, `CallsComplete`, `Terminates`, `OpsComplete`, `JobsRun`):
  fairness is beyond the prover;
- the parser (`ExpGrammar`, `ErrorContained`, `BlockParsed`): its operators are recursive
  over the text;
- `StatementsOnOneCPU` and `ReturnsOnOneCPU`: with more workers the first is false
  (`coro_two_workers`), and instead of the second `NotAfterReturn` is proved, for all
  machines but those that await a stream;
- `ReadyUntilAgain`, whose part about machines that await no stream is `ResultReady`.

## Disagreements found

1. `await` releases the child's mutex before the caller's block is stored
   (`coro.go:89-94`): with two workers a statement can run twice
   (`coro_two_workers`).
2. `StartUVLoop` waits without a predicate (`evloop_start`).
3. The import loop check misses loops entered at two places
   (`loader_split_loop`); `docs/roadmap.md` lists it as done.
4. Forms the code generator compiles wrong, without a message (`codegen_source`);
   `FlowFaithful` says that there are no others (proved): a loop or a `yield`/`await` at
   the end of a branch of `if` or `if/else` (`cond.go:117`), an `if` nested at the end of
   an `if` and fallen out of (`cond.go:120`), a `break` or `continue` behind an inner loop
   (`loop.go:39`), a `break`, `continue` or `return` as the last statement of a loop body
   (`loop.go:68`).  Statements behind a jump, and a function that ends in an `if` or loop
   without a return behind it, are marked `odd` too.

Without a run of their own, but stated as properties that hold up to exactly these cases:

- A read completed with `nread <= 0` stays `data.task` (`tcp.calc:189-197`), so the next
  callback completes it again.  Its awaiter is then resumed from whatever it awaits by
  now, for instance `test/tcpclient/client.calc:76` behind the unfinished close:
  `ReadyUntilAgain` and `ContinuedWhenDone` show that there is no other early resumption.
  The bytes of that callback go to a result nobody takes (`Misled`).
- Bytes that arrive while no read waits are dropped (`idle`), so the echo server of
  `test/tcpserver` does not echo what comes during its write.  `NothingLost` shows that
  these are the two ways to lose a byte; `AllEchoed` of `TcpStream`, without them, is what
  the server would need, and TLC refutes it.
- A function that awaits `coro.Run` as `docs/coro.md:27-32` does is not resumed, because
  `StepNext` of that `AsyncGen` (`asyncgen.calc:34`) completes nothing: `CallsComplete`
  leaves out who waits for such a job (`Stranded`).
- `boolexp` takes one connective: `a && a && a` is not an expression, although `bool_exp`
  of the repository's README (line 68) derives it; `ExpGrammar` shows that this and the
  first argument of a call (line 40) are all the differences on its lines.
- A variable defined in a loop header or below `else` in a generator or async function is
  not in the frame (`generator.go:71-92`): `FramesKept` of `ControlFlow` fails for these.

Met while modelling, and part of the models:

- An async function that falls off its end never wakes its awaiter
  (`function.go:379` returns false without `TryQueueContinuous`); `Finish` leaves
  such sources out.
- `CalcGlobals` goes round for ever, without a message, over a misspelt type or two
  types that need each other; a name missing in an imported module silently becomes
  an empty struct.
- A connection that fails at once leaves its `ConnectAsync` pending, and so does a read on a connection that
  `uv_accept` refused; `if a {` with an empty block is read as a struct literal; a
  comment swallows its line break, so that one behind a call costs two lines;
  `SkipLn` does not stop at the end of the input.

## Not modelled

- Code generation for expressions (`compiler/ast`: escape analysis, conversions,
  overloads, generics, interfaces, closures) and the numbering of frame fields:
  sequential rewriting of one tree, whose reference would be a semantics of the
  language that the repository does not give.
- `runtime/slice`, strings and utf8, `ParseInt`: sequential; planned below.
- `time.calc` beyond the completion of `Delay`; `Buffer.Write`, which nobody calls.
- The compiler's driver, fetching modules with git, the other C accessors of
  `libuv_helper`: I/O without control of their own.
- bdwgc, libuv, pthreads, llir, LLVM: third-party; their behaviour is modelled where
  the code depends on it and marked external.

## Plan

Written so far, in this order: scheduler and its proofs, coroutines, list, event
loop, module loader, TCP stream, lexer and parser; then type definitions, control
flow and frames, the connect request; then the proofs about event loop, list, loader,
coroutines and TCP stream, and last those about control flow.  Next:

1. `Escape`: `SLNode.calc` and `findEsc`; no variable that outlives its function is
   put on the stack.
2. `Slice` (growth and aliasing) and `Numeric` (casts with widths, `ParseInt`).
