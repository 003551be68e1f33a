---------------------------- MODULE ModuleLoader ----------------------------
(***************************************************************************)
(* compiler/parser/parser.go: ParseDir, ParseModule and the import part of *)
(* program.  Every source file of a module is parsed by a goroutine of its *)
(* own, which loads the modules it imports one after the other before it   *)
(* goes on; a module is emitted when all its files are parsed.  A second   *)
(* load of a module waits for the first on the module's channel.  The      *)
(* beginning of Emit, where ast.go's CalcGlobals defines the module's      *)
(* types, is part of the module.                                           *)
(***************************************************************************)
EXTENDS Integers, Sequences

CONSTANTS
    Modules,
    Files,      \* source files
    Mod,        \* Mod[f]: the module file f belongs to
    Imports,    \* Imports[f]: the modules f imports
    Roots,      \* the modules ParseDir loads, in order; the last one is main
    NoModule,
    Types,      \* names of types
    Home,       \* Home[t]: the module t is looked up in
    TypesIn,    \* TypesIn[f]: the types that file f defines, in order
    RefGraphs   \* the programs: a member refs gives the types that each definition names

FilesOf(m) == {f \in Files : Mod[f] = m}
RootSet == {Roots[i] : i \in 1..Len(Roots)}

ASSUME LoaderAssumption ==
    /\ NoModule \notin Modules
    /\ Mod \in [Files -> Modules]
    /\ Imports \in [Files -> SUBSET Modules]
    /\ Roots \in Seq(Modules)
    /\ \A m \in Modules : FilesOf(m) # {}
    /\ Home \in [Types -> Modules]
    /\ TypesIn \in [Files -> Seq(Types)]
    /\ \A f \in Files : \A i \in 1..Len(TypesIn[f]) : Home[TypesIn[f][i]] = Mod[f]
    /\ RefGraphs \subseteq [Types -> SUBSET Types]

VARIABLES
    started,    \* keys of startMap
    closed,     \* modules whose channel is closed
    fathers,    \* fathers[m]: modules on the import path, m included
    parsed,     \* parsed[m]: files whose syntax tree reached the load of m
    mpc,        \* mpc[m]: where the load of m is
    emitMu,     \* module whose load holds emitMu
    emitted,    \* modules emitted so far, in order
    todo,       \* todo[f]: imports of f not loaded yet
    cur,        \* cur[f]: the module f is loading
    fpc,        \* fpc[f]: where the goroutine of f is
    root,       \* index of the load ParseDir is at
    loop,       \* panicked: found loop referencing
    failed,     \* panicked: a file could not be read or parsed
    refs,       \* the program's references between types
    pending,    \* pending[m]: defFuncs of m's merged scope that have not succeeded
    defined,    \* types in the scopes
    opaque      \* <<t, r>>: t took an empty struct for r of another module

vars == <<started, closed, fathers, parsed, mpc, emitMu, emitted, todo, cur,
          fpc, root, loop, failed, refs, pending, defined, opaque>>
load == <<started, fathers, mpc, fpc>>
file == <<parsed, todo, cur, pending>>
emit == <<closed, emitMu, emitted>>
types == <<refs, defined, opaque>>

Running == ~loop /\ ~failed

Init ==
    /\ started = {} /\ closed = {}
    /\ fathers = [m \in Modules |-> {}]
    /\ parsed = [m \in Modules |-> {}]
    /\ mpc = [m \in Modules |-> "none"]
    /\ emitMu = NoModule /\ emitted = <<>>
    /\ todo = Imports
    /\ cur = [f \in Files |-> NoModule]
    /\ fpc = [f \in Files |-> "none"]
    /\ root = 0 /\ loop = FALSE /\ failed = FALSE
    /\ refs \in RefGraphs /\ defined = {} /\ opaque = {}
    /\ pending = [m \in Modules |-> <<>>]

-----------------------------------------------------------------------------
(* ParseModule up to its wait: under mu, find out whether somebody loads m *)
(* already; if not, start a goroutine per file with a copy of fathers.  g  *)
(* is the goroutine of the calling file, if the caller is one.             *)

\* mutant: one fathers map shared by all loads
ParseModule_SharedFathers(m, path, g) ==
    /\ started' = started \union {m}
    /\ IF m \in started
       THEN fpc' = [f \in Files |-> IF f \in g THEN "wait" ELSE fpc[f]]
            /\ UNCHANGED <<fathers, mpc>>
       ELSE /\ fathers' = [x \in Modules |-> started \union {m}]
            /\ mpc' = [mpc EXCEPT ![m] = "gather"]
            /\ fpc' = [f \in Files |-> IF f \in g THEN "wait" ELSE
                                       IF Mod[f] = m THEN "import" ELSE fpc[f]]

ParseModule(m, path, g) ==
    /\ started' = started \union {m}
    /\ IF m \in started
       THEN fpc' = [f \in Files |-> IF f \in g THEN "wait" ELSE fpc[f]]
            /\ UNCHANGED <<fathers, mpc>>
       ELSE /\ fathers' = [fathers EXCEPT ![m] = path \union {m}]
            /\ mpc' = [mpc EXCEPT ![m] = "gather"]
            /\ fpc' = [f \in Files |-> IF f \in g THEN "wait" ELSE
                                       IF Mod[f] = m THEN "import" ELSE fpc[f]]

\* ParseDir loads the next root once the previous load has returned
ParseRoot ==
    /\ Running /\ root < Len(Roots)
    /\ root > 0 => Roots[root] \in closed
    /\ root' = root + 1
    /\ ParseModule(Roots[root + 1], {}, {})
    /\ UNCHANGED <<emit, file, loop, failed, types>>

-----------------------------------------------------------------------------
(* program: the imports of a file, in the order of a Go map iteration.     *)

Import(f, m) ==
    /\ Running /\ fpc[f] = "import" /\ m \in todo[f]
    /\ IF m \in fathers[Mod[f]]
       THEN loop' = TRUE /\ UNCHANGED <<load, cur>>
       ELSE ParseModule(m, fathers[Mod[f]], {f})
            /\ cur' = [cur EXCEPT ![f] = m] /\ UNCHANGED loop
    /\ UNCHANGED <<emit, parsed, todo, root, failed, pending, types>>

\* mutant: the load is started but not waited for
Imported_NoWait(f) ==
    /\ Running /\ fpc[f] = "wait"
    /\ todo' = [todo EXCEPT ![f] = @ \ {cur[f]}]
    /\ cur' = [cur EXCEPT ![f] = NoModule]
    /\ fpc' = [fpc EXCEPT ![f] = "import"]
    /\ UNCHANGED <<started, fathers, mpc, emit, parsed, root, loop, failed, pending, types>>

Imported(f) ==
    /\ Running /\ fpc[f] = "wait" /\ cur[f] \in closed
    /\ todo' = [todo EXCEPT ![f] = @ \ {cur[f]}]
    /\ cur' = [cur EXCEPT ![f] = NoModule]
    /\ fpc' = [fpc EXCEPT ![f] = "import"]
    /\ UNCHANGED <<started, fathers, mpc, emit, parsed, root, loop, failed, pending, types>>

\* the rest of the file is parsed and its tree sent to the load of its module;
\* Merge puts the definitions of the files in the order of their arrival
Parsed(f) ==
    /\ Running /\ fpc[f] = "import" /\ todo[f] = {}
    /\ parsed' = [parsed EXCEPT ![Mod[f]] = @ \union {f}]
    /\ pending' = [pending EXCEPT ![Mod[f]] = @ \o TypesIn[f]]
    /\ fpc' = [fpc EXCEPT ![f] = "done"]
    /\ UNCHANGED <<started, fathers, mpc, emit, todo, cur, root, loop, failed, types>>

\* the file cannot be read, or its parse panics: the compiler dies
ParseError(f) ==
    /\ Running /\ fpc[f] = "import"
    /\ failed' = TRUE
    /\ UNCHANGED <<load, emit, file, root, loop, types>>

-----------------------------------------------------------------------------
(* ParseModule from the last tree on: emit under emitMu, close the channel *)
(* when the mutex is released.                                             *)

Gathered(m) ==
    /\ Running /\ mpc[m] = "gather" /\ parsed[m] = FilesOf(m)
    /\ mpc' = [mpc EXCEPT ![m] = "lock"]
    /\ UNCHANGED <<started, fathers, fpc, emit, file, root, loop, failed, types>>

\* mutant: modules are emitted without emitMu
EmitLock_NoMutex(m) ==
    /\ Running /\ mpc[m] = "lock"
    /\ mpc' = [mpc EXCEPT ![m] = "emit"]
    /\ UNCHANGED <<started, fathers, fpc, closed, emitMu, emitted, file, root, loop, failed, types>>

EmitLock(m) ==
    /\ Running /\ mpc[m] = "lock" /\ emitMu = NoModule
    /\ emitMu' = m
    /\ mpc' = [mpc EXCEPT ![m] = "emit"]
    /\ UNCHANGED <<started, fathers, fpc, closed, emitted, file, root, loop, failed, types>>

\* the scope of a module is in ScopeMap from the beginning of its Emit on
Registered(m) == mpc[m] \in {"emit", "unlock", "close", "done"}

\* One definition.  Its own name is entered first, as a placeholder; any other
\* name of its module must be in the scope d, one of another module is looked up
\* in that module's scope, which must exist.  On failure the placeholder goes.
Calc(t, d) ==
    \A r \in refs[t] : IF Home[r] = Home[t] THEN r \in d \union {t}
                       ELSE Registered(Home[r])

\* mutant: the placeholder of a definition that failed stays in the scope
Round_KeepsPlaceholder(ts) ==
    LET R[i \in 0..Len(ts)] ==
          IF i = 0 THEN [d |-> defined, failed |-> <<>>]
          ELSE LET p == R[i - 1] IN
               [d |-> p.d \union {ts[i]},
                failed |-> IF Calc(ts[i], p.d) THEN p.failed ELSE Append(p.failed, ts[i])]
    IN R[Len(ts)]

\* one pass over the definitions: the scope and the ones that failed
Round(ts) ==
    LET R[i \in 0..Len(ts)] ==
          IF i = 0 THEN [d |-> defined, failed |-> <<>>]
          ELSE LET p == R[i - 1] IN
               IF Calc(ts[i], p.d) THEN [p EXCEPT !.d = @ \union {ts[i]}]
               ELSE [p EXCEPT !.failed = Append(@, ts[i])]
    IN R[Len(ts)]

\* a name that another module's scope does not have gives an empty struct
DefRound(m) ==
    LET r == Round(pending[m])
        new == r.d \ defined IN
    /\ Running /\ mpc[m] = "emit" /\ pending[m] # <<>>
    /\ pending' = [pending EXCEPT ![m] = r.failed]
    /\ defined' = r.d
    /\ opaque' = opaque \union {p \in new \X Types :
                      p[2] \in refs[p[1]] /\ Home[p[2]] # m /\ p[2] \notin defined}
    /\ UNCHANGED <<load, emit, parsed, todo, cur, root, loop, failed, refs>>

\* all types are defined: functions, variables and bodies follow
Emit(m) ==
    /\ Running /\ mpc[m] = "emit" /\ pending[m] = <<>>
    /\ emitted' = Append(emitted, m)
    /\ mpc' = [mpc EXCEPT ![m] = "unlock"]
    /\ UNCHANGED <<started, fathers, fpc, closed, emitMu, file, root, loop, failed, types>>

EmitUnlock(m) ==
    /\ Running /\ mpc[m] = "unlock"
    /\ emitMu' = NoModule
    /\ mpc' = [mpc EXCEPT ![m] = "close"]
    /\ UNCHANGED <<started, fathers, fpc, closed, emitted, file, root, loop, failed, types>>

\* mutant: the channel is never closed
Close_Dropped(m) ==
    /\ Running /\ mpc[m] = "close"
    /\ mpc' = [mpc EXCEPT ![m] = "done"]
    /\ UNCHANGED <<started, fathers, fpc, emit, file, root, loop, failed, types>>

Close(m) ==
    /\ Running /\ mpc[m] = "close"
    /\ closed' = closed \union {m}
    /\ mpc' = [mpc EXCEPT ![m] = "done"]
    /\ UNCHANGED <<started, fathers, fpc, emitMu, emitted, file, root, loop, failed, types>>

-----------------------------------------------------------------------------
FileStep(f) == Imported(f) \/ Parsed(f) \/ \E m \in Modules : Import(f, m)

ModuleStep(m) == Gathered(m) \/ EmitLock(m) \/ DefRound(m) \/ Emit(m) \/ EmitUnlock(m) \/ Close(m)

Next ==
    \/ ParseRoot
    \/ \E f \in Files : FileStep(f) \/ ParseError(f)
    \/ \E m \in Modules : ModuleStep(m)

Spec == Init /\ [][Next]_vars

\* The Go scheduler runs every goroutine that can run.
Fairness == /\ WF_vars(ParseRoot)
            /\ \A f \in Files : WF_vars(FileStep(f))
            /\ \A m \in Modules : WF_vars(ModuleStep(m))

FairSpec == Spec /\ Fairness

-----------------------------------------------------------------------------
(* Properties *)

\* Every variable has its type.
TypeOK ==
    /\ closed \subseteq started /\ started \subseteq Modules
    /\ fathers \in [Modules -> SUBSET Modules]
    /\ \A m \in Modules : parsed[m] \subseteq FilesOf(m)
    /\ mpc \in [Modules -> {"none", "gather", "lock", "emit", "unlock", "close", "done"}]
    /\ emitMu \in Modules \union {NoModule}
    /\ emitted \in Seq(Modules)
    /\ \A f \in Files : todo[f] \subseteq Imports[f]
    /\ cur \in [Files -> Modules \union {NoModule}]
    /\ fpc \in [Files -> {"none", "import", "wait", "done"}]
    /\ root \in 0..Len(Roots)
    /\ refs \in RefGraphs /\ pending \in [Modules -> Seq(Types)] /\ defined \subseteq Types

\* m imports n, in one of its files
ImportsOf(m) == UNION {Imports[f] : f \in FilesOf(m)}

\* A module is emitted once, and after every module that it imports: Emit looks
\* up imported types and functions in their finished scopes.
EmitOrder ==
    \A i \in 1..Len(emitted) :
        /\ \A j \in 1..Len(emitted) : emitted[i] = emitted[j] => i = j
        /\ \A n \in ImportsOf(emitted[i]) : \E j \in 1..(i - 1) : emitted[j] = n

\* Emit works on package-level state (ScopeMap, the IR module): one at a time.
EmitExclusive ==
    \A m, n \in Modules : mpc[m] = "emit" /\ mpc[n] = "emit" => m = n

\* the modules that m imports, directly or not: the least set that has the
\* imports of m and of its members
Depends(m) ==
    {n \in Modules : \A C \in SUBSET Modules :
        ImportsOf(m) \subseteq C /\ (\A x \in C : ImportsOf(x) \subseteq C) => n \in C}
Cyclic == \E r \in RootSet : \E m \in {r} \union Depends(r) : m \in Depends(m)

\* An import loop is only reported when there is one: a module imported along
\* two paths is not a loop.
LoopIsReal == loop => Cyclic

Declared == UNION {{TypesIn[f][i] : i \in 1..Len(TypesIn[f])} : f \in Files}

\* the types of m can be defined one after the other: none is missing, and no
\* group of them is such that each needs another one of the group
Resolvable(m) ==
    LET own == {t \in Declared : Home[t] = m} IN
    /\ \A t \in own : \A r \in refs[t] : Home[r] = m => r \in Declared
    /\ \A C \in (SUBSET own) \ {{}} : \E t \in C : refs[t] \intersect C \subseteq {t}

\* Whatever the order in which the files arrive, the rounds of CalcGlobals end
\* only for a module whose types can all be resolved, and an imported type is
\* replaced by an empty struct only if its module has none of that name.
GlobalsSound ==
    /\ \A i \in 1..Len(emitted) : Resolvable(emitted[i])
    /\ \A p \in opaque : p[2] \notin Declared

\* Without an import loop the compilation ends: everybody who waits for a
\* module is woken, and the rounds of CalcGlobals come to their end, if the
\* types can be resolved.  (If they cannot it goes round for ever.)
Terminates == ~Cyclic /\ (\A m \in Modules : Resolvable(m))
                  => <>(failed \/ Roots[Len(Roots)] \in closed)

\* An import loop is detected and reported.
LoopDetected == Cyclic => <>(failed \/ loop)
=============================================================================
