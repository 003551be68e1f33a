------------------------- MODULE ModuleLoaderProofs -------------------------
(***************************************************************************)
(* Proofs about ModuleLoader, for every set of modules, files, imports and *)
(* type definitions.  LoadInv ties the places of files and modules to the  *)
(* channels, the mutex and the emitted modules; FathersInv ties the path a *)
(* load carries to the import graph; TypesInv says what the rounds of      *)
(* CalcGlobals have achieved.                                              *)
(***************************************************************************)
EXTENDS ModuleLoader, FiniteSetTheorems, SequenceTheorems, WellFoundedInduction, TLAPS

-----------------------------------------------------------------------------
(* Induction and recursion over integers without operator parameters: a    *)
(* predicate is given as the set of numbers that satisfy it, the step of a *)
(* recursive function as a function.                                       *)

\* A non-empty set of natural numbers has a least element.
LEMMA NatLeast ==
    ASSUME NEW T \in SUBSET Nat, T # {}
    PROVE  \E x \in T : \A y \in T : x <= y
<1> DEFINE R == OpToRel(<, Nat)
<1>1. IsWellFoundedOn(R, Nat)
  BY NatLessThanWellFounded
<1>2. \A x, y \in Nat : y < x => <<y, x>> \in R
  BY DEF OpToRel
<1> HIDE DEF R
<1>3. PICK x \in T : \A y \in T : ~ (<<y, x>> \in R)
  BY <1>1, WFMin
<1>4. \A y \in T : y \in Nat /\ x \in Nat
  OBVIOUS
<1>5. \A y \in T : ~(y < x)
  BY <1>2, <1>3, <1>4, Zenon
<1> QED
  BY <1>4, <1>5

\* Induction over the natural numbers, for the members of a set.
LEMMA NatSetInduction ==
    ASSUME NEW S, 0 \in S, \A n \in Nat : n \in S => n + 1 \in S
    PROVE  \A n \in Nat : n \in S
<1> DEFINE T == Nat \ S
<1>1. SUFFICES ASSUME T # {} PROVE FALSE
  OBVIOUS
<1>2. PICK x \in T : \A y \in T : x <= y
  BY <1>1, NatLeast
<1>3. x \in Nat /\ x # 0 /\ x - 1 \in Nat /\ x - 1 \notin T
  BY <1>2
<1> QED
  BY <1>3

\* Induction over an interval.
LEMMA IntervalInduction ==
    ASSUME NEW S, NEW lo \in Int, NEW hi \in Int, lo \in S,
           \A n \in lo..(hi - 1) : n \in S => n + 1 \in S
    PROVE  \A n \in lo..hi : n \in S
<1> DEFINE T == {k \in Nat : lo + k <= hi => lo + k \in S}
<1>1. 0 \in T
  OBVIOUS
<1>2. \A k \in Nat : k \in T => k + 1 \in T
  OBVIOUS
<1> HIDE DEF T
<1>3. \A k \in Nat : k \in T
  BY <1>1, <1>2, NatSetInduction
<1>4. ASSUME NEW n \in lo..hi PROVE n \in S
  <2>1. n - lo \in Nat /\ lo + (n - lo) = n
    OBVIOUS
  <2>2. n - lo \in T
    BY <1>3, <2>1
  <2> QED
    BY <2>1, <2>2 DEF T
<1> QED
  BY <1>4

\* g starts with a, and goes on with step
Iterates(g, lo, hi, a, step) ==
    \A i \in lo..hi : g[i] = IF i = lo THEN a ELSE step[i][g[i - 1]]

\* A function defined by recursion over an interval exists, and has its type.
LEMMA IntervalRecursion ==
    ASSUME NEW S, NEW lo \in Int, NEW hi \in Int, NEW a \in S,
           NEW step \in [lo..hi -> [S -> S]]
    PROVE  \E g \in [lo..hi -> S] : Iterates(g, lo, hi, a, step)
<1> USE DEF Iterates
<1> DEFINE Upto(n, g) == \A i \in lo..n : g[i] = IF i = lo THEN a ELSE step[i][g[i - 1]]
           N == {n \in Int : \E g \in [lo..n -> S] : Upto(n, g)}
<1>1. lo \in N
  <2> DEFINE g == [i \in lo..lo |-> a]
  <2>1. g \in [lo..lo -> S] /\ Upto(lo, g)
    OBVIOUS
  <2> QED
    BY <2>1
<1>2. ASSUME NEW n \in lo..(hi - 1), n \in N PROVE n + 1 \in N
  <2>1. PICK g \in [lo..n -> S] : Upto(n, g)
    BY <1>2
  <2> DEFINE h == [i \in lo..(n + 1) |-> IF i = n + 1 THEN step[n + 1][g[n]] ELSE g[i]]
  <2>2. step[n + 1][g[n]] \in S
    OBVIOUS
  <2>3. h \in [lo..(n + 1) -> S]
    BY <2>2
  <2>4. ASSUME NEW i \in lo..(n + 1)
        PROVE  h[i] = IF i = lo THEN a ELSE step[i][h[i - 1]]
    <3>1. CASE i = n + 1
      BY <3>1
    <3>2. CASE i # n + 1
      <4>1. i \in lo..n /\ h[i] = g[i]
        BY <3>2
      <4>2. i # lo => i - 1 \in lo..n /\ h[i - 1] = g[i - 1]
        BY <3>2
      <4> QED
        BY <4>1, <4>2, <2>1
    <3> QED
      BY <3>1, <3>2
  <2> HIDE DEF h
  <2>5. Upto(n + 1, h) /\ n + 1 \in Int
    BY <2>4
  <2> QED
    BY <2>3, <2>5
<1> HIDE DEF N
<1>3. CASE lo <= hi
  <2>1. \A n \in lo..hi : n \in N
    BY <1>1, <1>2, IntervalInduction
  <2>2. hi \in N
    BY <1>3, <2>1
  <2> QED
    BY <2>2 DEF N
<1>4. CASE ~(lo <= hi)
  <2> DEFINE g == [i \in lo..hi |-> a]
  <2>1. g \in [lo..hi -> S] /\ \A i \in lo..hi : FALSE
    BY <1>4
  <2> QED
    BY <2>1
<1> QED
  BY <1>3, <1>4

-----------------------------------------------------------------------------
\* the places of a module's load and of a file's goroutine
MPCs == {"none", "gather", "lock", "emit", "unlock", "close", "done"}
FPCs == {"none", "import", "wait", "done"}

\* The types of the variables of the loader.
LoadTyped ==
    /\ started \subseteq Modules
    /\ fathers \in [Modules -> SUBSET Modules]
    /\ parsed \in [Modules -> SUBSET Files]
    /\ mpc \in [Modules -> MPCs]
    /\ emitMu \in Modules \union {NoModule}
    /\ emitted \in Seq(Modules)
    /\ todo \in [Files -> SUBSET Modules]
    /\ cur \in [Files -> Modules \union {NoModule}]
    /\ fpc \in [Files -> FPCs]
    /\ root \in 0..Len(Roots)

\* A module is started once somebody loads it, closed when its load is over.
ModulePlaces ==
    /\ \A m \in Modules : mpc[m] = "none" <=> m \notin started
    /\ closed = {m \in Modules : mpc[m] = "done"}
    /\ \A m \in Modules : mpc[m] \notin {"none", "gather"} => parsed[m] = FilesOf(m)

\* A file is parsed when all its imports are loaded.
FilePlaces ==
    /\ \A f \in Files : fpc[f] = "none" <=> Mod[f] \notin started
    /\ \A m \in Modules : parsed[m] = {f \in FilesOf(m) : fpc[f] = "done"}
    /\ \A f \in Files : fpc[f] = "wait" => cur[f] \in started
    /\ \A f \in Files : todo[f] \subseteq Imports[f] /\ Imports[f] \ todo[f] \subseteq closed
    /\ \A f \in Files : fpc[f] = "done" => todo[f] = {}

\* emitMu is held exactly during Emit; emitted are the modules behind it.
EmitPlaces ==
    /\ \A m \in Modules : emitMu = m <=> mpc[m] \in {"emit", "unlock"}
    /\ \A m \in Modules : (\E i \in 1..Len(emitted) : emitted[i] = m)
                              <=> mpc[m] \in {"unlock", "close", "done"}

LoadInv == LoadTyped /\ ModulePlaces /\ FilePlaces /\ EmitPlaces /\ EmitOrder

\* fathers are modules that lead to the module by imports, from a root.
Reaches(m, n) == n \in {m} \union Depends(m)
FathersInv ==
    /\ \A m \in started : \A x \in fathers[m] : Reaches(x, m)
    /\ \A m \in started : \E r \in RootSet : Reaches(r, m)
    /\ LoopIsReal

\* the members of a sequence
Elems(q) == {q[i] : i \in 1..Len(q)}

\* The types of D can be defined one after the other.
Grounded(D) ==
    /\ D \subseteq Declared
    /\ \A t \in D : \A r \in refs[t] : Home[r] = Home[t] => r \in D
    /\ \A C \in (SUBSET D) \ {{}} :
          (\A t, u \in C : Home[t] = Home[u]) => \E t \in C : refs[t] \intersect C \subseteq {t}

\* What is defined can be resolved; what a parsed file defines is defined or
\* pending; nothing is pending behind Emit.
TypesInv ==
    /\ refs \in RefGraphs /\ pending \in [Modules -> Seq(Types)]
    /\ Grounded(defined)
    /\ \A m \in Modules : Elems(pending[m]) \subseteq {t \in Declared : Home[t] = m}
    /\ \A m \in Modules : \A f \in parsed[m] : Elems(TypesIn[f]) \subseteq defined \union Elems(pending[m])
    /\ \A m \in Modules : mpc[m] \in {"unlock", "close", "done"} => pending[m] = <<>>
    /\ \A p \in opaque : p[2] \notin Declared

-----------------------------------------------------------------------------
\* Nothing is loaded at first: the loader's invariant holds.
LEMMA LoadInvInit == Init => LoadInv
  BY LoaderAssumption
  DEF Init, LoadInv, LoadTyped, ModulePlaces, FilePlaces, EmitPlaces, EmitOrder, FilesOf,
      MPCs, FPCs

\* Loading m, for ParseRoot and for Import.
LEMMA ParseModuleLoad ==
    ASSUME LoadInv, NEW m \in Modules, NEW path \in SUBSET Modules, NEW g \in SUBSET Files,
           ParseModule(m, path, g), \A f \in g : fpc[f] = "import" /\ cur'[f] = m,
           \A f \in Files \ g : cur'[f] = cur[f], cur' \in [Files -> Modules \union {NoModule}],
           root' \in 0..Len(Roots),
           UNCHANGED <<closed, emitMu, emitted, parsed, todo>>
    PROVE  LoadInv'
<1>a. Mod \in [Files -> Modules] /\ NoModule \notin Modules
  BY LoaderAssumption
<1>b. LoadTyped /\ ModulePlaces /\ FilePlaces /\ EmitPlaces /\ EmitOrder
  BY DEF LoadInv
<1>1. CASE m \in started
  <2>1. /\ started' = started /\ fathers' = fathers /\ mpc' = mpc
        /\ fpc' = [f \in Files |-> IF f \in g THEN "wait" ELSE fpc[f]]
    BY <1>1 DEF ParseModule
  <2>2. LoadTyped'
    BY <1>b, <2>1 DEF LoadTyped, FPCs
  <2>3. ModulePlaces' /\ EmitPlaces' /\ EmitOrder'
    BY <1>b, <2>1 DEF ModulePlaces, EmitPlaces, EmitOrder
  <2>4. FilePlaces'
    BY <1>a, <1>b, <1>1, <2>1 DEF LoadTyped, FilePlaces, FilesOf
  <2> QED BY <2>2, <2>3, <2>4 DEF LoadInv
<1>2. CASE m \notin started
  <2>1. /\ started' = started \union {m} /\ fathers' = [fathers EXCEPT ![m] = path \union {m}]
        /\ mpc' = [mpc EXCEPT ![m] = "gather"]
        /\ fpc' = [f \in Files |-> IF f \in g THEN "wait" ELSE
                                   IF Mod[f] = m THEN "import" ELSE fpc[f]]
    BY <1>2 DEF ParseModule
  <2>2. LoadTyped'
    BY <1>b, <2>1 DEF LoadTyped, FPCs, MPCs
  <2>3. mpc[m] = "none" /\ mpc'[m] = "gather" /\ \A n \in Modules \ {m} : mpc'[n] = mpc[n]
    BY <1>b, <1>2, <2>1 DEF LoadTyped, ModulePlaces
  <2>4. ModulePlaces'
    BY <1>b, <2>1, <2>3 DEF ModulePlaces
  <2>5. EmitPlaces' /\ EmitOrder'
    BY <1>b, <2>1, <2>3 DEF EmitPlaces, EmitOrder
  <2>6. \A f \in Files : /\ f \in g => Mod[f] # m /\ fpc'[f] = "wait"
                         /\ f \notin g /\ Mod[f] = m => fpc[f] = "none" /\ fpc'[f] = "import"
                         /\ f \notin g /\ Mod[f] # m => fpc'[f] = fpc[f]
    BY <1>a, <1>b, <1>2, <2>1 DEF FilePlaces
  <2>7. \A f \in Files : fpc'[f] = "none" <=> Mod[f] \notin started'
    BY <1>a, <1>b, <2>1, <2>6 DEF FilePlaces
  <2>8. \A f \in Files : fpc'[f] = "done" <=> fpc[f] = "done"
    BY <1>b, <2>6 DEF FilePlaces
  <2>9. \A f \in Files : fpc'[f] = "wait" => cur'[f] \in started'
    BY <1>b, <2>1, <2>6 DEF FilePlaces
  <2>10. FilePlaces'
    BY <1>b, <2>7, <2>8, <2>9 DEF FilePlaces, FilesOf
  <2> QED BY <2>2, <2>4, <2>5, <2>10 DEF LoadInv
<1> QED
  BY <1>1, <1>2

\* Every step of ParseDir, of a file's goroutine and of a module's load preserves
\* the loader's invariant.
LEMMA LoadInvStep == LoadInv /\ [Next]_vars => LoadInv'
<1> SUFFICES ASSUME LoadInv, [Next]_vars PROVE LoadInv'
  OBVIOUS
<1>a. /\ Mod \in [Files -> Modules] /\ Imports \in [Files -> SUBSET Modules]
      /\ NoModule \notin Modules
  BY LoaderAssumption
<1>b. LoadTyped /\ ModulePlaces /\ FilePlaces /\ EmitPlaces /\ EmitOrder
  BY DEF LoadInv
<1>0. ASSUME UNCHANGED <<started, closed, fathers, parsed, mpc, emitMu, emitted, todo,
                         cur, fpc, root>>
      PROVE  LoadInv'
  <2>1. LoadTyped' /\ ModulePlaces'
    BY <1>0, <1>b DEF LoadTyped, ModulePlaces
  <2>2. FilePlaces'
    BY <1>0, <1>b DEF FilePlaces
  <2>3. EmitPlaces' /\ EmitOrder'
    BY <1>0, <1>b DEF EmitPlaces, EmitOrder
  <2> QED BY <2>1, <2>2, <2>3 DEF LoadInv
<1>1. CASE ParseRoot
  <2>1. Roots[root + 1] \in Modules /\ root' \in 0..Len(Roots)
    BY <1>1, <1>b, LoaderAssumption DEF ParseRoot, LoadTyped
  <2>2. ParseModule(Roots[root + 1], {}, {}) /\ UNCHANGED <<closed, emitMu, emitted, parsed, todo, cur>>
    BY <1>1 DEF ParseRoot, emit, file
  <2>3. /\ cur' \in [Files -> Modules \union {NoModule}]
        /\ \A f \in Files \ {} : cur'[f] = cur[f]
        /\ \A f \in {} : fpc[f] = "import" /\ cur'[f] = Roots[root + 1]
        /\ {} \in SUBSET Modules /\ {} \in SUBSET Files
        /\ UNCHANGED <<closed, emitMu, emitted, parsed, todo>>
    BY <1>b, <2>2 DEF LoadTyped
  <2> QED
    BY <2>1, <2>2, <2>3, ParseModuleLoad, Zenon
<1>2. ASSUME NEW f \in Files, NEW m \in Modules, Import(f, m) PROVE LoadInv'
  <2>1. CASE m \in fathers[Mod[f]]
    BY <1>0, <1>2, <2>1 DEF Import, load, emit, types
  <2>2. CASE m \notin fathers[Mod[f]]
    <3> DEFINE g == {f}
    <3>1. /\ ParseModule(m, fathers[Mod[f]], g) /\ fpc[f] = "import"
          /\ cur' = [cur EXCEPT ![f] = m]
          /\ UNCHANGED <<closed, emitMu, emitted, parsed, todo, root>>
      BY <1>2, <2>2 DEF Import, emit
    <3>2. /\ cur' \in [Files -> Modules \union {NoModule}] /\ cur'[f] = m
          /\ \A x \in Files \ g : cur'[x] = cur[x]
          /\ fathers[Mod[f]] \in SUBSET Modules /\ root' \in 0..Len(Roots)
      BY <1>a, <1>b, <3>1 DEF LoadTyped
    <3>3. /\ \A x \in g : fpc[x] = "import" /\ cur'[x] = m
          /\ g \in SUBSET Files
          /\ UNCHANGED <<closed, emitMu, emitted, parsed, todo>>
      BY <3>1, <3>2
    <3> HIDE DEF g
    <3> QED
      BY <3>1, <3>2, <3>3, ParseModuleLoad, Zenon
  <2> QED BY <2>1, <2>2
<1>3. ASSUME NEW f \in Files, Imported(f) PROVE LoadInv'
  <2>1. LoadTyped'
    BY <1>3, <1>b DEF Imported, emit, LoadTyped, FPCs
  <2>3. ModulePlaces' /\ EmitPlaces' /\ EmitOrder'
    BY <1>3, <1>b DEF Imported, emit, ModulePlaces, EmitPlaces, EmitOrder
  <2>2. FilePlaces'
    BY <1>3, <1>a, <1>b DEF Imported, emit, LoadTyped, FilePlaces, FilesOf
  <2> QED BY <2>1, <2>2, <2>3 DEF LoadInv
<1>4. ASSUME NEW f \in Files, Parsed(f) PROVE LoadInv'
  <2>1. LoadTyped'
    BY <1>4, <1>a, <1>b DEF Parsed, emit, LoadTyped, FPCs
  <2>4. EmitPlaces' /\ EmitOrder'
    BY <1>4, <1>b DEF Parsed, emit, EmitPlaces, EmitOrder
  <2>2. FilePlaces'
    BY <1>4, <1>a, <1>b DEF Parsed, emit, LoadTyped, FilePlaces, FilesOf
  <2>3. ModulePlaces'
    BY <1>4, <1>a, <1>b DEF Parsed, emit, LoadTyped, ModulePlaces, FilePlaces, FilesOf
  <2> QED BY <2>1, <2>2, <2>3, <2>4 DEF LoadInv
<1>5. ASSUME NEW f \in Files, ParseError(f) PROVE LoadInv'
  BY <1>0, <1>5 DEF ParseError, load, emit, file
<1>6. ASSUME NEW m \in Modules, Gathered(m) PROVE LoadInv'
  <2>1. LoadTyped'
    BY <1>6, <1>b DEF Gathered, file, emit, LoadTyped, MPCs
  <2>2. ModulePlaces'
    BY <1>6, <1>b DEF Gathered, file, emit, LoadTyped, ModulePlaces
  <2>3. FilePlaces'
    BY <1>6, <1>b DEF Gathered, file, emit, FilePlaces
  <2>4. EmitPlaces'
    BY <1>6, <1>a, <1>b DEF Gathered, emit, LoadTyped, EmitPlaces
  <2>5. EmitOrder'
    BY <1>6, <1>b DEF Gathered, emit, EmitOrder
  <2> QED BY <2>1, <2>2, <2>3, <2>4, <2>5 DEF LoadInv
<1>7. ASSUME NEW m \in Modules, EmitLock(m) PROVE LoadInv'
  <2>1. LoadTyped'
    BY <1>7, <1>b DEF EmitLock, file, LoadTyped, MPCs
  <2>2. ModulePlaces'
    BY <1>7, <1>b DEF EmitLock, file, LoadTyped, ModulePlaces
  <2>3. FilePlaces'
    BY <1>7, <1>b DEF EmitLock, file, FilePlaces
  <2>4. EmitPlaces'
    BY <1>7, <1>a, <1>b DEF EmitLock, LoadTyped, EmitPlaces
  <2>5. EmitOrder'
    BY <1>7, <1>b DEF EmitLock, EmitOrder
  <2> QED BY <2>1, <2>2, <2>3, <2>4, <2>5 DEF LoadInv
<1>8. ASSUME NEW m \in Modules, DefRound(m) PROVE LoadInv'
  BY <1>0, <1>8 DEF DefRound, load, emit
<1>9. ASSUME NEW m \in Modules, Emit(m) PROVE LoadInv'
  <2>1. LoadTyped' /\ ModulePlaces'
    BY <1>9, <1>b DEF Emit, file, LoadTyped, ModulePlaces, MPCs
  <2>6. FilePlaces'
    BY <1>9, <1>b DEF Emit, file, FilePlaces
  <2>2. EmitPlaces'
    <3>1. \A n \in Modules : (\E i \in 1..Len(emitted') : emitted'[i] = n)
                               <=> n = m \/ \E i \in 1..Len(emitted) : emitted[i] = n
      <4>1. /\ Len(emitted) \in Nat /\ Len(emitted') = Len(emitted) + 1
            /\ \A i \in 1..Len(emitted) : emitted'[i] = emitted[i]
            /\ emitted'[Len(emitted) + 1] = m
        BY <1>9, <1>b DEF Emit, LoadTyped
      <4>2. \A i : i \in 1..Len(emitted') <=> i \in 1..Len(emitted) \/ i = Len(emitted) + 1
        BY <4>1
      <4> QED BY <4>1, <4>2, Zenon
    <3>2. mpc[m] = "emit" /\ mpc' = [mpc EXCEPT ![m] = "unlock"] /\ emitMu' = emitMu
      BY <1>9 DEF Emit
    <3> QED BY <1>b, <3>1, <3>2 DEF LoadTyped, EmitPlaces
  <2>3. \A i \in 1..Len(emitted) : emitted[i] # m
    BY <1>9, <1>b DEF Emit, EmitPlaces
  <2>4. \A n \in ImportsOf(m) : \E j \in 1..Len(emitted) : emitted[j] = n
    <3>1. SUFFICES ASSUME NEW f \in FilesOf(m), NEW n \in Imports[f]
                   PROVE  \E j \in 1..Len(emitted) : emitted[j] = n
      BY DEF ImportsOf
    <3>2. f \in Files /\ fpc[f] = "done" /\ n \in Modules
      <4>1. parsed[m] = FilesOf(m) /\ parsed[m] = {x \in FilesOf(m) : fpc[x] = "done"}
        BY <1>9 DEF Emit, LoadInv, ModulePlaces, FilePlaces
      <4> QED BY <1>a, <4>1 DEF FilesOf
    <3>3. n \in closed
      BY <3>2 DEF LoadInv, FilePlaces
    <3>4. mpc[n] = "done"
      BY <3>3 DEF LoadInv, ModulePlaces
    <3> QED BY <3>2, <3>4 DEF LoadInv, EmitPlaces
  <2>5. EmitOrder'
    <3>1. /\ Len(emitted) \in Nat /\ Len(emitted') = Len(emitted) + 1
          /\ \A i \in 1..Len(emitted) : emitted'[i] = emitted[i]
          /\ emitted'[Len(emitted) + 1] = m
      BY <1>9, <1>b DEF Emit, LoadTyped
    <3>2. ASSUME NEW i \in 1..Len(emitted')
          PROVE  /\ \A j \in 1..Len(emitted') : emitted'[i] = emitted'[j] => i = j
                 /\ \A n \in ImportsOf(emitted'[i]) : \E j \in 1..(i - 1) : emitted'[j] = n
      <4>1. CASE i \in 1..Len(emitted)
        <5>1. /\ \A j \in 1..Len(emitted) : emitted[i] = emitted[j] => i = j
              /\ \A n \in ImportsOf(emitted[i]) : \E j \in 1..(i - 1) : emitted[j] = n
          BY <4>1 DEF LoadInv, EmitOrder
        <5> QED BY <2>3, <3>1, <4>1, <5>1
      <4>2. CASE i = Len(emitted) + 1
        <5>1. emitted'[i] = m /\ i - 1 = Len(emitted)
          BY <3>1, <4>2
        <5>2. \A j \in 1..Len(emitted') : j # i => emitted'[j] # m
          BY <2>3, <3>1, <4>2
        <5>3. \A n \in ImportsOf(m) : \E j \in 1..(i - 1) : emitted'[j] = n
          BY <2>4, <3>1, <5>1
        <5> QED BY <5>1, <5>2, <5>3
      <4> QED BY <3>1, <4>1, <4>2
    <3> QED BY <3>2 DEF EmitOrder
  <2> QED BY <2>1, <2>2, <2>5, <2>6 DEF LoadInv
<1>10. ASSUME NEW m \in Modules, EmitUnlock(m) PROVE LoadInv'
  <2>1. LoadTyped'
    BY <1>10, <1>b DEF EmitUnlock, file, LoadTyped, MPCs
  <2>2. ModulePlaces'
    BY <1>10, <1>b DEF EmitUnlock, file, LoadTyped, ModulePlaces
  <2>3. FilePlaces'
    BY <1>10, <1>b DEF EmitUnlock, file, FilePlaces
  <2>4. EmitPlaces'
    BY <1>10, <1>a, <1>b DEF EmitUnlock, LoadTyped, EmitPlaces
  <2>5. EmitOrder'
    BY <1>10, <1>b DEF EmitUnlock, EmitOrder
  <2> QED BY <2>1, <2>2, <2>3, <2>4, <2>5 DEF LoadInv
<1>11. ASSUME NEW m \in Modules, Close(m) PROVE LoadInv'
  <2>1. LoadTyped' /\ ModulePlaces'
    BY <1>11, <1>b DEF Close, file, LoadTyped, ModulePlaces, MPCs
  <2>2. FilePlaces'
    BY <1>11, <1>b DEF Close, file, LoadTyped, FilePlaces
  <2>3. EmitPlaces'
    BY <1>11, <1>a, <1>b DEF Close, LoadTyped, EmitPlaces
  <2>4. EmitOrder'
    BY <1>11, <1>b DEF Close, EmitOrder
  <2> QED BY <2>1, <2>2, <2>3, <2>4 DEF LoadInv
<1>12. CASE UNCHANGED vars
  BY <1>0, <1>12 DEF vars
<1> QED
  BY <1>1, <1>2, <1>3, <1>4, <1>5, <1>6, <1>7, <1>8, <1>9, <1>10, <1>11, <1>12
  DEF Next, FileStep, ModuleStep

-----------------------------------------------------------------------------
(* The rounds of CalcGlobals. *)

\* The members of a sequence with one more element.
LEMMA ElemsAppend ==
    ASSUME NEW S, NEW q \in Seq(S), NEW x \in S
    PROVE  Elems(Append(q, x)) = Elems(q) \union {x}
<1>1. /\ Len(q) \in Nat /\ Len(Append(q, x)) = Len(q) + 1
      /\ \A i \in 1..Len(q) : Append(q, x)[i] = q[i]
      /\ Append(q, x)[Len(q) + 1] = x
  BY AppendProperties, LenProperties
<1>2. \A i : i \in 1..(Len(q) + 1) <=> i \in 1..Len(q) \/ i = Len(q) + 1
  BY <1>1
<1> QED BY <1>1, <1>2, Zenon DEF Elems

\* The members of two sequences one after the other (Merge).
LEMMA ElemsConcat ==
    ASSUME NEW S, NEW q \in Seq(S), NEW r \in Seq(S)
    PROVE  Elems(q \o r) = Elems(q) \union Elems(r)
<1>1. /\ Len(q) \in Nat /\ Len(r) \in Nat /\ Len(q \o r) = Len(q) + Len(r)
      /\ \A i \in 1..(Len(q) + Len(r)) : (q \o r)[i] =
                     IF i <= Len(q) THEN q[i] ELSE r[i - Len(q)]
  BY ConcatProperties, LenProperties
<1>2. ASSUME NEW x \in Elems(q \o r) PROVE x \in Elems(q) \union Elems(r)
  <2>1. PICK i \in 1..(Len(q) + Len(r)) : x = (q \o r)[i]
    BY <1>1 DEF Elems
  <2>2. CASE i <= Len(q)
    <3>1. i \in 1..Len(q) /\ x = q[i]
      BY <1>1, <2>1, <2>2
    <3> QED BY <3>1 DEF Elems
  <2>3. CASE ~(i <= Len(q))
    <3>1. i - Len(q) \in 1..Len(r) /\ x = r[i - Len(q)]
      BY <1>1, <2>1, <2>3
    <3> QED BY <3>1 DEF Elems
  <2> QED BY <2>2, <2>3
<1>3. ASSUME NEW x \in Elems(q) PROVE x \in Elems(q \o r)
  <2>1. PICK i \in 1..Len(q) : x = q[i]
    BY DEF Elems
  <2>2. i \in 1..(Len(q) + Len(r)) /\ x = (q \o r)[i]
    BY <1>1, <2>1
  <2> QED BY <1>1, <2>2 DEF Elems
<1>4. ASSUME NEW x \in Elems(r) PROVE x \in Elems(q \o r)
  <2>1. PICK i \in 1..Len(r) : x = r[i]
    BY DEF Elems
  <2>2. i + Len(q) \in 1..(Len(q) + Len(r)) /\ x = (q \o r)[i + Len(q)]
    BY <1>1, <2>1
  <2> QED BY <1>1, <2>2 DEF Elems
<1> QED BY <1>2, <1>3, <1>4

\* A declared type is named in the module of its file.
LEMMA DeclaredIs ==
    /\ Declared \subseteq Types
    /\ \A t \in Declared : Home[t] \in Modules
    /\ \A t \in Declared : \E f \in Files : t \in Elems(TypesIn[f]) /\ Mod[f] = Home[t]
    /\ \A f \in Files : \A t \in Elems(TypesIn[f]) : t \in Declared /\ Home[t] = Mod[f]
<1>1. \A f \in Files : \A t \in Elems(TypesIn[f]) : t \in Types /\ Home[t] = Mod[f]
  BY LoaderAssumption, ElementOfSeq DEF Elems
<1>2. Declared = UNION {Elems(TypesIn[f]) : f \in Files}
  BY DEF Declared, Elems
<1> QED BY <1>1, <1>2, LoaderAssumption

\* A definition whose names are known can follow the ones before it.
LEMMA GroundedAdd ==
    ASSUME NEW D, NEW t \in Declared, Grounded(D), Calc(t, D)
    PROVE  Grounded(D \union {t})
<1> DEFINE E == D \union {t}
<1>1. CASE t \in D
  <2>1. E = D
    BY <1>1
  <2> QED BY <2>1
<1>2. CASE t \notin D
  <2>1. E \subseteq Declared
    BY DEF Grounded
  <2>2. \A u \in E : \A r \in refs[u] : Home[r] = Home[u] => r \in E
    BY DEF Grounded, Calc
  <2>3. ASSUME NEW C \in (SUBSET E) \ {{}}, \A u, v \in C : Home[u] = Home[v]
        PROVE  \E u \in C : refs[u] \intersect C \subseteq {u}
    <3> DEFINE B == C \ {t}
    <3>1. CASE B = {}
      <4>1. C = {t}
        BY <3>1
      <4> QED BY <4>1
    <3>2. CASE B # {}
      <4>1. B \in (SUBSET D) \ {{}} /\ \A u, v \in B : Home[u] = Home[v]
        BY <2>3, <3>2
      <4>2. PICK u \in B : refs[u] \intersect B \subseteq {u}
        BY <4>1 DEF Grounded
      <4>3. u \in D /\ u \in C
        BY <4>1
      <4>4. t \in C => t \notin refs[u]
        BY <1>2, <2>3, <4>3 DEF Grounded
      <4> QED BY <4>2, <4>3, <4>4
    <3> QED BY <3>1, <3>2
  <2> QED BY <2>1, <2>2, <2>3 DEF Grounded
<1> QED BY <1>1, <1>2

\* One round: it defines only what can be defined, and drops nothing.
RoundOK(p, ts, i) ==
    /\ defined \subseteq p.d /\ Grounded(p.d)
    /\ Elems(p.failed) \subseteq Elems(ts)
    /\ \A j \in 1..i : ts[j] \in p.d \union Elems(p.failed)
    /\ \A t \in p.d \ defined :
          t \in Elems(ts) /\ \A r \in refs[t] : Home[r] # Home[t] => Registered(Home[r])

\* What one round of CalcGlobals returns: every definition was defined or failed,
\* and what it defined can be resolved.
LEMMA RoundFacts ==
    ASSUME Grounded(defined), NEW ts \in Seq(Types), Elems(ts) \subseteq Declared
    PROVE  /\ Round(ts) \in [d : SUBSET Types, failed : Seq(Types)]
           /\ RoundOK(Round(ts), ts, Len(ts))
<1> DEFINE S == [d : SUBSET Types, failed : Seq(Types)]
           n == Len(ts)
           a == [d |-> defined, failed |-> <<>>]
           f(p, i) == IF Calc(ts[i], p.d) THEN [p EXCEPT !.d = @ \union {ts[i]}]
                      ELSE [p EXCEPT !.failed = Append(@, ts[i])]
           Is(g) == g = [i \in 0..n |-> IF i = 0 THEN a ELSE f(g[i - 1], i)]
           step == [i \in 0..n |-> [p \in S |-> IF i = 0 THEN p ELSE f(p, i)]]
<1>0. n \in Nat /\ \A i \in 1..n : ts[i] \in Types /\ ts[i] \in Elems(ts)
  BY LenProperties, ElementOfSeq DEF Elems
<1>1. a \in S
  BY DeclaredIs DEF Grounded
<1>2. ASSUME NEW p \in S, NEW i \in 1..n PROVE f(p, i) \in S
  <2>1. p.d \union {ts[i]} \in SUBSET Types /\ Append(p.failed, ts[i]) \in Seq(Types)
    BY <1>0
  <2>2. /\ [p EXCEPT !.d = @ \union {ts[i]}] \in S
        /\ [p EXCEPT !.failed = Append(@, ts[i])] \in S
    BY <2>1
  <2> HIDE DEF S
  <2> QED BY <2>2
<1>3. step \in [0..n -> [S -> S]]
  <2> HIDE DEF S, f
  <2>1. \A i \in 0..n : i # 0 => i \in 1..n
    BY <1>0
  <2> QED BY <1>2, <2>1
<1>4. PICK g \in [0..n -> S] : Iterates(g, 0, n, a, step)
  <2>1. 0 \in Int /\ n \in Int
    BY <1>0
  <2> HIDE DEF S, n, a, step
  <2> QED BY <1>1, <1>3, <2>1, IntervalRecursion
<1>5. Is(g)
  <2> HIDE DEF S, a, f
  <2>1. \A i \in 0..n : i # 0 => g[i - 1] \in S
    BY <1>0
  <2> QED BY <1>0, <1>4, <2>1 DEF Iterates
<1>6. Round(ts) = (CHOOSE h : Is(h))[n]
  BY DEF Round
<1> DEFINE w == CHOOSE h : Is(h)
<1> HIDE DEF step
<1>7. Is(w)
  <2> HIDE DEF Is
  <2> QED BY <1>5
<1> HIDE DEF w
<1>8. w[0] = a /\ \A i \in 1..n : w[i] = f(w[i - 1], i)
  <2> HIDE DEF a, f
  <2>1. \A i \in 0..n : w[i] = IF i = 0 THEN a ELSE f(w[i - 1], i)
    BY <1>7
  <2> QED BY <1>0, <2>1
<1> DEFINE T == {i \in 0..n : w[i] \in S /\ RoundOK(w[i], ts, i)}
<1>9. 0 \in T
  <2>1. Elems(<<>>) = {}
    BY DEF Elems
  <2>2. RoundOK(a, ts, 0)
    BY <2>1 DEF RoundOK
  <2> HIDE DEF a
  <2> QED BY <1>0, <1>1, <1>8, <2>2
<1>10. ASSUME NEW k \in 0..(n - 1), k \in T PROVE k + 1 \in T
  <2> DEFINE p == w[k]
             q == w[k + 1]
             x == ts[k + 1]
  <2>1. k + 1 \in 1..n /\ k + 1 \in 0..n /\ p \in S /\ RoundOK(p, ts, k)
    BY <1>0, <1>10
  <2>2. q = f(p, k + 1) /\ q \in S
    <3>1. (k + 1) - 1 = k
      BY <1>0
    <3> QED BY <1>2, <1>8, <2>1, <3>1
  <2>3. x \in Declared /\ x \in Elems(ts) /\ x \in Types
    BY <1>0, <2>1
  <2>4. \A j \in 1..(k + 1) : j \in 1..k \/ j = k + 1
    OBVIOUS
  <2>5. CASE Calc(x, p.d)
    <3>1. q.d = p.d \union {x} /\ q.failed = p.failed
      BY <2>1, <2>2, <2>5
    <3>2. Grounded(q.d)
      BY <2>1, <2>3, <2>5, <3>1, GroundedAdd DEF RoundOK
    <3>3. \A r \in refs[x] : Home[r] # Home[x] => Registered(Home[r])
      BY <2>5 DEF Calc
    <3> HIDE DEF p, q, x
    <3>4. RoundOK(q, ts, k + 1)
      BY <2>1, <2>3, <2>4, <3>1, <3>2, <3>3 DEF RoundOK, x
    <3> QED BY <2>1, <2>2, <3>4 DEF q
  <2>6. CASE ~Calc(x, p.d)
    <3>1. q.d = p.d /\ q.failed = Append(p.failed, x)
      BY <2>1, <2>2, <2>6
    <3>2. Elems(q.failed) = Elems(p.failed) \union {x}
      BY <2>1, <2>3, <3>1, ElemsAppend
    <3> HIDE DEF p, q, x
    <3>3. RoundOK(q, ts, k + 1)
      BY <2>1, <2>3, <2>4, <3>1, <3>2 DEF RoundOK, x
    <3> QED BY <2>1, <2>2, <3>3 DEF q
  <2> QED BY <2>5, <2>6
<1> HIDE DEF T
<1>11. \A i \in 0..n : i \in T
  <2>1. 0 \in Int /\ n \in Int
    BY <1>0
  <2> HIDE DEF n
  <2> QED BY <2>1, <1>9, <1>10, IntervalInduction
<1>12. n \in T
  BY <1>0, <1>11
<1> QED BY <1>6, <1>12 DEF T, w

\* No type is defined at first.
LEMMA TypesInvInit == Init => TypesInv
<1> SUFFICES ASSUME Init PROVE TypesInv
  OBVIOUS
<1>1. Elems(<<>>) = {}
  BY DEF Elems
<1>2. Grounded(defined)
  BY DEF Init, Grounded
<1> QED
  BY <1>1, <1>2 DEF Init, TypesInv

\* Once a module is emitted its types are all defined.
LEMMA AllDefined ==
    ASSUME LoadInv, TypesInv, NEW m \in Modules, mpc[m] \in {"unlock", "close", "done"}
    PROVE  \A t \in Declared : Home[t] = m => t \in defined
<1>1. pending[m] = <<>> /\ parsed[m] = FilesOf(m) /\ Elems(<<>>) = {}
  BY DEF TypesInv, LoadInv, ModulePlaces, Elems
<1>2. \A f \in FilesOf(m) : Elems(TypesIn[f]) \subseteq defined
  BY <1>1 DEF TypesInv
<1>3. \A t \in Declared : Home[t] = m => \E f \in FilesOf(m) : t \in Elems(TypesIn[f])
  BY DeclaredIs DEF FilesOf
<1> QED
  BY <1>2, <1>3

\* Grounded only depends on the definitions and the references.
LEMMA GroundedUnchanged ==
    ASSUME Grounded(defined), UNCHANGED <<refs, defined>>
    PROVE  Grounded(defined)'
  BY DEF Grounded

\* Files that arrive, rounds, and the end of the rounds preserve TypesInv.  In a
\* round, another module that is registered is behind its own Emit, as emitMu is
\* held: its types are all defined.
LEMMA TypesInvStep == LoadInv /\ TypesInv /\ [Next]_vars => TypesInv'
<1> SUFFICES ASSUME LoadInv, TypesInv, [Next]_vars PROVE TypesInv'
  OBVIOUS
<1>0. ASSUME UNCHANGED <<types, pending, parsed>>,
             \A m \in Modules : mpc'[m] \in {"unlock", "close", "done"} =>
                                   \/ mpc[m] \in {"unlock", "close", "done"}
                                   \/ pending[m] = <<>>
      PROVE  TypesInv'
  <2>1. Grounded(defined)'
    BY <1>0, GroundedUnchanged DEF types, TypesInv
  <2> QED BY <1>0, <2>1 DEF TypesInv, types
<1>p. ASSUME NEW m, NEW path, NEW g, ParseModule(m, path, g)
      PROVE  \A n \in Modules : mpc'[n] = mpc[n] \/ mpc'[n] = "gather"
  BY <1>p DEF ParseModule, LoadInv, LoadTyped
<1>1. CASE ParseRoot
  BY <1>0, <1>1, <1>p DEF ParseRoot, file
<1>2. ASSUME NEW f \in Files, NEW m \in Modules, Import(f, m) PROVE TypesInv'
  <2>1. \A n \in Modules : mpc'[n] = mpc[n] \/ mpc'[n] = "gather"
    BY <1>2, <1>p DEF Import, load
  <2> QED BY <1>0, <1>2, <2>1 DEF Import
<1>3. ASSUME NEW f \in Files, Imported(f) \/ ParseError(f) PROVE TypesInv'
  BY <1>0, <1>3 DEF Imported, ParseError, load, file
<1>4. ASSUME NEW f \in Files, Parsed(f) PROVE TypesInv'
  <2> DEFINE m == Mod[f]
  <2>1. /\ m \in Modules /\ TypesIn[f] \in Seq(Types)
        /\ pending \in [Modules -> Seq(Types)] /\ parsed \in [Modules -> SUBSET Files]
    BY LoaderAssumption DEF TypesInv, LoadInv, LoadTyped
  <2>2. mpc[m] \in {"none", "gather"} /\ mpc' = mpc
    BY <1>4, <2>1 DEF Parsed, LoadInv, LoadTyped, ModulePlaces, FilePlaces, FilesOf
  <2>3. /\ pending' = [pending EXCEPT ![m] = @ \o TypesIn[f]]
        /\ parsed' = [parsed EXCEPT ![m] = @ \union {f}]
        /\ UNCHANGED <<refs, defined, opaque>>
    BY <1>4 DEF Parsed, types
  <2>4. /\ pending'[m] \in Seq(Types)
        /\ Elems(pending'[m]) = Elems(pending[m]) \union Elems(TypesIn[f])
    BY <2>1, <2>3, ElemsConcat, ConcatProperties
  <2>5. pending' \in [Modules -> Seq(Types)] /\ \A n \in Modules \ {m} : pending'[n] = pending[n]
    BY <2>1, <2>3, <2>4
  <2>6. \A n \in Modules : Elems(pending'[n]) \subseteq {t \in Declared : Home[t] = n}
    BY <2>1, <2>4, <2>5, DeclaredIs DEF TypesInv
  <2>7. \A n \in Modules : \A x \in parsed'[n] :
            Elems(TypesIn[x]) \subseteq defined \union Elems(pending'[n])
    <3>1. ASSUME NEW n \in Modules, n # m, NEW x \in parsed'[n]
          PROVE  Elems(TypesIn[x]) \subseteq defined \union Elems(pending'[n])
      BY <2>1, <2>3, <2>5, <3>1 DEF TypesInv
    <3>2. ASSUME NEW x \in parsed'[m]
          PROVE  Elems(TypesIn[x]) \subseteq defined \union Elems(pending'[m])
      <4>1. x = f \/ x \in parsed[m]
        BY <2>1, <2>3
      <4> QED BY <2>1, <2>4, <4>1 DEF TypesInv
    <3> QED BY <3>1, <3>2
  <2>8. \A n \in Modules : mpc'[n] \in {"unlock", "close", "done"} => pending'[n] = <<>>
    BY <2>2, <2>5 DEF TypesInv
  <2>9. Grounded(defined)'
    BY <2>3, GroundedUnchanged DEF TypesInv
  <2> HIDE DEF m
  <2> QED BY <2>3, <2>5, <2>6, <2>7, <2>8, <2>9 DEF TypesInv
<1>5. ASSUME NEW m \in Modules, Gathered(m) \/ EmitLock(m) \/ EmitUnlock(m) \/ Close(m)
      PROVE  TypesInv'
  <2>1. UNCHANGED <<types, pending, parsed>>
    BY <1>5 DEF Gathered, EmitLock, EmitUnlock, Close, file
  <2>2. \A n \in Modules : mpc'[n] \in {"unlock", "close", "done"}
                                 => mpc[n] \in {"unlock", "close", "done"}
    BY <1>5 DEF Gathered, EmitLock, EmitUnlock, Close, LoadInv, LoadTyped
  <2> QED BY <1>0, <2>1, <2>2
<1>6. ASSUME NEW m \in Modules, Emit(m) PROVE TypesInv'
  <2>1. UNCHANGED <<types, pending, parsed>> /\ pending[m] = <<>>
    BY <1>6 DEF Emit, file
  <2>2. \A n \in Modules \ {m} : mpc'[n] = mpc[n]
    BY <1>6 DEF Emit, LoadInv, LoadTyped
  <2> QED BY <1>0, <2>1, <2>2
<1>7. ASSUME NEW m \in Modules, DefRound(m) PROVE TypesInv'
  <2> DEFINE ts == pending[m]
             r == Round(ts)
  <2>1. /\ ts \in Seq(Types) /\ Grounded(defined) /\ pending \in [Modules -> Seq(Types)]
        /\ Elems(ts) \subseteq Declared /\ \A t \in Elems(ts) : Home[t] = m
    BY DEF TypesInv
  <2>2. r \in [d : SUBSET Types, failed : Seq(Types)] /\ RoundOK(r, ts, Len(ts))
    BY <2>1, RoundFacts
  <2>3. /\ mpc[m] = "emit" /\ pending' = [pending EXCEPT ![m] = r.failed] /\ defined' = r.d
        /\ opaque' = opaque \union {p \in (r.d \ defined) \X Types :
                         p[2] \in refs[p[1]] /\ Home[p[2]] # m /\ p[2] \notin defined}
        /\ UNCHANGED <<mpc, parsed, refs>>
    BY <1>7 DEF DefRound, load
  <2> HIDE DEF r
  <2>4. Grounded(defined)'
    BY <2>2, <2>3 DEF RoundOK, Grounded
  <2>5. /\ pending' \in [Modules -> Seq(Types)] /\ pending'[m] = r.failed
        /\ \A n \in Modules \ {m} : pending'[n] = pending[n]
    BY <2>1, <2>2, <2>3
  <2>6. Elems(r.failed) \subseteq Elems(ts) /\ Elems(ts) \subseteq r.d \union Elems(r.failed)
        /\ defined \subseteq r.d
    BY <2>2 DEF RoundOK, Elems
  <2>7. \A n \in Modules : Elems(pending'[n]) \subseteq {t \in Declared : Home[t] = n}
    BY <2>5, <2>6 DEF TypesInv
  <2>8. \A n \in Modules : \A f \in parsed'[n] :
            Elems(TypesIn[f]) \subseteq defined' \union Elems(pending'[n])
    <3>1. ASSUME NEW n \in Modules, NEW f \in parsed[n]
          PROVE  Elems(TypesIn[f]) \subseteq r.d \union Elems(pending'[n])
      <4>1. Elems(TypesIn[f]) \subseteq defined \union Elems(pending[n])
        BY DEF TypesInv
      <4>2. CASE n = m
        BY <4>1, <4>2, <2>5, <2>6
      <4>3. CASE n # m
        BY <4>1, <4>3, <2>5, <2>6
      <4> QED BY <4>2, <4>3
    <3> QED BY <2>3, <3>1
  <2>9. \A n \in Modules : mpc'[n] \in {"unlock", "close", "done"} => pending'[n] = <<>>
    BY <2>3, <2>5 DEF TypesInv
  <2>10. ASSUME NEW t \in r.d \ defined, NEW x \in refs[t], Home[x] # m, x \notin defined
         PROVE  x \notin Declared
    <3>1. SUFFICES ASSUME x \in Declared PROVE FALSE
      OBVIOUS
    <3>2. Home[t] = m /\ Registered(Home[x])
      BY <2>1, <2>2, <2>10 DEF RoundOK
    <3>3. Home[x] \in Modules
      BY <3>1, DeclaredIs
    <3>4. mpc[Home[x]] \in {"unlock", "close", "done"}
      BY <2>3, <2>10, <3>2, <3>3 DEF Registered, LoadInv, EmitPlaces
    <3> QED BY <2>10, <3>1, <3>3, <3>4, AllDefined
  <2>11. \A p \in opaque' : p[2] \notin Declared
    BY <2>3, <2>10 DEF TypesInv
  <2> QED
    BY <2>3, <2>4, <2>5, <2>7, <2>8, <2>9, <2>11 DEF TypesInv
<1>8. CASE UNCHANGED vars
  BY <1>0, <1>8 DEF vars, types
<1> QED
  BY <1>1, <1>2, <1>3, <1>4, <1>5, <1>6, <1>7, <1>8 DEF Next, FileStep, ModuleStep

\* The invariant implies GlobalsSound.
LEMMA InvGlobals == LoadInv /\ TypesInv => GlobalsSound
<1> SUFFICES ASSUME LoadInv, TypesInv PROVE GlobalsSound
  OBVIOUS
<1>1. ASSUME NEW i \in 1..Len(emitted) PROVE Resolvable(emitted[i])
  <2> DEFINE m == emitted[i]
             own == {t \in Declared : Home[t] = m}
  <2>1. m \in Modules
    BY ElementOfSeq DEF LoadInv, LoadTyped
  <2>2. mpc[m] \in {"unlock", "close", "done"}
    BY <2>1 DEF LoadInv, EmitPlaces
  <2>3. own \subseteq defined
    BY <2>1, <2>2, AllDefined
  <2>4. Grounded(defined)
    BY DEF TypesInv
  <2>5. \A t \in own : \A r \in refs[t] : Home[r] = m => r \in Declared
    BY <2>3, <2>4 DEF Grounded
  <2>6. ASSUME NEW C \in (SUBSET own) \ {{}} PROVE \E t \in C : refs[t] \intersect C \subseteq {t}
    <3>1. C \in (SUBSET defined) \ {{}} /\ \A t, u \in C : Home[t] = Home[u]
      BY <2>3
    <3> QED BY <2>4, <3>1 DEF Grounded
  <2> QED BY <2>5, <2>6 DEF Resolvable
<1> QED
  BY <1>1 DEF GlobalsSound, TypesInv

-----------------------------------------------------------------------------
(* Import loops. *)

\* Depends follows the imports.
LEMMA DependsStep ==
    ASSUME NEW x \in Modules, NEW y \in Modules, NEW z \in ImportsOf(y), Reaches(x, y)
    PROVE  z \in Depends(x) /\ z \in Modules
<1>1. z \in Modules
  BY LoaderAssumption DEF ImportsOf, FilesOf
<1>2. ASSUME NEW C \in SUBSET Modules, ImportsOf(x) \subseteq C,
             \A u \in C : ImportsOf(u) \subseteq C
      PROVE  z \in C
  <2>1. CASE y = x
    BY <1>2, <2>1
  <2>2. CASE y \in Depends(x)
    <3>1. y \in C
      BY <1>2, <2>2 DEF Depends
    <3> QED BY <1>2, <3>1
  <2> QED BY <2>1, <2>2 DEF Reaches
<1> QED BY <1>1, <1>2 DEF Depends

\* The path handed to ParseModule leads to the module it loads.
LEMMA ParseModuleFathers ==
    ASSUME LoadInv, FathersInv, NEW m \in Modules, NEW path \in SUBSET Modules, NEW g,
           ParseModule(m, path, g), \A x \in path : Reaches(x, m),
           \E r \in RootSet : Reaches(r, m), loop' = loop
    PROVE  FathersInv'
<1>1. CASE m \in started
  <2>1. started' = started /\ fathers' = fathers
    BY <1>1 DEF ParseModule
  <2> QED BY <2>1 DEF FathersInv, LoopIsReal
<1>2. CASE m \notin started
  <2>1. /\ started' = started \union {m} /\ fathers'[m] = path \union {m}
        /\ \A n \in started : fathers'[n] = fathers[n]
    BY <1>2 DEF ParseModule, LoadInv, LoadTyped
  <2>2. Reaches(m, m)
    BY DEF Reaches
  <2> QED BY <2>1, <2>2 DEF FathersInv, LoopIsReal
<1> QED BY <1>1, <1>2

\* The loop check of program: a module on the path of the file that imports it is
\* a module that depends on itself.
LEMMA FathersInvStep == LoadInv /\ FathersInv /\ [Next]_vars => FathersInv'
<1> SUFFICES ASSUME LoadInv, FathersInv, [Next]_vars PROVE FathersInv'
  OBVIOUS
<1>0. ASSUME UNCHANGED <<started, fathers, loop>> PROVE FathersInv'
  BY <1>0 DEF FathersInv, LoopIsReal
<1>1. CASE ParseRoot
  <2> DEFINE m == Roots[root + 1]
  <2>0. root + 1 \in 1..Len(Roots) /\ Roots \in Seq(Modules)
    BY <1>1, LoaderAssumption DEF ParseRoot, LoadInv, LoadTyped
  <2>1. m \in Modules /\ m \in RootSet
    BY <2>0 DEF RootSet
  <2>2. \E r \in RootSet : Reaches(r, m)
    BY <2>1 DEF Reaches
  <2>3. ParseModule(m, {}, {}) /\ loop' = loop /\ {} \in SUBSET Modules
        /\ \A x \in {} : Reaches(x, m)
    BY <1>1 DEF ParseRoot
  <2> HIDE DEF m
  <2> QED BY <2>1, <2>2, <2>3, ParseModuleFathers, Zenon
<1>2. ASSUME NEW f \in Files, NEW m \in Modules, Import(f, m) PROVE FathersInv'
  <2> DEFINE k == Mod[f]
  <2>1. /\ k \in Modules /\ k \in started /\ m \in ImportsOf(k)
        /\ fathers[k] \in SUBSET Modules
    BY <1>2, LoaderAssumption
    DEF Import, LoadInv, LoadTyped, FilePlaces, ImportsOf, FilesOf
  <2>2. \A x \in Modules : Reaches(x, k) => Reaches(x, m) /\ m \in Depends(x)
    BY <2>1, DependsStep DEF Reaches
  <2>3. PICK r \in RootSet : Reaches(r, k) /\ r \in Modules
    BY <2>1, LoaderAssumption DEF FathersInv, RootSet
  <2>4. \A x \in fathers[k] : Reaches(x, k)
    BY <2>1 DEF FathersInv
  <2>5. CASE m \in fathers[k]
    <3>1. m \in Depends(m) /\ m \in {r} \union Depends(r)
      BY <2>2, <2>3, <2>4, <2>5 DEF Reaches
    <3>2. Cyclic
      BY <3>1 DEF Cyclic
    <3>3. started' = started /\ fathers' = fathers
      BY <1>2, <2>5 DEF Import, load
    <3> QED BY <3>2, <3>3 DEF FathersInv, LoopIsReal
  <2>6. CASE m \notin fathers[k]
    <3>1. ParseModule(m, fathers[k], {f}) /\ loop' = loop
      BY <1>2, <2>6 DEF Import
    <3>2. (\A x \in fathers[k] : Reaches(x, m)) /\ \E q \in RootSet : Reaches(q, m)
      BY <2>1, <2>2, <2>3, <2>4
    <3> QED BY <2>1, <3>1, <3>2, ParseModuleFathers, Zenon
  <2> QED BY <2>5, <2>6
<1>3. ASSUME NEW f \in Files, Imported(f) \/ Parsed(f) \/ ParseError(f) PROVE FathersInv'
  BY <1>0, <1>3 DEF Imported, Parsed, ParseError, load
<1>4. ASSUME NEW m \in Modules, ModuleStep(m) PROVE FathersInv'
  BY <1>0, <1>4 DEF ModuleStep, Gathered, EmitLock, DefRound, Emit, EmitUnlock, Close, load
<1>5. CASE UNCHANGED vars
  BY <1>0, <1>5 DEF vars
<1> QED
  BY <1>1, <1>2, <1>3, <1>4, <1>5 DEF Next, FileStep

-----------------------------------------------------------------------------
(* The theorems. *)

\* The inductive invariant.
IInv == LoadInv /\ TypesInv /\ FathersInv

\* The inductive invariant holds in every reachable state, for every program.
THEOREM Invariance == Spec => []IInv
<1>1. Init => IInv
  <2>1. Init => FathersInv
    BY DEF Init, FathersInv, LoopIsReal
  <2> QED BY <2>1, LoadInvInit, TypesInvInit DEF IInv
<1>2. IInv /\ [Next]_vars => IInv'
  BY LoadInvStep, TypesInvStep, FathersInvStep DEF IInv
<1> QED
  BY <1>1, <1>2, PTL DEF Spec

\* Every variable of the loader has its type.
THEOREM TypeCorrect == Spec => []TypeOK
<1>1. IInv => TypeOK
  <2> SUFFICES ASSUME IInv PROVE TypeOK
    OBVIOUS
  <2>1. /\ started \subseteq Modules /\ closed \subseteq started
        /\ \A m \in Modules : parsed[m] \subseteq FilesOf(m)
        /\ \A f \in Files : todo[f] \subseteq Imports[f]
    BY DEF IInv, LoadInv, LoadTyped, ModulePlaces, FilePlaces
  <2>2. defined \subseteq Types
    BY DeclaredIs DEF IInv, TypesInv, Grounded
  <2> QED
    BY <2>1, <2>2 DEF IInv, LoadInv, LoadTyped, TypesInv, TypeOK, MPCs, FPCs
<1> QED
  BY <1>1, Invariance, PTL

\* A module is emitted once, and after every module that it imports, whatever the
\* import graph and the order in which the goroutines run.
THEOREM EmittedInOrder == Spec => []EmitOrder
<1>1. IInv => EmitOrder
  BY DEF IInv, LoadInv
<1> QED
  BY <1>1, Invariance, PTL

\* emitMu keeps the Emits of two modules apart.
THEOREM EmittedAlone == Spec => []EmitExclusive
<1>1. IInv => EmitExclusive
  BY DEF IInv, LoadInv, EmitPlaces, EmitExclusive
<1> QED
  BY <1>1, Invariance, PTL

\* The compiler reports an import loop only for a program that has one: diamonds
\* and concurrent loads of the same module never look like a loop.
THEOREM LoopsAreReal == Spec => []LoopIsReal
<1>1. IInv => LoopIsReal
  BY DEF IInv, FathersInv
<1> QED
  BY <1>1, Invariance, PTL

\* Whatever the order in which the files arrive, the rounds of CalcGlobals end only
\* for a module whose types can all be resolved, and an imported type is replaced
\* by an empty struct only if its module does not define it.
THEOREM GlobalsAreSound == Spec => []GlobalsSound
<1>1. IInv => GlobalsSound
  BY InvGlobals DEF IInv
<1> QED
  BY <1>1, Invariance, PTL
=============================================================================
