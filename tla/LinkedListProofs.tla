-------------------------- MODULE LinkedListProofs --------------------------
(***************************************************************************)
(* Proofs about LinkedList for any finite set of nodes and any values: the *)
(* list stays well formed, retains no removed node, and implements the     *)
(* abstract deque of module Deque.                                         *)
(*                                                                         *)
(* The properties speak of Walk, which follows next from first.  The       *)
(* inductive invariant says instead that some sequence of distinct nodes   *)
(* is linked in both directions and closed by nil at both ends (Path); a   *)
(* lemma per operation gives the path that the operation leaves, and       *)
(* PathWalk shows that Walk visits exactly that path.                      *)
(***************************************************************************)
EXTENDS LinkedList, FiniteSetTheorems, FunctionTheorems, SequenceTheorems, WellFoundedInduction, TLAPS

-----------------------------------------------------------------------------
(* Induction and recursion over integers without operator parameters: a    *)
(* predicate is given as the set of numbers that satisfy it, the step of a *)
(* recursive function as a function.                                       *)

\* A non-empty set of natural numbers has a least element.
LEMMA NatLeast ==
    ASSUME NEW T \in SUBSET Nat, T # {}
    PROVE  \E x \in T : \A y \in T : x <= y
<1> DEFINE R == OpToRel(<, Nat)
<1>1. IsWellFoundedOn(R, Nat)
  BY NatLessThanWellFounded
<1>2. \A x, y \in Nat : y < x => <<y, x>> \in R
  BY DEF OpToRel
<1> HIDE DEF R
<1>3. PICK x \in T : \A y \in T : ~ (<<y, x>> \in R)
  BY <1>1, WFMin
<1>4. \A y \in T : y \in Nat /\ x \in Nat
  OBVIOUS
<1>5. \A y \in T : ~(y < x)
  BY <1>2, <1>3, <1>4, Zenon
<1> QED
  BY <1>4, <1>5

\* Induction over the natural numbers, for the members of a set.
LEMMA NatSetInduction ==
    ASSUME NEW S, 0 \in S, \A n \in Nat : n \in S => n + 1 \in S
    PROVE  \A n \in Nat : n \in S
<1> DEFINE T == Nat \ S
<1>1. SUFFICES ASSUME T # {} PROVE FALSE
  OBVIOUS
<1>2. PICK x \in T : \A y \in T : x <= y
  BY <1>1, NatLeast
<1>3. x \in Nat /\ x # 0 /\ x - 1 \in Nat /\ x - 1 \notin T
  BY <1>2
<1> QED
  BY <1>3

\* Induction over an interval.
LEMMA IntervalInduction ==
    ASSUME NEW S, NEW lo \in Int, NEW hi \in Int, lo \in S,
           \A n \in lo..(hi - 1) : n \in S => n + 1 \in S
    PROVE  \A n \in lo..hi : n \in S
<1> DEFINE T == {k \in Nat : lo + k <= hi => lo + k \in S}
<1>1. 0 \in T
  OBVIOUS
<1>2. \A k \in Nat : k \in T => k + 1 \in T
  OBVIOUS
<1> HIDE DEF T
<1>3. \A k \in Nat : k \in T
  BY <1>1, <1>2, NatSetInduction
<1>4. ASSUME NEW n \in lo..hi PROVE n \in S
  <2>1. n - lo \in Nat /\ lo + (n - lo) = n
    OBVIOUS
  <2>2. n - lo \in T
    BY <1>3, <2>1
  <2> QED
    BY <2>1, <2>2 DEF T
<1> QED
  BY <1>4

\* g starts with a, and goes on with step
Iterates(g, lo, hi, a, step) ==
    \A i \in lo..hi : g[i] = IF i = lo THEN a ELSE step[i][g[i - 1]]

\* A function defined by recursion over an interval exists, and has its type.
LEMMA IntervalRecursion ==
    ASSUME NEW S, NEW lo \in Int, NEW hi \in Int, NEW a \in S,
           NEW step \in [lo..hi -> [S -> S]]
    PROVE  \E g \in [lo..hi -> S] : Iterates(g, lo, hi, a, step)
<1> USE DEF Iterates
<1> DEFINE Upto(n, g) == \A i \in lo..n : g[i] = IF i = lo THEN a ELSE step[i][g[i - 1]]
           N == {n \in Int : \E g \in [lo..n -> S] : Upto(n, g)}
<1>1. lo \in N
  <2> DEFINE g == [i \in lo..lo |-> a]
  <2>1. g \in [lo..lo -> S] /\ Upto(lo, g)
    OBVIOUS
  <2> QED
    BY <2>1
<1>2. ASSUME NEW n \in lo..(hi - 1), n \in N PROVE n + 1 \in N
  <2>1. PICK g \in [lo..n -> S] : Upto(n, g)
    BY <1>2
  <2> DEFINE h == [i \in lo..(n + 1) |-> IF i = n + 1 THEN step[n + 1][g[n]] ELSE g[i]]
  <2>2. step[n + 1][g[n]] \in S
    OBVIOUS
  <2>3. h \in [lo..(n + 1) -> S]
    BY <2>2
  <2>4. ASSUME NEW i \in lo..(n + 1)
        PROVE  h[i] = IF i = lo THEN a ELSE step[i][h[i - 1]]
    <3>1. CASE i = n + 1
      BY <3>1
    <3>2. CASE i # n + 1
      <4>1. i \in lo..n /\ h[i] = g[i]
        BY <3>2
      <4>2. i # lo => i - 1 \in lo..n /\ h[i - 1] = g[i - 1]
        BY <3>2
      <4> QED
        BY <4>1, <4>2, <2>1
    <3> QED
      BY <3>1, <3>2
  <2> HIDE DEF h
  <2>5. Upto(n + 1, h) /\ n + 1 \in Int
    BY <2>4
  <2> QED
    BY <2>3, <2>5
<1> HIDE DEF N
<1>3. CASE lo <= hi
  <2>1. \A n \in lo..hi : n \in N
    BY <1>1, <1>2, IntervalInduction
  <2>2. hi \in N
    BY <1>3, <2>1
  <2> QED
    BY <2>2 DEF N
<1>4. CASE ~(lo <= hi)
  <2> DEFINE g == [i \in lo..hi |-> a]
  <2>1. g \in [lo..hi -> S] /\ \A i \in lo..hi : FALSE
    BY <1>4
  <2> QED
    BY <2>1
<1> QED
  BY <1>3, <1>4

-----------------------------------------------------------------------------
\* what a pointer field may hold, and how many nodes there are
Addr == Nodes \union {Nil}
Size == Cardinality(Nodes)

\* Walk, as a function of the two fields that it reads.
WalkFrom(fi, nx) ==
    LET w[i \in 1..Cardinality(Nodes)] ==
          IF i = 1 THEN fi ELSE IF w[i - 1] = Nil THEN Nil ELSE nx[w[i - 1]]
    IN  w

\* Walk reads first and next only.
LEMMA WalkIs == Walk = WalkFrom(first, next) /\ Walk' = WalkFrom(first', next')
  BY DEF Walk, WalkFrom

\* There are finitely many addresses.
LEMMA SizeNat == Size \in Nat
  BY ListAssumption, FS_CardinalityType DEF Size

\* The recursion of Walk is well founded: Walk visits first and then follows
\* next until it meets nil, and it stays nil from there on.
LEMMA WalkDef ==
    ASSUME NEW fi \in Addr, NEW nx \in [Nodes -> Addr]
    PROVE  LET w == WalkFrom(fi, nx) IN
           /\ w \in [1..Size -> Addr]
           /\ \A i \in 1..Size :
                 w[i] = IF i = 1 THEN fi ELSE IF w[i - 1] = Nil THEN Nil ELSE nx[w[i - 1]]
<1> DEFINE Is(g) == g = [i \in 1..Size |-> IF i = 1 THEN fi ELSE
                                           IF g[i - 1] = Nil THEN Nil ELSE nx[g[i - 1]]]
           step == [i \in 1..Size |-> [a \in Addr |-> IF a = Nil THEN Nil ELSE nx[a]]]
<1>1. step \in [1..Size -> [Addr -> Addr]]
  BY DEF Addr
<1>2. PICK g \in [1..Size -> Addr] : Iterates(g, 1, Size, fi, step)
  <2> HIDE DEF step
  <2>1. 1 \in Int /\ Size \in Int
    BY SizeNat
  <2> HIDE DEF Addr, Size
  <2> QED BY <1>1, <2>1, IntervalRecursion
<1>3. \A i \in 1..Size : i # 1 => g[i - 1] \in Addr
  BY SizeNat
<1>4. Is(g)
  BY <1>2, <1>3, SizeNat DEF Iterates
<1>5. WalkFrom(fi, nx) = CHOOSE h : Is(h)
  BY DEF WalkFrom, Size
<1> DEFINE w == WalkFrom(fi, nx)
<1> HIDE DEF step
<1>6. Is(w)
  <2> HIDE DEF Is
  <2> QED BY <1>4, <1>5
<1> HIDE DEF w
<1>7. \A i \in 1..Size :
         w[i] = IF i = 1 THEN fi ELSE IF w[i - 1] = Nil THEN Nil ELSE nx[w[i - 1]]
  BY <1>6
<1>8. w \in [1..Size -> Addr]
  <2> DEFINE T == {i \in 1..Size : w[i] \in Addr}
  <2>1. 1 \in 1..Size => 1 \in T
    BY <1>7
  <2>2. \A i \in 1..(Size - 1) : i \in T => i + 1 \in T
    BY <1>7, SizeNat DEF Addr
  <2> HIDE DEF T
  <2>3. \A i \in 1..Size : i \in T
    <3>1. CASE 1 \in 1..Size
      BY <3>1, <2>1, <2>2, SizeNat, IntervalInduction
    <3> QED BY <3>1, SizeNat
  <2> QED BY <2>3, <1>6 DEF T
<1> QED
  BY <1>7, <1>8 DEF w

-----------------------------------------------------------------------------

\* s lists the k nodes of a list with the given fields.
Path(s, k, fi, ta, nx, pv) ==
    /\ k \in Nat
    /\ s \in [1..k -> Nodes]
    /\ \A i, j \in 1..k : s[i] = s[j] => i = j
    /\ k = 0 => fi = Nil /\ ta = Nil
    /\ k > 0 => fi = s[1] /\ ta = s[k] /\ nx[s[k]] = Nil /\ pv[s[1]] = Nil
    /\ \A i \in 1..(k - 1) : nx[s[i]] = s[i + 1] /\ pv[s[i + 1]] = s[i]

\* A path without repetition has no more nodes than there are, and fewer if
\* one is not on it.
LEMMA PathSize ==
    ASSUME NEW k \in Nat, NEW s \in [1..k -> Nodes], \A i, j \in 1..k : s[i] = s[j] => i = j
    PROVE  /\ k <= Size
           /\ Cardinality({s[i] : i \in 1..k}) = k
           /\ {s[i] : i \in 1..k} # Nodes => k + 1 <= Size
<1> DEFINE R == {s[i] : i \in 1..k}
<1>1. IsFiniteSet(1..k) /\ Cardinality(1..k) = k
  BY FS_Interval
<1>2. s \in Bijection(1..k, R)
  <2>1. s \in [1..k -> R] /\ \A t \in R : \E i \in 1..k : s[i] = t
    OBVIOUS
  <2> QED BY <2>1, Fun_IsBij
<1>3. ExistsBijection(1..k, R)
  BY <1>2 DEF ExistsBijection
<1>4. IsFiniteSet(R) /\ Cardinality(R) = k
  BY <1>1, <1>3, FS_Bijection
<1>5. R \in SUBSET Nodes
  OBVIOUS
<1> HIDE DEF R
<1>6. Cardinality(R) <= Size /\ (Size = Cardinality(R) => Nodes = R)
  BY <1>5, FS_Subset, ListAssumption DEF Size
<1> QED
  BY <1>4, <1>6, SizeNat DEF R

\* Walk visits the nodes of a path in their order.
LEMMA PathWalk ==
    ASSUME NEW fi \in Addr, NEW ta, NEW nx \in [Nodes -> Addr], NEW pv, NEW k, NEW s,
           Path(s, k, fi, ta, nx, pv)
    PROVE  k <= Size /\ \A i \in 1..k : WalkFrom(fi, nx)[i] = s[i]
<1> DEFINE w == WalkFrom(fi, nx)
<1>1. k <= Size /\ k \in Nat /\ s \in [1..k -> Nodes]
  BY PathSize DEF Path
<1>2. \A i \in 1..Size :
         w[i] = IF i = 1 THEN fi ELSE IF w[i - 1] = Nil THEN Nil ELSE nx[w[i - 1]]
  BY WalkDef
<1> HIDE DEF w
<1> DEFINE T == {i \in 1..k : w[i] = s[i]}
<1>3. k > 0 => 1 \in T
  BY <1>1, <1>2, SizeNat DEF Path
<1>4. ASSUME NEW i \in 1..(k - 1), i \in T PROVE i + 1 \in T
  <2>1. i + 1 \in 1..k /\ i + 1 \in 1..Size /\ i \in 1..k /\ (i + 1) - 1 = i /\ i + 1 # 1
    BY <1>1, SizeNat
  <2>2. w[i + 1] = IF w[i] = Nil THEN Nil ELSE nx[w[i]]
    BY <1>2, <2>1
  <2>3. w[i] = s[i] /\ s[i] # Nil /\ nx[s[i]] = s[i + 1]
    BY <1>1, <1>4, <2>1, ListAssumption DEF Path
  <2> QED BY <2>1, <2>2, <2>3
<1> HIDE DEF T
<1>5. \A i \in 1..k : i \in T
  <2>1. CASE k > 0
    BY <2>1, <1>1, <1>3, <1>4, IntervalInduction
  <2> QED BY <2>1, <1>1
<1> QED BY <1>1, <1>5 DEF T, w

\* The nodes of the list, as a sequence.
NodeSeq == [i \in 1..len |-> Walk[i]]

\* The list in terms of its sequence of nodes.
IsPath == Path(NodeSeq, len, first, tail, next, prev)

\* TypeOK without the length, which the path bounds.
FieldsOK ==
    /\ val \in [Nodes -> Values \union {NoValue}]
    /\ next \in [Nodes -> Addr] /\ prev \in [Nodes -> Addr]
    /\ first \in Addr /\ tail \in Addr

\* The inductive invariant.
IInv == FieldsOK /\ IsPath

\* To show the invariant it is enough to give the path; it is then the path
\* that Walk visits.
LEMMA PathInv ==
    ASSUME FieldsOK, NEW s, Path(s, len, first, tail, next, prev)
    PROVE  IInv /\ NodeSeq = s
<1>1. first \in Addr /\ next \in [Nodes -> Addr]
  BY DEF FieldsOK
<1>2. len <= Size /\ \A i \in 1..len : WalkFrom(first, next)[i] = s[i]
  BY <1>1, PathWalk
<1>3. s \in [1..len -> Nodes]
  BY DEF Path
<1>4. NodeSeq = s
  BY <1>2, <1>3, WalkIs DEF NodeSeq
<1> QED
  BY <1>4 DEF IInv, IsPath

\* The same in the next state.
LEMMA PathInvPrime ==
    ASSUME FieldsOK', NEW s, Path(s, len', first', tail', next', prev')
    PROVE  IInv' /\ NodeSeq' = s
<1>1. first' \in Addr /\ next' \in [Nodes -> Addr]
  BY DEF FieldsOK
<1>2. len' <= Size /\ \A i \in 1..len' : WalkFrom(first', next')[i] = s[i]
  BY <1>1, PathWalk
<1>3. s \in [1..len' -> Nodes]
  BY DEF Path
<1>4. NodeSeq' = s
  BY <1>2, <1>3, WalkIs DEF NodeSeq
<1> QED
  BY <1>4 DEF IInv, IsPath

\* The invariant contains the types, and bounds the length.
LEMMA InvType == IInv => TypeOK
<1> SUFFICES ASSUME IInv PROVE TypeOK
  OBVIOUS
<1>1. len \in Nat /\ len <= Size
  <2>1. Path(NodeSeq, len, first, tail, next, prev) /\ first \in Addr /\ next \in [Nodes -> Addr]
    BY DEF IInv, IsPath, FieldsOK
  <2>2. len <= Size
    BY <2>1, PathWalk
  <2> QED BY <2>1, <2>2 DEF Path
<1>2. len \in 0..Size
  BY <1>1, SizeNat
<1> QED
  BY <1>2 DEF IInv, FieldsOK, TypeOK, Addr, Size

\* The linked nodes are those of the path.
LEMMA LinkedIs == Linked = {NodeSeq[i] : i \in 1..len}
  BY DEF Linked, NodeSeq

\* WellFormed says of Walk what the invariant says of the path.
LEMMA InvWellFormed == IInv => WellFormed
<1> SUFFICES ASSUME IInv PROVE WellFormed
  OBVIOUS
<1>1. Path(NodeSeq, len, first, tail, next, prev)
  BY DEF IInv, IsPath
<1>2. len \in Nat /\ NodeSeq \in [1..len -> Nodes]
  BY <1>1 DEF Path
<1>3. Cardinality(Linked) = len
  BY <1>1, <1>2, PathSize, LinkedIs DEF Path
<1>4. \A i \in 1..len : Walk[i] = NodeSeq[i]
  BY DEF NodeSeq
<1>5. len > 0 => /\ Walk[len] = tail /\ next[tail] = Nil /\ prev[first] = Nil
                 /\ first # Nil /\ tail # Nil
  BY <1>1, <1>2, <1>4, ListAssumption DEF Path
<1>6. \A i \in 1..(len - 1) :
          next[Walk[i]] = Walk[i + 1] /\ prev[Walk[i + 1]] = Walk[i]
  BY <1>1, <1>2, <1>4 DEF Path
<1> QED
  BY <1>1, <1>2, <1>3, <1>5, <1>6 DEF WellFormed, Path

-----------------------------------------------------------------------------
(* What every operation does to the sequence of nodes. *)

\* s without its k-th element
Without(s, n, k) == [i \in 1..(n - 1) |-> IF i < k THEN s[i] ELSE s[i + 1]]

\* UnShift puts a new node in front of the others.
LEMMA UnShiftPath ==
    ASSUME IInv, NEW v \in Values, UnShift(v)
    PROVE  \E n \in Nodes \ Linked :
             /\ IInv' /\ len' = len + 1 /\ val' = [val EXCEPT ![n] = v] /\ ret' = NoValue
             /\ NodeSeq' = [i \in 1..(len + 1) |-> IF i = 1 THEN n ELSE NodeSeq[i - 1]]
<1>1. PICK n \in Nodes \ Linked : UnShift(v)!(n)
  BY DEF UnShift
<1> DEFINE s == NodeSeq
           t == [i \in 1..(len + 1) |-> IF i = 1 THEN n ELSE s[i - 1]]
<1>2. Path(s, len, first, tail, next, prev) /\ FieldsOK
  BY DEF IInv, IsPath
<1>3. \A i \in 1..len : n # s[i]
  BY LinkedIs
<1> HIDE DEF s
<1>4. FieldsOK'
  BY <1>1, <1>2 DEF FieldsOK, Addr
<1>5. Path(t, len + 1, first', tail', next', prev')
  BY <1>1, <1>2, <1>3, ListAssumption DEF Path, FieldsOK, Addr
<1>6. len' = len + 1
  BY <1>1
<1>7. IInv' /\ NodeSeq' = t
  BY <1>4, <1>5, <1>6, PathInvPrime
<1> QED
  BY <1>1, <1>6, <1>7 DEF s

\* Push puts a new node behind the others.
LEMMA PushPath ==
    ASSUME IInv, NEW v \in Values, Push(v)
    PROVE  \E n \in Nodes \ Linked :
             /\ IInv' /\ len' = len + 1 /\ val' = [val EXCEPT ![n] = v] /\ ret' = NoValue
             /\ NodeSeq' = [i \in 1..(len + 1) |-> IF i = len + 1 THEN n ELSE NodeSeq[i]]
<1>1. PICK n \in Nodes \ Linked : Push(v)!(n)
  BY DEF Push
<1> DEFINE s == NodeSeq
           t == [i \in 1..(len + 1) |-> IF i = len + 1 THEN n ELSE s[i]]
<1>2. Path(s, len, first, tail, next, prev) /\ FieldsOK
  BY DEF IInv, IsPath
<1>3. \A i \in 1..len : n # s[i]
  BY LinkedIs
<1> HIDE DEF s
<1>4. FieldsOK'
  BY <1>1, <1>2 DEF FieldsOK, Addr
<1>5. Path(t, len + 1, first', tail', next', prev')
  BY <1>1, <1>2, <1>3, ListAssumption DEF Path, FieldsOK, Addr
<1>6. len' = len + 1
  BY <1>1
<1>7. IInv' /\ NodeSeq' = t
  BY <1>4, <1>5, <1>6, PathInvPrime
<1> QED
  BY <1>1, <1>6, <1>7 DEF s

\* remove closes the gap that its node leaves, wherever it was.
LEMMA removePath ==
    ASSUME IInv, NEW k \in 1..len, remove(NodeSeq[k])
    PROVE  /\ IInv' /\ len' = len - 1 /\ val' = val
           /\ NodeSeq' = Without(NodeSeq, len, k)
<1> DEFINE s == NodeSeq
           t == Without(s, len, k)
           n == s[k]
<1>1. Path(s, len, first, tail, next, prev) /\ FieldsOK
  BY DEF IInv, IsPath
<1>2. remove(n)
  OBVIOUS
<1> HIDE DEF s
<1>3. len \in Nat /\ len' = len - 1 /\ len - 1 \in Nat
  BY <1>1, <1>2 DEF remove, Path
<1>n. /\ n \in Nodes /\ s \in [1..len -> Nodes]
      /\ prev[n] = IF k = 1 THEN Nil ELSE s[k - 1]
      /\ next[n] = IF k = len THEN Nil ELSE s[k + 1]
  <2>1. n \in Nodes /\ s \in [1..len -> Nodes]
    BY <1>1 DEF Path
  <2>2. k = 1 => prev[n] = Nil
    BY <1>1, <1>3 DEF Path
  <2>3. k = len => next[n] = Nil
    BY <1>1, <1>3 DEF Path
  <2>4. k # len => next[n] = s[k + 1]
    <3>1. k # len => k \in 1..(len - 1)
      BY <1>3
    <3> QED BY <1>1, <3>1 DEF Path
  <2>5. k # 1 => prev[n] = s[k - 1]
    <3>1. k # 1 => k - 1 \in 1..(len - 1) /\ (k - 1) + 1 = k
      BY <1>3
    <3> QED BY <1>1, <3>1 DEF Path
  <2> QED BY <2>1, <2>2, <2>3, <2>4, <2>5
<1>4. FieldsOK' /\ val' = val
  BY <1>1, <1>2, <1>n DEF remove, node, FieldsOK, Addr
<1>5. Path(t, len - 1, first', tail', next', prev')
  <2>t. /\ t \in [1..(len - 1) -> Nodes]
        /\ \A i, j \in 1..(len - 1) : t[i] = t[j] => i = j
        /\ \A i \in 1..(len - 1) : t[i] = IF i < k THEN s[i] ELSE s[i + 1]
    BY <1>1, <1>3, <1>n DEF Path, Without
  <2> HIDE DEF t
  <2>1. CASE k = 1 /\ k = len
    BY <2>1, <2>t, <1>1, <1>2, <1>3, <1>n, ListAssumption DEF remove, Path
  <2>2. CASE k = 1 /\ k # len
    <3>1. /\ first' = s[2] /\ prev' = [prev EXCEPT ![s[2]] = Nil]
          /\ next' = next /\ tail' = tail
      BY <2>2, <1>2, <1>3, <1>n, ListAssumption DEF remove
    <3> QED BY <2>2, <2>t, <3>1, <1>1, <1>3, <1>n DEF Path, FieldsOK
  <2>3. CASE k # 1 /\ k = len
    <3>1. /\ tail' = s[len - 1] /\ next' = [next EXCEPT ![s[len - 1]] = Nil]
          /\ prev' = prev /\ first' = first
      BY <2>3, <1>2, <1>3, <1>n, ListAssumption DEF remove
    <3> QED BY <2>3, <2>t, <3>1, <1>1, <1>3, <1>n DEF Path, FieldsOK
  <2>4. CASE k # 1 /\ k # len
    <3>1. /\ next' = [next EXCEPT ![s[k - 1]] = s[k + 1]]
          /\ prev' = [prev EXCEPT ![s[k + 1]] = s[k - 1]]
          /\ first' = first /\ tail' = tail
      BY <2>4, <1>2, <1>3, <1>n, ListAssumption DEF remove
    <3> QED BY <2>4, <2>t, <3>1, <1>1, <1>3, <1>n DEF Path, FieldsOK
  <2> QED BY <2>1, <2>2, <2>3, <2>4
<1>6. IInv' /\ NodeSeq' = t
  BY <1>3, <1>4, <1>5, PathInvPrime
<1> QED
  BY <1>3, <1>4, <1>6 DEF s

\* first and tail are the ends of the path.
LEMMA ShiftPopPath ==
    ASSUME IInv
    PROVE  /\ len \in Nat
           /\ len > 0 => first = NodeSeq[1] /\ tail = NodeSeq[len]
  BY DEF IInv, IsPath, Path

\* The empty list has the empty path.
LEMMA IInvInit == Init => IInv
<1> SUFFICES ASSUME Init PROVE IInv
  OBVIOUS
<1> DEFINE s == [i \in 1..0 |-> Nil]
<1>1. FieldsOK
  BY DEF Init, FieldsOK, Addr
<1>2. s \in [1..0 -> Nodes] /\ \A i \in 1..0 : FALSE
  OBVIOUS
<1>3. Path(s, len, first, tail, next, prev)
  BY <1>2 DEF Init, Path
<1> HIDE DEF s
<1> QED
  BY <1>1, <1>3, PathInv

\* Every operation keeps the invariant.
LEMMA IInvStep == IInv /\ [Next]_vars => IInv'
<1> SUFFICES ASSUME IInv, [Next]_vars PROVE IInv'
  OBVIOUS
<1>0. ASSUME UNCHANGED <<node, first, tail, len>> PROVE IInv'
  <2>1. Walk' = Walk
    BY <1>0, WalkIs DEF node
  <2>2. NodeSeq' = NodeSeq
    BY <1>0, <2>1 DEF NodeSeq
  <2> QED BY <1>0, <2>2 DEF IInv, FieldsOK, IsPath, Path, node
<1>1. ASSUME NEW v \in Values, UnShift(v) \/ Push(v) PROVE IInv'
  BY <1>1, UnShiftPath, PushPath
<1>2. CASE Shift
  <2>1. 1 \in 1..len /\ remove(NodeSeq[1])
    BY <1>2, ShiftPopPath DEF Shift
  <2> QED BY <2>1, removePath
<1>3. CASE Pop
  <2>1. len \in 1..len /\ remove(NodeSeq[len])
    BY <1>3, ShiftPopPath DEF Pop
  <2> QED BY <2>1, removePath
<1>4. ASSUME NEW n \in Nodes, Remove(n) PROVE IInv'
  <2>1. PICK k \in 1..len : n = NodeSeq[k]
    BY <1>4, LinkedIs DEF Remove
  <2>2. remove(NodeSeq[k])
    BY <1>4, <2>1 DEF Remove
  <2> QED BY <2>2, removePath
<1>5. CASE LenOp
  BY <1>0, <1>5 DEF LenOp
<1>6. ASSUME NEW i \in 0..(len - 1), IndexOp(i) PROVE IInv'
  BY <1>0, <1>6 DEF IndexOp
<1>7. CASE UNCHANGED vars
  BY <1>0, <1>7 DEF vars, node
<1> QED
  BY <1>1, <1>2, <1>3, <1>4, <1>5, <1>6, <1>7 DEF Next

\* Along every sequence of operations the list has a path.
THEOREM Invariance == Spec => []IInv
  BY IInvInit, IInvStep, PTL DEF Spec

\* The fields hold nodes and the length stays within them.
THEOREM TypeCorrect == Spec => []TypeOK
  BY Invariance, InvType, PTL

\* The list is well formed after every sequence of operations.
THEOREM WellFormedAlways == Spec => []WellFormed
  BY Invariance, InvWellFormed, PTL

-----------------------------------------------------------------------------
(* The list implements the abstract deque. *)

\* the value fields, and the contents of the list
Vals == Values \union {NoValue}
Items == [i \in 1..len |-> val[Walk[i]]]

\* A function on 1..n is a sequence of length n.
LEMMA FunSeq ==
    ASSUME NEW S, NEW n \in Nat, NEW f \in [1..n -> S]
    PROVE  f \in Seq(S) /\ Len(f) = n
<1>1. f \in Seq(S)
  BY SeqDef
<1> QED BY <1>1, LenProperties

\* The values along the path are a sequence of the length of the list.
LEMMA ItemsSeq ==
    ASSUME IInv
    PROVE  /\ Items \in Seq(Vals) /\ Len(Items) = len /\ len \in Nat
           /\ \A i \in 1..len : Items[i] = val[NodeSeq[i]] /\ NodeSeq[i] \in Nodes
<1>1. /\ len \in Nat /\ \A i \in 1..len : Walk[i] = NodeSeq[i] /\ NodeSeq[i] \in Nodes
      /\ val \in [Nodes -> Vals]
  BY DEF IInv, FieldsOK, IsPath, Path, NodeSeq, Vals
<1>2. Items \in [1..len -> Vals]
  BY <1>1 DEF Items
<1>3. Items \in Seq(Vals) /\ Len(Items) = len
  BY <1>1, <1>2, FunSeq
<1> QED BY <1>1, <1>3 DEF Items

\* The same in the next state.
LEMMA ItemsSeqPrime ==
    ASSUME IInv'
    PROVE  /\ Items' \in Seq(Vals) /\ Len(Items') = len' /\ len' \in Nat
           /\ \A i \in 1..len' : Items'[i] = val'[NodeSeq'[i]]
<1>1. /\ len' \in Nat /\ \A i \in 1..len' : Walk'[i] = NodeSeq'[i] /\ NodeSeq'[i] \in Nodes
      /\ val' \in [Nodes -> Vals]
  BY DEF IInv, FieldsOK, IsPath, Path, NodeSeq, Vals
<1>2. Items' \in [1..len' -> Vals]
  BY <1>1 DEF Items
<1>3. Items' \in Seq(Vals) /\ Len(Items') = len'
  BY <1>1, <1>2, FunSeq
<1> QED BY <1>1, <1>3 DEF Items

\* A sequence without its k-th element, as the operations of Deque write it.
LEMMA WithoutSeq ==
    ASSUME NEW S, NEW q \in Seq(S), NEW k \in 1..Len(q), NEW r \in Seq(S),
           Len(r) = Len(q) - 1,
           \A i \in 1..Len(r) : r[i] = IF i < k THEN q[i] ELSE q[i + 1]
    PROVE  /\ r = SubSeq(q, 1, k - 1) \o SubSeq(q, k + 1, Len(q))
           /\ k = 1 => r = Tail(q)
           /\ k = Len(q) => r = SubSeq(q, 1, Len(q) - 1)
<1> DEFINE a == SubSeq(q, 1, k - 1)
           c == SubSeq(q, k + 1, Len(q))
<1>0. Len(q) \in Nat /\ \A i \in 1..Len(q) : q[i] \in S
  BY ElementOfSeq, LenProperties
<1>1. /\ a \in Seq(S) /\ Len(a) = k - 1
      /\ \A i \in 1..(k - 1) : a[i] = q[i]
  BY <1>0, SubSeqProperties
<1>2. /\ c \in Seq(S) /\ Len(c) = Len(q) - k
      /\ \A i \in 1..(Len(q) - k) : c[i] = q[k + i]
  BY <1>0, SubSeqProperties
<1> HIDE DEF a, c
<1>3. /\ a \o c \in Seq(S) /\ Len(a \o c) = Len(q) - 1
      /\ \A i \in 1..(Len(q) - 1) : (a \o c)[i] = IF i <= k - 1 THEN a[i] ELSE c[i - (k - 1)]
  <2>1. /\ a \o c \in Seq(S) /\ Len(a \o c) = Len(a) + Len(c)
        /\ \A i \in 1..(Len(a) + Len(c)) :
              (a \o c)[i] = IF i <= Len(a) THEN a[i] ELSE c[i - Len(a)]
    BY <1>1, <1>2, ConcatProperties
  <2>2. Len(a) + Len(c) = Len(q) - 1
    BY <1>0, <1>1, <1>2
  <2> QED BY <1>1, <2>1, <2>2
<1>4. ASSUME NEW i \in 1..Len(r) PROVE r[i] = (a \o c)[i]
  <2>0. i \in 1..(Len(q) - 1)
    BY <1>0
  <2>1. CASE i < k
    <3>1. i \in 1..(k - 1) /\ i <= k - 1
      BY <2>0, <2>1
    <3> QED BY <1>1, <1>3, <2>0, <2>1, <3>1
  <2>2. CASE ~(i < k)
    <3>1. ~(i <= k - 1) /\ i - (k - 1) \in 1..(Len(q) - k) /\ k + (i - (k - 1)) = i + 1
      BY <1>0, <2>0, <2>2
    <3>2. c[i - (k - 1)] = q[i + 1]
      BY <1>2, <3>1
    <3> QED BY <1>3, <2>0, <2>2, <3>1, <3>2
  <2> QED BY <2>1, <2>2
<1>5. r = a \o c
  BY <1>3, <1>4, SeqEqual
<1>6. CASE k = 1
  <2>1. a = << >>
    BY <1>6, SubSeqEmpty DEF a
  <2>2. r = c
    BY <1>5, <1>2, <2>1, ConcatEmptySeq
  <2>3. q # << >>
    BY <1>0
  <2> QED BY <1>5, <1>6, <2>2, <2>3, TailIsSubSeq DEF a, c
<1>7. CASE k = Len(q)
  <2>1. c = << >>
    BY <1>7, <1>0, SubSeqEmpty DEF c
  <2>2. r = a
    BY <1>5, <1>1, <2>1, ConcatEmptySeq
  <2> QED BY <1>5, <1>7, <2>2 DEF a, c
<1> QED BY <1>5, <1>6, <1>7 DEF a, c

\* remove takes the value of its node out of the sequence, and no other.
LEMMA removeItems ==
    ASSUME IInv, NEW k \in 1..len, remove(NodeSeq[k])
    PROVE  /\ Items' = SubSeq(Items, 1, k - 1) \o SubSeq(Items, k + 1, Len(Items))
           /\ k = 1 => Items' = Tail(Items)
           /\ k = Len(Items) => Items' = SubSeq(Items, 1, Len(Items) - 1)
<1>1. IInv' /\ len' = len - 1 /\ val' = val /\ NodeSeq' = Without(NodeSeq, len, k)
  BY removePath
<1>2. /\ Items \in Seq(Vals) /\ Len(Items) = len /\ len \in Nat
      /\ \A i \in 1..len : Items[i] = val[NodeSeq[i]]
  BY ItemsSeq
<1>3. /\ Items' \in Seq(Vals) /\ Len(Items') = len'
      /\ \A i \in 1..len' : Items'[i] = val'[NodeSeq'[i]]
  BY <1>1, ItemsSeqPrime
<1>4. \A i \in 1..Len(Items') : Items'[i] = IF i < k THEN Items[i] ELSE Items[i + 1]
  BY <1>1, <1>2, <1>3 DEF Without
<1>5. Len(Items') = Len(Items) - 1 /\ k \in 1..Len(Items)
  BY <1>1, <1>2, <1>3
<1> QED BY <1>2, <1>3, <1>4, <1>5, WithoutSeq

\* The empty list is the empty deque.
LEMMA RefinementInit == Init => DQ!DQInit
<1> SUFFICES ASSUME Init PROVE DQ!DQInit
  OBVIOUS
<1>1. IInv /\ len = 0 /\ ret = NoValue
  BY IInvInit DEF Init
<1>2. Items = <<>>
  BY <1>1, ItemsSeq, EmptySeq
<1> QED BY <1>1, <1>2 DEF DQ!DQInit, Items

\* Every operation of the list is the operation of the deque of that name.
LEMMA RefinementStep == IInv /\ [Next]_vars => [DQ!DQNext]_(DQ!DQvars)
<1> SUFFICES ASSUME IInv, [Next]_vars PROVE [DQ!DQNext]_(DQ!DQvars)
  OBVIOUS
<1>q. /\ Items \in Seq(Vals) /\ Len(Items) = len /\ len \in Nat
      /\ \A i \in 1..len : Items[i] = val[NodeSeq[i]] /\ NodeSeq[i] \in Nodes
      /\ \A i \in 1..len : Walk[i] = NodeSeq[i]
  BY ItemsSeq DEF NodeSeq
<1>0. ASSUME UNCHANGED <<node, first, tail, len>> PROVE Items' = Items
  <2>1. Walk' = Walk
    BY <1>0, WalkIs DEF node
  <2> QED BY <1>0, <2>1 DEF Items, node
<1>1. ASSUME NEW v \in Values, UnShift(v) PROVE DQ!DQUnShift(v)
  <2>1. PICK n \in Nodes \ Linked :
             /\ IInv' /\ len' = len + 1 /\ val' = [val EXCEPT ![n] = v] /\ ret' = NoValue
             /\ NodeSeq' = [i \in 1..(len + 1) |-> IF i = 1 THEN n ELSE NodeSeq[i - 1]]
    BY <1>1, UnShiftPath
  <2>2. /\ Items' \in Seq(Vals) /\ Len(Items') = len + 1
        /\ \A i \in 1..(len + 1) : Items'[i] = val'[NodeSeq'[i]]
    BY <2>1, ItemsSeqPrime
  <2>3. <<v>> \in Seq(Vals) /\ Len(<<v>>) = 1 /\ <<v>>[1] = v
    BY DEF Vals
  <2>4. /\ <<v>> \o Items \in Seq(Vals) /\ Len(<<v>> \o Items) = len + 1
        /\ \A i \in 1..(len + 1) : (<<v>> \o Items)[i] = IF i <= 1 THEN v ELSE Items[i - 1]
    BY <1>q, <2>3, ConcatProperties
  <2>5. ASSUME NEW i \in 1..(len + 1) PROVE Items'[i] = (<<v>> \o Items)[i]
    <3>1. CASE i = 1
      BY <1>q, <2>1, <2>2, <2>4, <3>1 DEF IInv, FieldsOK
    <3>2. CASE i # 1
      <4>1. i - 1 \in 1..len /\ NodeSeq[i - 1] \in Linked /\ NodeSeq[i - 1] # n
        BY <1>q, <2>1, <3>2, LinkedIs
      <4> QED BY <1>q, <2>1, <2>2, <2>4, <3>2, <4>1 DEF IInv, FieldsOK
    <3> QED BY <3>1, <3>2
  <2>6. Items' = <<v>> \o Items
    BY <2>2, <2>4, <2>5, SeqEqual
  <2> QED BY <2>1, <2>6 DEF DQ!DQUnShift, Items
<1>2. ASSUME NEW v \in Values, Push(v) PROVE DQ!DQPush(v)
  <2>1. PICK n \in Nodes \ Linked :
             /\ IInv' /\ len' = len + 1 /\ val' = [val EXCEPT ![n] = v] /\ ret' = NoValue
             /\ NodeSeq' = [i \in 1..(len + 1) |-> IF i = len + 1 THEN n ELSE NodeSeq[i]]
    BY <1>2, PushPath
  <2>2. /\ Items' \in Seq(Vals) /\ Len(Items') = len + 1
        /\ \A i \in 1..(len + 1) : Items'[i] = val'[NodeSeq'[i]]
    BY <2>1, ItemsSeqPrime
  <2>4. /\ Append(Items, v) \in Seq(Vals) /\ Len(Append(Items, v)) = len + 1
        /\ \A i \in 1..(len + 1) : Append(Items, v)[i] = IF i = len + 1 THEN v ELSE Items[i]
    BY <1>q, AppendProperties DEF Vals
  <2>5. ASSUME NEW i \in 1..(len + 1) PROVE Items'[i] = Append(Items, v)[i]
    <3>1. CASE i = len + 1
      BY <1>q, <2>1, <2>2, <2>4, <3>1 DEF IInv, FieldsOK
    <3>2. CASE i # len + 1
      <4>1. i \in 1..len /\ NodeSeq[i] \in Linked /\ NodeSeq[i] # n
        BY <1>q, <2>1, <3>2, LinkedIs
      <4> QED BY <1>q, <2>1, <2>2, <2>4, <3>2, <4>1 DEF IInv, FieldsOK
    <3> QED BY <3>1, <3>2
  <2>6. Items' = Append(Items, v)
    BY <2>2, <2>4, <2>5, SeqEqual
  <2> QED BY <2>1, <2>6 DEF DQ!DQPush, Items
<1>3. CASE Shift
  <2>1. len > 0 /\ first = NodeSeq[1] /\ 1 \in 1..len /\ remove(NodeSeq[1])
    BY <1>3, ShiftPopPath DEF Shift
  <2>2. Items' = Tail(Items)
    BY <2>1, removeItems
  <2>3. ret' = Items[1] /\ Items # <<>> /\ Head(Items) = Items[1]
    BY <1>3, <1>q, <2>1 DEF Shift
  <2>4. DQ!DQShift
    BY <2>2, <2>3 DEF DQ!DQShift, Items
  <2> QED BY <2>4 DEF DQ!DQNext
<1>4. CASE Pop
  <2>1. len > 0 /\ tail = NodeSeq[len] /\ len \in 1..len /\ remove(NodeSeq[len])
    BY <1>4, ShiftPopPath DEF Pop
  <2>2. Items' = SubSeq(Items, 1, Len(Items) - 1)
    BY <1>q, <2>1, removeItems
  <2>3. ret' = Items[Len(Items)] /\ Items # <<>>
    BY <1>4, <1>q, <2>1 DEF Pop
  <2>4. DQ!DQPop
    BY <2>2, <2>3 DEF DQ!DQPop, Items
  <2> QED BY <2>4 DEF DQ!DQNext
<1>5. ASSUME NEW n \in Nodes, Remove(n) PROVE DQ!DQNext
  <2>1. PICK k \in 1..len : n = NodeSeq[k]
    BY <1>5, LinkedIs DEF Remove
  <2>2. remove(NodeSeq[k]) /\ ret' = NoValue
    BY <1>5, <2>1 DEF Remove
  <2>3. Items' = SubSeq(Items, 1, k - 1) \o SubSeq(Items, k + 1, Len(Items))
    BY <2>2, removeItems
  <2>4. DQ!DQRemove(k) /\ k \in 1..Len(Items)
    BY <1>q, <2>2, <2>3 DEF DQ!DQRemove, Items
  <2> QED BY <2>4 DEF DQ!DQNext, Items
<1>6. CASE LenOp
  <2>1. DQ!DQLen
    BY <1>0, <1>6, <1>q DEF LenOp, DQ!DQLen, Items
  <2> QED BY <2>1 DEF DQ!DQNext
<1>7. ASSUME NEW i \in 0..(len - 1), IndexOp(i) PROVE DQ!DQNext
  <2>1. i + 1 \in 1..Len(Items) /\ ret' = Items[i + 1] /\ Items' = Items
    BY <1>0, <1>7, <1>q DEF IndexOp
  <2>2. DQ!DQIndex(i + 1)
    BY <2>1 DEF DQ!DQIndex, Items
  <2> QED BY <2>1, <2>2 DEF DQ!DQNext, Items
<1>8. CASE UNCHANGED vars
  <2>1. Items' = Items /\ ret' = ret
    BY <1>0, <1>8 DEF vars, node
  <2> QED BY <2>1 DEF DQ!DQvars, Items
<1>9. ASSUME NEW v \in Values, UnShift(v) \/ Push(v) PROVE DQ!DQNext
  BY <1>1, <1>2, <1>9 DEF DQ!DQNext
<1> QED
  BY <1>9, <1>3, <1>4, <1>5, <1>6, <1>7, <1>8 DEF Next

\* The linked list implements the deque of module Deque.
THEOREM DequeRefinement == Spec => RefinesDeque
  BY Invariance, RefinementInit, RefinementStep, PTL DEF Spec, RefinesDeque, DQ!DQSpec
=============================================================================
