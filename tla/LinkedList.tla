----------------------------- MODULE LinkedList -----------------------------
(***************************************************************************)
(* runtime/linkedlist/linkedlist.calc: the doubly linked list behind the   *)
(* scheduler's task list and the event-loop job list, at the level of the  *)
(* node fields.  Every user holds a mutex around an operation, so one      *)
(* operation is one step.  A node that left the list keeps its fields and  *)
(* its memory may be handed out again by a later allocation.               *)
(***************************************************************************)
EXTENDS Integers, Sequences, FiniteSets

CONSTANTS
    Nodes,      \* addresses; their number bounds the length of the list
    Values,
    Nil,
    NoValue

ASSUME ListAssumption == Nil \notin Nodes /\ IsFiniteSet(Nodes)

VARIABLES
    val, next, prev,    \* the fields of every node
    first, tail, len,   \* the fields of the list
    ret                 \* value returned by the last operation, if any

node == <<val, next, prev>>
vars == <<val, next, prev, first, tail, len, ret>>

\* The i-th node reached from first, which IndexOp visits as li[i-1].
Walk == LET w[i \in 1..Cardinality(Nodes)] ==
              IF i = 1 THEN first
              ELSE IF w[i - 1] = Nil THEN Nil ELSE next[w[i - 1]]
        IN  w

Linked == {Walk[i] : i \in 1..len}

Init ==
    /\ val = [n \in Nodes |-> NoValue]
    /\ next = [n \in Nodes |-> Nil]
    /\ prev = [n \in Nodes |-> Nil]
    /\ first = Nil /\ tail = Nil /\ len = 0
    /\ ret = NoValue

UnShift(v) == \E n \in Nodes \ Linked :
    /\ len' = len + 1
    /\ val' = [val EXCEPT ![n] = v]
    /\ \/ /\ first = Nil
          /\ first' = n /\ tail' = n
          /\ next' = [next EXCEPT ![n] = Nil]
          /\ prev' = [prev EXCEPT ![n] = Nil]
       \/ /\ first # Nil
          /\ next' = [next EXCEPT ![n] = first]
          /\ prev' = [prev EXCEPT ![n] = Nil, ![first] = n]
          /\ first' = n
          /\ UNCHANGED tail
    /\ ret' = NoValue

\* mutant: the new node does not point back
Push_NoPrev(v) == \E n \in Nodes \ Linked :
    /\ len' = len + 1
    /\ val' = [val EXCEPT ![n] = v]
    /\ prev' = [prev EXCEPT ![n] = Nil]
    /\ tail' = n
    /\ \/ first = Nil /\ first' = n /\ next' = [next EXCEPT ![n] = Nil]
       \/ /\ first # Nil
          /\ next' = [next EXCEPT ![n] = Nil, ![tail] = n]
          /\ UNCHANGED first
    /\ ret' = NoValue

Push(v) == \E n \in Nodes \ Linked :
    /\ len' = len + 1
    /\ val' = [val EXCEPT ![n] = v]
    /\ \/ /\ first = Nil
          /\ first' = n /\ tail' = n
          /\ next' = [next EXCEPT ![n] = Nil]
          /\ prev' = [prev EXCEPT ![n] = Nil]
       \/ /\ first # Nil
          /\ next' = [next EXCEPT ![n] = Nil, ![tail] = n]
          /\ prev' = [prev EXCEPT ![n] = tail]
          /\ tail' = n
          /\ UNCHANGED first
    /\ ret' = NoValue

remove(n) ==
    /\ len' = len - 1
    /\ \/ /\ prev[n] = Nil /\ next[n] = Nil         \* the only element
          /\ first' = Nil /\ tail' = Nil
          /\ UNCHANGED node
       \/ /\ prev[n] = Nil /\ next[n] # Nil         \* the head
          /\ first' = next[n]
          /\ prev' = [prev EXCEPT ![next[n]] = Nil]
          /\ UNCHANGED <<val, next, tail>>
       \/ /\ prev[n] # Nil /\ next[n] = Nil         \* the tail
          /\ tail' = prev[n]
          /\ next' = [next EXCEPT ![prev[n]] = Nil]
          /\ UNCHANGED <<val, prev, first>>
       \/ /\ prev[n] # Nil /\ next[n] # Nil
          /\ next' = [next EXCEPT ![prev[n]] = next[n]]
          /\ prev' = [prev EXCEPT ![next[n]] = prev[n]]
          /\ UNCHANGED <<val, first, tail>>

\* Shift and Pop require a non-empty list: on an empty one they dereference nil.
Shift == /\ len > 0
         /\ remove(first)
         /\ ret' = val[first]

\* mutant: the last value is returned, the first node unlinked
Pop_First == /\ len > 0
             /\ remove(first)
             /\ ret' = val[tail]

Pop == /\ len > 0
       /\ remove(tail)
       /\ ret' = val[tail]

Remove(n) == n \in Linked /\ remove(n) /\ ret' = NoValue

IndexOp(index) == /\ index \in 0..(len - 1)
                  /\ ret' = val[Walk[index + 1]]
                  /\ UNCHANGED <<node, first, tail, len>>

LenOp == ret' = len /\ UNCHANGED <<node, first, tail, len>>

Next ==
    \/ \E v \in Values : UnShift(v) \/ Push(v)
    \/ Shift \/ Pop \/ LenOp
    \/ \E n \in Nodes : Remove(n)
    \/ \E i \in 0..(len - 1) : IndexOp(i)

Spec == Init /\ [][Next]_vars

-----------------------------------------------------------------------------
(* Properties *)

\* Fields hold nodes, and the length never exceeds the nodes there are.
TypeOK ==
    /\ val \in [Nodes -> Values \union {NoValue}]
    /\ next \in [Nodes -> Nodes \union {Nil}]
    /\ prev \in [Nodes -> Nodes \union {Nil}]
    /\ first \in Nodes \union {Nil} /\ tail \in Nodes \union {Nil}
    /\ len \in 0..Cardinality(Nodes)

\* The list is well formed: len nodes lead from first to tail by next, back by
\* prev, both ends are closed by nil, and first is nil exactly when len is 0
\* (Push and UnShift test first, the worker loop tests Len).  So no field of the
\* list leads to a removed node, the last one included: a task that was taken is
\* not kept alive by the list.
WellFormed ==
    /\ first = Nil <=> len = 0
    /\ tail = Nil <=> len = 0
    /\ Cardinality(Linked) = len
    /\ len > 0 =>
        /\ Walk[len] = tail
        /\ next[tail] = Nil /\ prev[first] = Nil
        /\ \A i \in 1..(len - 1) :
              next[Walk[i]] = Walk[i + 1] /\ prev[Walk[i + 1]] = Walk[i]

\* The linked list implements the abstract deque.
DQ == INSTANCE Deque WITH items <- [i \in 1..len |-> val[Walk[i]]]
RefinesDeque == DQ!DQSpec
=============================================================================
