------------------------------- MODULE Deque -------------------------------
(***************************************************************************)
(* What linkedlist.List promises: a sequence with both ends open.  ret is  *)
(* the value returned by the last operation that returns one.              *)
(***************************************************************************)
EXTENDS Integers, Sequences

CONSTANTS Values, NoValue

VARIABLES items, ret

DQvars == <<items, ret>>

DQInit == items = <<>> /\ ret = NoValue

DQUnShift(v) == items' = <<v>> \o items /\ ret' = NoValue
DQPush(v) == items' = Append(items, v) /\ ret' = NoValue
DQShift == items # <<>> /\ ret' = Head(items) /\ items' = Tail(items)
DQPop == /\ items # <<>>
         /\ ret' = items[Len(items)]
         /\ items' = SubSeq(items, 1, Len(items) - 1)
DQIndex(i) == i \in 1..Len(items) /\ ret' = items[i] /\ UNCHANGED items
DQLen == ret' = Len(items) /\ UNCHANGED items
DQRemove(i) == /\ i \in 1..Len(items)
               /\ items' = SubSeq(items, 1, i - 1) \o SubSeq(items, i + 1, Len(items))
               /\ ret' = NoValue

DQNext ==
    \/ \E v \in Values : DQUnShift(v) \/ DQPush(v)
    \/ DQShift \/ DQPop \/ DQLen
    \/ \E i \in 1..Len(items) : DQIndex(i) \/ DQRemove(i)

DQSpec == DQInit /\ [][DQNext]_DQvars
=============================================================================
