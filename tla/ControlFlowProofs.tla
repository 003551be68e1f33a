-------------------------- MODULE ControlFlowProofs -------------------------
(*****************************************************************************)
(* Proofs about ControlFlow, first part: types, frames and the invariants    *)
(* that the graph of ControlFlowGraphProofs rests on.                        *)
(*                                                                           *)
(*   Typed, Ranged   the blocks, scopes and points have their types, and     *)
(*                   every block that is named exists.                       *)
(*   Kept            every variable has a field of the frame or stands where *)
(*                   buildCtx does not look.                                 *)
(*   Source          the source's own flow: an exit leads to one point,      *)
(*                   dangles, or is kept by one scope; control comes to it.  *)
(*   Struct          which blocks the scopes still work on: no two scopes    *)
(*                   share one, and the blocks behind and beside a structure *)
(*                   are still empty.                                        *)
(*   Tails, Quiet    how the current scope ends so far, and that nothing     *)
(*                   follows a jump.                                         *)
(*   Targets         break and continue aim at the loop they stand in, as    *)
(*                   long as the target is not stale.                        *)
(*   Placed          every point stands in a block that has its exits.       *)
(*                                                                           *)
(* For each of them there is a lemma per action.                             *)
(*****************************************************************************)
EXTENDS ControlFlow, SequenceTheorems, WellFoundedInduction, TLAPS

-----------------------------------------------------------------------------
(* Induction over integers: a predicate is given as the set of numbers that satisfy it. *)

\* A non-empty set of natural numbers has a least element.
LEMMA NatLeast ==
    ASSUME NEW T \in SUBSET Nat, T # {}
    PROVE  \E x \in T : \A y \in T : x <= y
<1> DEFINE R == OpToRel(<, Nat)
<1>1. IsWellFoundedOn(R, Nat)
  BY NatLessThanWellFounded
<1>2. \A x, y \in Nat : y < x => <<y, x>> \in R
  BY DEF OpToRel
<1> HIDE DEF R
<1>3. PICK x \in T : \A y \in T : ~ (<<y, x>> \in R)
  BY <1>1, WFMin
<1>4. \A y \in T : y \in Nat /\ x \in Nat
  OBVIOUS
<1>5. \A y \in T : ~(y < x)
  BY <1>2, <1>3, <1>4, Zenon
<1> QED
  BY <1>4, <1>5

\* Induction over the natural numbers, for the members of a set.
LEMMA NatSetInduction ==
    ASSUME NEW S, 0 \in S, \A n \in Nat : n \in S => n + 1 \in S
    PROVE  \A n \in Nat : n \in S
<1> DEFINE T == Nat \ S
<1>1. SUFFICES ASSUME T # {} PROVE FALSE
  OBVIOUS
<1>2. PICK x \in T : \A y \in T : x <= y
  BY <1>1, NatLeast
<1>3. x \in Nat /\ x # 0 /\ x - 1 \in Nat /\ x - 1 \notin T
  BY <1>2
<1> QED
  BY <1>3

\* Induction over an interval.
LEMMA IntervalInduction ==
    ASSUME NEW S, NEW lo \in Int, NEW hi \in Int, lo \in S,
           \A n \in lo..(hi - 1) : n \in S => n + 1 \in S
    PROVE  \A n \in lo..hi : n \in S
<1> DEFINE T == {k \in Nat : lo + k <= hi => lo + k \in S}
<1>1. 0 \in T
  OBVIOUS
<1>2. \A k \in Nat : k \in T => k + 1 \in T
  OBVIOUS
<1> HIDE DEF T
<1>3. \A k \in Nat : k \in T
  BY <1>1, <1>2, NatSetInduction
<1>4. ASSUME NEW n \in lo..hi PROVE n \in S
  <2>1. n - lo \in Nat /\ lo + (n - lo) = n
    OBVIOUS
  <2>2. n - lo \in T
    BY <1>3, <2>1
  <2> QED
    BY <2>1, <2>2 DEF T
<1> QED
  BY <1>4

\* g starts with a, and goes on with step
Iterates(g, lo, hi, a, step) ==
    \A i \in lo..hi : g[i] = IF i = lo THEN a ELSE step[i][g[i - 1]]

\* A function defined by recursion over an interval exists, and has its type.
LEMMA IntervalRecursion ==
    ASSUME NEW S, NEW lo \in Int, NEW hi \in Int, NEW a \in S,
           NEW step \in [lo..hi -> [S -> S]]
    PROVE  \E g \in [lo..hi -> S] : Iterates(g, lo, hi, a, step)
<1> USE DEF Iterates
<1> DEFINE Upto(n, g) == \A i \in lo..n : g[i] = IF i = lo THEN a ELSE step[i][g[i - 1]]
           N == {n \in Int : \E g \in [lo..n -> S] : Upto(n, g)}
<1>1. lo \in N
  <2> DEFINE g == [i \in lo..lo |-> a]
  <2>1. g \in [lo..lo -> S] /\ Upto(lo, g)
    OBVIOUS
  <2> QED
    BY <2>1
<1>2. ASSUME NEW n \in lo..(hi - 1), n \in N PROVE n + 1 \in N
  <2>1. PICK g \in [lo..n -> S] : Upto(n, g)
    BY <1>2
  <2> DEFINE h == [i \in lo..(n + 1) |-> IF i = n + 1 THEN step[n + 1][g[n]] ELSE g[i]]
  <2>2. step[n + 1][g[n]] \in S
    OBVIOUS
  <2>3. h \in [lo..(n + 1) -> S]
    BY <2>2
  <2>4. ASSUME NEW i \in lo..(n + 1)
        PROVE  h[i] = IF i = lo THEN a ELSE step[i][h[i - 1]]
    <3>1. CASE i = n + 1
      BY <3>1
    <3>2. CASE i # n + 1
      <4>1. i \in lo..n /\ h[i] = g[i]
        BY <3>2
      <4>2. i # lo => i - 1 \in lo..n /\ h[i - 1] = g[i - 1]
        BY <3>2
      <4> QED
        BY <4>1, <4>2, <2>1
    <3> QED
      BY <3>1, <3>2
  <2> HIDE DEF h
  <2>5. Upto(n + 1, h) /\ n + 1 \in Int
    BY <2>4
  <2> QED
    BY <2>3, <2>5
<1> HIDE DEF N
<1>3. CASE lo <= hi
  <2>1. \A n \in lo..hi : n \in N
    BY <1>1, <1>2, IntervalInduction
  <2>2. hi \in N
    BY <1>3, <2>1
  <2> QED
    BY <2>2 DEF N
<1>4. CASE ~(lo <= hi)
  <2> DEFINE g == [i \in lo..hi |-> a]
  <2>1. g \in [lo..hi -> S] /\ \A i \in lo..hi : FALSE
    BY <1>4
  <2> QED
    BY <2>1
<1> QED
  BY <1>3, <1>4

-----------------------------------------------------------------------------
(* Types *)

\* Labels of exits and edges, and dangling exits.
Labels == {"next", "true", "false", "resume"}
Dangle == Nat \X Labels
\* Terminators and blocks.
Terms == {"none", "br", "cond", "ret", "yield"}
Block == [insts : Seq(Nat), term : Terms, to : Seq(Nat)]
\* Kinds of scopes, and scopes.
Kinds == {"fn", "if", "then", "else", "body"}
Scope == [kind : Kinds, block : Nat, first : Nat, breakBlock : Nat, continueBlock : Nat,
          cond : Nat, end : Nat, form : {{}} \union Forms, point : Nat, post : Nat,
          tail : {"first", "if", "open", "ended"}, jumped : {"no", "ret", "break", "continue"},
          stale : BOOLEAN, vars : SUBSET Nat,
          saved : SUBSET Dangle, breaks : SUBSET Dangle, continues : SUBSET Dangle]

\* The types of the variables that the proofs are about.
Typed ==
    /\ mode \in {"func", "gen", "async"} /\ phase \in {"compile", "done", "error"}
    /\ blocks \in Seq(Block) /\ stack \in Seq(Scope) /\ stack # <<>>
    /\ points \in Nat /\ exits \in SUBSET Dangle /\ flow \in SUBSET (Nat \X Labels \X Int)
    /\ defs \in SUBSET Nat /\ odd \in BOOLEAN

\* t is s but for what a step may change.
Core(s, t) ==
    /\ t.kind = s.kind /\ t.first = s.first /\ t.cond = s.cond /\ t.end = s.end /\ t.form = s.form
    /\ t.point = s.point /\ t.post = s.post /\ t.saved = s.saved
\* t has the targets of s, and its exits from the loop.
Jumps(s, t) == t.breakBlock = s.breakBlock /\ t.continueBlock = s.continueBlock /\ t.stale = s.stale
Loops(s, t) == t.breaks = s.breaks /\ t.continues = s.continues

\* s goes on in block b behind a structure of kind x
Moved(s, b, x) == [s EXCEPT !.block = b, !.tail = x]

\* The members of a sequence.
LEMMA SeqIs ==
    ASSUME NEW S, NEW q \in Seq(S)
    PROVE  Len(q) \in Nat /\ \A i \in 1..Len(q) : q[i] \in S
  BY LenProperties, ElementOfSeq

\* A sequence with one member replaced.
LEMMA ReplaceSeq ==
    ASSUME NEW S, NEW q \in Seq(S), NEW i \in 1..Len(q), NEW x \in S, NEW r, r = [q EXCEPT ![i] = x]
    PROVE  /\ r \in Seq(S) /\ Len(r) = Len(q) /\ r[i] = x
           /\ \A j \in 1..Len(q) : j # i => r[j] = q[j]
  BY ExceptSeq

\* Operations on blocks.
LEMMA EmitIs ==
    ASSUME NEW bs \in Seq(Block), NEW b \in 1..Len(bs), NEW p \in Nat, NEW r, r = Emit(bs, b, p)
    PROVE  /\ r \in Seq(Block) /\ Len(r) = Len(bs)
           /\ r[b].insts = Append(bs[b].insts, p) /\ r[b].term = bs[b].term /\ r[b].to = bs[b].to
           /\ \A x \in 1..Len(bs) : x # b => r[x] = bs[x]
<1>1. bs[b] \in Block
  BY SeqIs
<1>2. PICK y : y = [bs[b] EXCEPT !.insts = Append(@, p)]
  OBVIOUS
<1>0. Append(bs[b].insts, p) \in Seq(Nat)
  BY <1>1, AppendProperties DEF Block
<1>3. y \in Block /\ y.insts = Append(bs[b].insts, p) /\ y.term = bs[b].term /\ y.to = bs[b].to
  BY <1>0, <1>1, <1>2 DEF Block
<1>4. r = [bs EXCEPT ![b] = y]
  BY <1>2 DEF Emit
<1> QED BY <1>3, <1>4, ReplaceSeq

\* A new block is empty and ends nowhere.
LEMMA NewIs == NewBlock \in Block /\ NewBlock.insts = <<>> /\ NewBlock.term = "none" /\ NewBlock.to = <<>>
  BY DEF NewBlock, Block, Terms

\* The blocks with a new one behind them.
LEMMA AddIs ==
    ASSUME NEW bs \in Seq(Block), NEW r, r = Append(bs, NewBlock)
    PROVE  /\ r \in Seq(Block) /\ Len(r) = Len(bs) + 1 /\ r[Len(bs) + 1] = NewBlock
           /\ \A x \in 1..Len(bs) : r[x] = bs[x]
  BY NewIs, AppendProperties

\* if/else and for make three blocks at once
Thrice(bs) == bs \o <<NewBlock, NewBlock, NewBlock>>

\* The blocks with three new ones behind them.
LEMMA Add3Is ==
    ASSUME NEW bs \in Seq(Block), NEW r, r = Thrice(bs)
    PROVE  /\ r \in Seq(Block) /\ Len(r) = Len(bs) + 3
           /\ r[Len(bs) + 1] = NewBlock /\ r[Len(bs) + 2] = NewBlock /\ r[Len(bs) + 3] = NewBlock
           /\ \A x \in 1..Len(bs) : r[x] = bs[x]
<1>1. PICK a \in Block : a = NewBlock
  BY NewIs
<1>2. PICK q : q = <<a, a, a>>
  OBVIOUS
<1>3. q \in Seq(Block) /\ Len(q) = 3 /\ q[1] = a /\ q[2] = a /\ q[3] = a
  BY <1>2
<1>4. r = bs \o q
  BY <1>1, <1>2 DEF Thrice
<1>5. /\ r \in Seq(Block) /\ Len(r) = Len(bs) + Len(q)
      /\ \A i \in 1..(Len(bs) + Len(q)) : r[i] = IF i <= Len(bs) THEN bs[i] ELSE q[i - Len(bs)]
  <2>1. q \in Seq(Block)
    BY <1>3
  <2>2. /\ bs \o q \in Seq(Block) /\ Len(bs \o q) = Len(bs) + Len(q)
        /\ \A i \in 1..(Len(bs) + Len(q)) : (bs \o q)[i] = IF i <= Len(bs) THEN bs[i] ELSE q[i - Len(bs)]
    BY <2>1, ConcatProperties
  <2> QED BY <1>4, <2>2
<1>6. Len(bs) \in Nat
  BY LenProperties
<1> QED BY <1>1, <1>3, <1>5, <1>6, SMTT(30)

\* The stack.
LEMMA CurIs == Typed => Depth \in Nat /\ Depth >= 1 /\ Cur \in Scope /\ \A d \in 1..Depth : stack[d] \in Scope
<1> SUFFICES ASSUME Typed PROVE Depth \in Nat /\ Depth >= 1 /\ Cur \in Scope /\ \A d \in 1..Depth : stack[d] \in Scope
  OBVIOUS
<1>1. stack \in Seq(Scope) /\ stack # <<>>
  BY DEF Typed
<1>2. Len(stack) \in Nat /\ Len(stack) >= 1
  BY <1>1, LenProperties, EmptySeq
<1> QED BY <1>1, <1>2, SeqIs DEF Depth, Cur

\* SetCur replaces the scope at the top of the stack.
LEMMA SetCurIs ==
    ASSUME Typed, NEW s \in Scope, SetCur(s)
    PROVE  /\ stack' \in Seq(Scope) /\ Len(stack') = Depth /\ stack'[Depth] = s
           /\ \A d \in 1..Depth : d # Depth => stack'[d] = stack[d]
  BY CurIs, ReplaceSeq DEF SetCur, Depth, Typed

\* The top is replaced and another scope put on it.
LEMMA PushIs ==
    ASSUME Typed, NEW s \in Scope, NEW t \in Scope, stack' = Append([stack EXCEPT ![Depth] = s], t)
    PROVE  /\ stack' \in Seq(Scope) /\ Len(stack') = Depth + 1 /\ stack'[Depth] = s /\ stack'[Depth + 1] = t
           /\ \A d \in 1..Depth : d # Depth => stack'[d] = stack[d]
<1>1. PICK q : q = [stack EXCEPT ![Depth] = s]
  OBVIOUS
<1>2. q \in Seq(Scope) /\ Len(q) = Depth /\ q[Depth] = s /\ \A d \in 1..Depth : d # Depth => q[d] = stack[d]
  BY <1>1, CurIs, ReplaceSeq DEF Depth, Typed
<1>3. stack' = Append(q, t)
  BY <1>1
<1>4. PICK m \in Nat : m = Depth /\ m >= 1
  BY CurIs
<1>5. q \in Seq(Scope) /\ Len(q) = m /\ q[m] = s /\ \A d \in 1..m : d # m => q[d] = stack[d]
  BY <1>2, <1>4
<1>6. /\ Append(q, t) \in Seq(Scope) /\ Len(Append(q, t)) = m + 1 /\ Append(q, t)[m + 1] = t
      /\ \A d \in 1..m : Append(q, t)[d] = q[d]
  BY <1>5, AppendProperties
<1>7. Append(q, t)[m] = s
  BY <1>4, <1>5, <1>6
<1> QED BY <1>3, <1>4, <1>5, <1>6, <1>7

\* Pop takes the top off and moves the scope below.
LEMMA PopIs ==
    ASSUME Typed, Depth > 1, NEW b \in Nat, NEW x \in {"if", "open"}, Pop(b, x)
    PROVE  /\ stack' \in Seq(Scope) /\ Len(stack') = Depth - 1
           /\ \A d \in 1..(Depth - 2) : stack'[d] = stack[d]
           /\ stack'[Depth - 1] = Moved(stack[Depth - 1], b, x)
<1>1. PICK q : q = SubSeq(stack, 1, Depth - 1)
  OBVIOUS
<1>2. q \in Seq(Scope) /\ Len(q) = Depth - 1 /\ \A d \in 1..(Depth - 1) : q[d] = stack[d]
  BY <1>1, CurIs, SubSeqProperties DEF Depth, Typed
<1>3. PICK y : y = [stack[Depth - 1] EXCEPT !.block = b, !.tail = x]
  OBVIOUS
<1>0. Depth - 1 \in Nat /\ Depth - 1 \in 1..Depth /\ Depth - 1 \in 1..(Depth - 1)
  BY CurIs
<1>4. stack[Depth - 1] \in Scope
  BY <1>0, CurIs
<1>6. y \in Scope
  <2>1. PICK z \in Scope : z = stack[Depth - 1]
    BY <1>4
  <2>2. y = [z EXCEPT !.block = b, !.tail = x]
    BY <1>3, <2>1
  <2>3. x \in {"first", "if", "open", "ended"}
    OBVIOUS
  <2> QED BY <2>1, <2>2, <2>3 DEF Scope
<1>5. stack' = [q EXCEPT ![Depth - 1] = y]
  <2>1. stack' = [q EXCEPT ![Depth - 1].block = b, ![Depth - 1].tail = x]
    BY <1>1 DEF Pop
  <2>2. PICK m \in Nat : m = Depth - 1 /\ m \in 1..Len(q)
    BY <1>0, <1>2
  <2>3. DOMAIN q = 1..Len(q) /\ q[m] = stack[Depth - 1]
    BY <1>2, <2>2, LenProperties
  <2>4. [q EXCEPT ![m].block = b, ![m].tail = x] = [q EXCEPT ![m] = y]
    BY <1>3, <2>2, <2>3
  <2> QED BY <2>1, <2>2, <2>4
<1>7. PICK m \in Nat : m = Depth - 1 /\ m \in 1..Len(q)
  BY <1>0, <1>2
<1>8. /\ [q EXCEPT ![m] = y] \in Seq(Scope) /\ Len([q EXCEPT ![m] = y]) = m /\ [q EXCEPT ![m] = y][m] = y
      /\ \A d \in 1..m : d # m => [q EXCEPT ![m] = y][d] = q[d]
  BY <1>2, <1>6, <1>7, ReplaceSeq
<1>9. \A d \in 1..(Depth - 2) : d \in 1..m /\ d # m /\ q[d] = stack[d]
  BY <1>2, <1>7, CurIs
<1> QED BY <1>3, <1>5, <1>7, <1>8, <1>9 DEF Moved

\* The initial state has its types.
LEMMA TypedInit == Init => Typed
<1> SUFFICES ASSUME Init PROVE Typed
  OBVIOUS
<1>1. blocks = <<NewBlock>> /\ blocks \in Seq(Block)
  BY NewIs DEF Init
<1>2. PICK s : s = AddChildScope("fn", 1, [breakBlock |-> Nil, continueBlock |-> Nil, stale |-> FALSE])
  OBVIOUS
<1>3. s \in Scope
  BY <1>2 DEF Scope, Kinds, Nil, AddChildScope
<1>4. stack = <<s>> /\ stack \in Seq(Scope) /\ stack # <<>>
  BY <1>2, <1>3 DEF Init
<1>5. exits \in SUBSET Dangle
  BY DEF Init, Dangle, Labels, Start
<1>6. flow \in SUBSET (Nat \X Labels \X Int) /\ defs \in SUBSET Nat
  BY DEF Init
<1> QED BY <1>1, <1>4, <1>5, <1>6 DEF Init, Typed

\* The number of blocks, and the parts of block b.
N == Len(blocks)
I(b) == blocks[b].insts
Term(b) == blocks[b].term
Tos(b) == blocks[b].to

\* a scope's blocks are blocks of a function with n blocks
Fits(s, n) ==
    /\ s.block \in 1..n /\ s.first \in 1..n
    /\ s.breakBlock \in 0..n /\ s.continueBlock \in 0..n
    /\ s.kind \in {"then", "else", "body"} => s.cond \in 1..n /\ s.end \in 1..n

\* all targets are among n blocks
Aims(q, n) == \A i \in 1..Len(q) : q[i] \in 1..n

\* Well-formed blocks of a function with n blocks, and its scopes.
Good(bs, n) == bs \in Seq(Block) /\ \A b \in 1..Len(bs) : Aims(bs[b].to, n)
GoodScopes(st, n) == st \in Seq(Scope) /\ \A d \in 1..Len(st) : Fits(st[d], n)

\* The types, and every block that a terminator or a scope names exists.
Ranged == Typed /\ Depth <= N /\ Good(blocks, N) /\ GoodScopes(stack, N)

\* The parts of a block have their types.
LEMMA BlockIs ==
    ASSUME Typed
    PROVE  N \in Nat /\ \A b \in 1..N : I(b) \in Seq(Nat) /\ Term(b) \in Terms /\ Tos(b) \in Seq(Nat)
<1>1. blocks \in Seq(Block)
  BY DEF Typed
<1>2. N \in Nat /\ \A b \in 1..N : blocks[b] \in Block
  BY <1>1, SeqIs DEF N
<1> QED BY <1>2 DEF I, Term, Tos, Block

\* Lists of targets are sequences.
LEMMA TargetsIn == <<>> \in Seq(Nat) /\ \A x, y \in Nat : <<x>> \in Seq(Nat) /\ <<x, y>> \in Seq(Nat)
  OBVIOUS

\* NewBr replaces the terminator of one block.
LEMMA BrIs ==
    ASSUME NEW bs \in Seq(Block), NEW b \in 1..Len(bs), NEW x \in Nat, NEW r, r = NewBr(bs, b, x)
    PROVE  /\ r \in Seq(Block) /\ Len(r) = Len(bs)
           /\ r[b].insts = bs[b].insts /\ r[b].term = "br" /\ r[b].to = <<x>>
           /\ \A z \in 1..Len(bs) : z # b => r[z] = bs[z]
<1>1. bs[b] \in Block
  BY SeqIs
<1>2. PICK y : y = [bs[b] EXCEPT !.term = "br", !.to = <<x>>]
  OBVIOUS
<1>3. y \in Block /\ y.insts = bs[b].insts /\ y.term = "br" /\ y.to = <<x>>
  BY <1>1, <1>2, TargetsIn DEF Block, Terms
<1>4. r = [bs EXCEPT ![b] = y]
  BY <1>2 DEF SetTerm, NewBr
<1> QED BY <1>3, <1>4, ReplaceSeq

\* NewYield replaces the terminator of one block.
LEMMA YieldIs ==
    ASSUME NEW bs \in Seq(Block), NEW b \in 1..Len(bs), NEW x \in Nat, NEW r, r = NewYield(bs, b, x)
    PROVE  /\ r \in Seq(Block) /\ Len(r) = Len(bs)
           /\ r[b].insts = bs[b].insts /\ r[b].term = "yield" /\ r[b].to = <<x>>
           /\ \A z \in 1..Len(bs) : z # b => r[z] = bs[z]
<1>1. bs[b] \in Block
  BY SeqIs
<1>2. PICK y : y = [bs[b] EXCEPT !.term = "yield", !.to = <<x>>]
  OBVIOUS
<1>3. y \in Block /\ y.insts = bs[b].insts /\ y.term = "yield" /\ y.to = <<x>>
  BY <1>1, <1>2, TargetsIn DEF Block, Terms
<1>4. r = [bs EXCEPT ![b] = y]
  BY <1>2 DEF SetTerm, NewYield
<1> QED BY <1>3, <1>4, ReplaceSeq

\* NewCondBr replaces the terminator of one block.
LEMMA CondBrIs ==
    ASSUME NEW bs \in Seq(Block), NEW b \in 1..Len(bs), NEW x \in Nat, NEW y \in Nat, NEW r, r = NewCondBr(bs, b, x, y)
    PROVE  /\ r \in Seq(Block) /\ Len(r) = Len(bs)
           /\ r[b].insts = bs[b].insts /\ r[b].term = "cond" /\ r[b].to = <<x, y>>
           /\ \A v \in 1..Len(bs) : v # b => r[v] = bs[v]
<1>1. bs[b] \in Block
  BY SeqIs
<1>2. PICK z : z = [bs[b] EXCEPT !.term = "cond", !.to = <<x, y>>]
  OBVIOUS
<1>3. z \in Block /\ z.insts = bs[b].insts /\ z.term = "cond" /\ z.to = <<x, y>>
  BY <1>1, <1>2, TargetsIn DEF Block, Terms
<1>4. r = [bs EXCEPT ![b] = z]
  BY <1>2 DEF SetTerm, NewCondBr
<1> QED BY <1>3, <1>4, ReplaceSeq

\* NewRet replaces the terminator of one block.
LEMMA RetIs ==
    ASSUME NEW bs \in Seq(Block), NEW b \in 1..Len(bs), NEW r, r = NewRet(bs, b)
    PROVE  /\ r \in Seq(Block) /\ Len(r) = Len(bs)
           /\ r[b].insts = bs[b].insts /\ r[b].term = "ret" /\ r[b].to = <<>>
           /\ \A z \in 1..Len(bs) : z # b => r[z] = bs[z]
<1>1. bs[b] \in Block
  BY SeqIs
<1>2. PICK y : y = [bs[b] EXCEPT !.term = "ret", !.to = <<>>]
  OBVIOUS
<1>3. y \in Block /\ y.insts = bs[b].insts /\ y.term = "ret" /\ y.to = <<>>
  BY <1>1, <1>2, TargetsIn DEF Block, Terms
<1>4. r = [bs EXCEPT ![b] = y]
  BY <1>2 DEF SetTerm, NewRet
<1> QED BY <1>3, <1>4, ReplaceSeq

\* BrIfOpen ends a block that nothing has ended yet.
LEMMA OpenIs ==
    ASSUME NEW bs \in Seq(Block), NEW b \in 1..Len(bs), NEW x \in Nat, NEW r, r = BrIfOpen(bs, b, x)
    PROVE  /\ r \in Seq(Block) /\ Len(r) = Len(bs) /\ r[b].insts = bs[b].insts
           /\ bs[b].term = "none" => r[b].term = "br" /\ r[b].to = <<x>>
           /\ bs[b].term # "none" => r[b] = bs[b]
           /\ \A y \in 1..Len(bs) : y # b => r[y] = bs[y]
<1>2. CASE bs[b].term = "none"
  <2>1. r = NewBr(bs, b, x)
    BY <1>2 DEF BrIfOpen
  <2> QED BY <1>2, <2>1, BrIs
<1>3. CASE bs[b].term # "none"
  BY <1>3 DEF BrIfOpen
<1> QED BY <1>2, <1>3

\* The blocks of a scope exist.
LEMMA ScopeFits ==
    ASSUME Ranged
    PROVE  \A d \in 1..Depth : Fits(stack[d], N) /\ stack[d] \in Scope
  BY CurIs DEF Ranged, GoodScopes, Depth

\* The blocks of the current scope exist.
LEMMA CurFits ==
    ASSUME Ranged
    PROVE  Cur.block \in 1..N /\ Cur.first \in 1..N /\ Cur.breakBlock \in 0..N /\ Cur.continueBlock \in 0..N
<1>1. Depth \in 1..Depth
  BY CurIs DEF Ranged
<1> QED BY <1>1, ScopeFits DEF Fits, Cur

\* Lists of at most two existing blocks.
LEMMA AimsAt == \A n : Aims(<<>>, n) /\ \A x \in 1..n : Aims(<<x>>, n) /\ \A y \in 1..n : Aims(<<x, y>>, n)
  BY DEF Aims

\* Emit keeps the blocks well formed.
LEMMA GoodEmit ==
    ASSUME NEW n, NEW bs, Good(bs, n), NEW b \in 1..Len(bs), NEW p \in Nat, NEW r, r = Emit(bs, b, p)
    PROVE  Good(r, n) /\ Len(r) = Len(bs)
  BY EmitIs DEF Good

\* NewBr keeps the blocks well formed.
LEMMA GoodBr ==
    ASSUME NEW n \in Nat, NEW bs, Good(bs, n), NEW b \in 1..Len(bs), NEW x \in 1..n, NEW r, r = NewBr(bs, b, x)
    PROVE  Good(r, n) /\ Len(r) = Len(bs)
<1>1. x \in Nat /\ bs \in Seq(Block) /\ Aims(<<x>>, n)
  BY DEF Good, Aims
<1>2. r \in Seq(Block) /\ Len(r) = Len(bs) /\ r[b].to = <<x>>
  BY <1>1, BrIs
<1>3. \A z \in 1..Len(bs) : z # b => r[z] = bs[z]
  BY <1>1, BrIs
<1> QED BY <1>1, <1>2, <1>3 DEF Good

\* NewCondBr keeps the blocks well formed.
LEMMA GoodCondBr ==
    ASSUME NEW n \in Nat, NEW bs, Good(bs, n), NEW b \in 1..Len(bs), NEW x \in 1..n, NEW y \in 1..n, NEW r, r = NewCondBr(bs, b, x, y)
    PROVE  Good(r, n) /\ Len(r) = Len(bs)
<1>1. x \in Nat /\ y \in Nat /\ bs \in Seq(Block) /\ Aims(<<x, y>>, n)
  BY DEF Good, Aims
<1>2. r \in Seq(Block) /\ Len(r) = Len(bs) /\ r[b].to = <<x, y>>
  BY <1>1, CondBrIs
<1>3. \A z \in 1..Len(bs) : z # b => r[z] = bs[z]
  BY <1>1, CondBrIs
<1> QED BY <1>1, <1>2, <1>3 DEF Good

\* NewYield keeps the blocks well formed.
LEMMA GoodYield ==
    ASSUME NEW n \in Nat, NEW bs, Good(bs, n), NEW b \in 1..Len(bs), NEW x \in 1..n, NEW r, r = NewYield(bs, b, x)
    PROVE  Good(r, n) /\ Len(r) = Len(bs)
<1>1. x \in Nat /\ bs \in Seq(Block) /\ Aims(<<x>>, n)
  BY DEF Good, Aims
<1>2. r \in Seq(Block) /\ Len(r) = Len(bs) /\ r[b].to = <<x>>
  BY <1>1, YieldIs
<1>3. \A z \in 1..Len(bs) : z # b => r[z] = bs[z]
  BY <1>1, YieldIs
<1> QED BY <1>1, <1>2, <1>3 DEF Good

\* NewRet keeps the blocks well formed.
LEMMA GoodRet ==
    ASSUME NEW n \in Nat, NEW bs, Good(bs, n), NEW b \in 1..Len(bs), NEW r, r = NewRet(bs, b)
    PROVE  Good(r, n) /\ Len(r) = Len(bs)
<1>1. bs \in Seq(Block) /\ Aims(<<>>, n)
  BY DEF Good, Aims
<1>2. r \in Seq(Block) /\ Len(r) = Len(bs) /\ r[b].to = <<>>
  BY <1>1, RetIs
<1>3. \A z \in 1..Len(bs) : z # b => r[z] = bs[z]
  BY <1>1, RetIs
<1> QED BY <1>1, <1>2, <1>3 DEF Good

\* BrIfOpen keeps the blocks well formed.
LEMMA GoodOpen ==
    ASSUME NEW n \in Nat, NEW bs, Good(bs, n), NEW b \in 1..Len(bs), NEW x \in 1..n, NEW r, r = BrIfOpen(bs, b, x)
    PROVE  Good(r, n) /\ Len(r) = Len(bs)
  BY GoodBr DEF BrIfOpen

\* A new block keeps the blocks well formed.
LEMMA GoodAdd ==
    ASSUME NEW n \in Nat, NEW bs, Good(bs, n), NEW k \in Nat, k >= n, NEW r, r = Append(bs, NewBlock)
    PROVE  Good(r, k) /\ Len(r) = Len(bs) + 1
<1>1. \A q : Aims(q, n) => Aims(q, k)
  BY DEF Aims
<1>2. bs \in Seq(Block) /\ Len(bs) \in Nat
  BY LenProperties DEF Good
<1>3. Aims(NewBlock.to, k)
  BY NewIs, AimsAt
<1> QED BY <1>1, <1>2, <1>3, AddIs DEF Good

\* Three new blocks keep the blocks well formed.
LEMMA GoodAdd3 ==
    ASSUME NEW n \in Nat, NEW bs, Good(bs, n), NEW k \in Nat, k >= n, NEW r, r = Thrice(bs)
    PROVE  Good(r, k) /\ Len(r) = Len(bs) + 3
<1>1. \A q : Aims(q, n) => Aims(q, k)
  BY DEF Aims
<1>2. bs \in Seq(Block) /\ Len(bs) \in Nat
  BY LenProperties DEF Good
<1>3. Aims(NewBlock.to, k)
  BY NewIs, AimsAt
<1>4. \A b \in 1..(Len(bs) + 3) : b \in 1..Len(bs) \/ b = Len(bs) + 1 \/ b = Len(bs) + 2 \/ b = Len(bs) + 3
  BY <1>2
<1>5. /\ r \in Seq(Block) /\ Len(r) = Len(bs) + 3
      /\ r[Len(bs) + 1] = NewBlock /\ r[Len(bs) + 2] = NewBlock /\ r[Len(bs) + 3] = NewBlock
  BY <1>2, Add3Is
<1>6. \A x \in 1..Len(bs) : r[x] = bs[x]
  BY <1>2, Add3Is
<1>7. \A b \in 1..(Len(bs) + 3) : Aims(r[b].to, k)
  BY <1>1, <1>3, <1>4, <1>5, <1>6 DEF Good
<1> QED BY <1>5, <1>7 DEF Good

\* What a step leaves of a scope.
LEMMA SelfIs == ASSUME NEW s PROVE Core(s, s) /\ Jumps(s, s) /\ Loops(s, s)
  BY DEF Core, Jumps, Loops

\* What a simple statement does to the scopes.
LEMMA StatementStack ==
    ASSUME Typed, NEW isDef \in BOOLEAN, Statement(isDef), NEW t, t = stack'[Depth]
    PROVE  /\ stack' \in Seq(Scope) /\ Len(stack') = Depth /\ \A d \in 1..Depth : d # Depth => stack'[d] = stack[d]
           /\ Core(Cur, t) /\ Jumps(Cur, t) /\ Loops(Cur, t)
           /\ t.block = Cur.block /\ t.tail = Cur.tail /\ t.jumped = Cur.jumped
           /\ t.vars = IF isDef THEN Cur.vars \union {points + 1} ELSE Cur.vars
<1>3. Cur \in Scope /\ points + 1 \in Nat
  BY CurIs DEF Typed
<1>4. CASE isDef
  <2>2. PICK r : r = [Cur EXCEPT !.vars = @ \union {points + 1}]
    OBVIOUS
  <2>3. SetCur(r)
    BY <1>4, <2>2 DEF Statement
  <2>4. r \in Scope /\ Core(Cur, r) /\ Jumps(Cur, r) /\ Loops(Cur, r) /\ r.vars = Cur.vars \union {points + 1} /\ r.block = Cur.block /\ r.tail = Cur.tail /\ r.jumped = Cur.jumped
    BY <1>3, <2>2 DEF Scope, Core, Jumps, Loops
  <2>5. stack' \in Seq(Scope) /\ Len(stack') = Depth /\ stack'[Depth] = r /\ \A d \in 1..Depth : d # Depth => stack'[d] = stack[d]
    BY <2>3, <2>4, SetCurIs
  <2> QED BY <1>4, <2>4, <2>5
<1>5. CASE ~isDef
  <2>1. stack' = stack
    BY <1>5 DEF Statement
  <2>2. t = Cur /\ Len(stack') = Depth
    BY <2>1 DEF Depth, Cur
  <2>4. stack' \in Seq(Scope)
    BY <2>1 DEF Typed
  <2> QED BY <1>5, <2>1, <2>2, <2>4, SelfIs
<1> QED BY <1>4, <1>5

\* yield, await and an async return go on in a new block
LEMMA MovedStack ==
    ASSUME Typed, NEW b \in Nat, NEW x, x \in {"open", "ended"}, SetCur(Moved(Cur, b, x)), NEW t, t = stack'[Depth]
    PROVE  /\ stack' \in Seq(Scope) /\ Len(stack') = Depth /\ \A d \in 1..Depth : d # Depth => stack'[d] = stack[d]
           /\ Core(Cur, t) /\ Jumps(Cur, t) /\ Loops(Cur, t)
           /\ t.block = b /\ t.tail = x /\ t.jumped = Cur.jumped /\ t.vars = Cur.vars
<1>1. PICK r : r = Moved(Cur, b, x)
  OBVIOUS
<1>2. Cur \in Scope
  BY CurIs
<1>3. r \in Scope /\ Core(Cur, r) /\ Jumps(Cur, r) /\ Loops(Cur, r) /\ r.vars = Cur.vars /\ r.block = b /\ r.tail = x /\ r.jumped = Cur.jumped
  BY <1>1, <1>2 DEF Scope, Core, Jumps, Loops, Moved
<1>4. stack' \in Seq(Scope) /\ Len(stack') = Depth /\ stack'[Depth] = r /\ \A d \in 1..Depth : d # Depth => stack'[d] = stack[d]
  BY <1>1, <1>3, SetCurIs
<1> QED BY <1>3, <1>4

\* The current scope when a jump ends it.
LEMMA JumpIs ==
    ASSUME Typed, NEW j \in {"ret", "break", "continue"}, NEW r, r = Jump(j)
    PROVE  /\ r \in Scope /\ Core(Cur, r) /\ Jumps(Cur, r) /\ Loops(Cur, r) /\ r.vars = Cur.vars
           /\ r.block = Cur.block /\ r.tail = "ended" /\ r.jumped = IF Reached THEN j ELSE Cur.jumped
<1>1. Cur \in Scope
  BY CurIs
<1> QED BY <1>1 DEF Jump, Scope, Core, Jumps, Loops

\* What break or continue does to the scopes.
LEMMA JumpStack ==
    ASSUME Typed, NEW j \in {"ret", "break", "continue"}, SetCur(Jump(j)), NEW t, t = stack'[Depth]
    PROVE  /\ stack' \in Seq(Scope) /\ Len(stack') = Depth /\ \A d \in 1..Depth : d # Depth => stack'[d] = stack[d]
           /\ Core(Cur, t) /\ Jumps(Cur, t) /\ Loops(Cur, t)
           /\ t.block = Cur.block /\ t.tail = "ended" /\ t.jumped = (IF Reached THEN j ELSE Cur.jumped) /\ t.vars = Cur.vars
<1>1. PICK r : r = Jump(j)
  OBVIOUS
<1>3. r \in Scope /\ Core(Cur, r) /\ Jumps(Cur, r) /\ Loops(Cur, r) /\ r.vars = Cur.vars /\ r.block = Cur.block /\ r.tail = "ended" /\ r.jumped = IF Reached THEN j ELSE Cur.jumped
  BY <1>1, JumpIs
<1>4. stack' \in Seq(Scope) /\ Len(stack') = Depth /\ stack'[Depth] = r /\ \A d \in 1..Depth : d # Depth => stack'[d] = stack[d]
  BY <1>1, <1>3, SetCurIs
<1> QED BY <1>3, <1>4

\* break and continue hand the exits to the innermost loop
Handed(j, L, d, s, t) ==
    /\ Core(s, t) /\ Jumps(s, t) /\ t.vars = s.vars /\ t.block = s.block
    /\ d # Depth => t.tail = s.tail /\ t.jumped = s.jumped
    /\ d = Depth => t.tail = "ended" /\ t.jumped = IF Reached THEN j ELSE s.jumped
    /\ t.breaks = IF d = L /\ j = "break" THEN s.breaks \union exits ELSE s.breaks
    /\ t.continues = IF d = L /\ j = "continue" THEN s.continues \union exits ELSE s.continues

\* What break or continue does to the scopes inside a loop.
LEMMA HandedStack ==
    ASSUME Typed, NEW j \in {"break", "continue"}, NEW L,
           stack' = [d \in 1..Depth |->
                         LET s == IF d = Depth THEN Jump(j) ELSE stack[d] IN
                         IF d # L THEN s
                         ELSE IF j = "break" THEN [s EXCEPT !.breaks = @ \union exits]
                         ELSE [s EXCEPT !.continues = @ \union exits]]
    PROVE  /\ stack' \in Seq(Scope) /\ Len(stack') = Depth
           /\ \A d \in 1..Depth : Handed(j, L, d, stack[d], stack'[d])
<1>0. Depth \in Nat /\ exits \in SUBSET Dangle /\ Cur = stack[Depth]
  BY CurIs DEF Typed, Cur
<1>1. ASSUME NEW d \in 1..Depth PROVE stack'[d] \in Scope /\ Handed(j, L, d, stack[d], stack'[d])
  <2>1. PICK s : s = IF d = Depth THEN Jump(j) ELSE stack[d]
    OBVIOUS
  <2>2. stack[d] \in Scope
    BY CurIs
  <2>3. /\ s \in Scope /\ Core(stack[d], s) /\ Jumps(stack[d], s) /\ Loops(stack[d], s) /\ s.vars = stack[d].vars
        /\ s.block = stack[d].block /\ (d # Depth => s = stack[d])
        /\ d = Depth => s.tail = "ended" /\ s.jumped = IF Reached THEN j ELSE stack[d].jumped
    <3>1. CASE d = Depth
      <4>1. s = Jump(j) /\ stack[d] = Cur
        BY <1>0, <2>1, <3>1
      <4> QED BY <3>1, <4>1, JumpIs
    <3>2. CASE d # Depth
      BY <2>1, <2>2, <3>2, SelfIs
    <3> QED BY <3>1, <3>2
  <2>4. stack'[d] = IF d # L THEN s ELSE IF j = "break" THEN [s EXCEPT !.breaks = @ \union exits]
                         ELSE [s EXCEPT !.continues = @ \union exits]
    BY <2>1
  <2>5. PICK u : u = stack[d]
    OBVIOUS
  <2>6. PICK t : t = stack'[d]
    OBVIOUS
  <2>10. /\ Core(u, s) /\ Jumps(u, s) /\ s.breaks = u.breaks /\ s.continues = u.continues /\ s.vars = u.vars
         /\ s.block = u.block /\ (d # Depth => s.tail = u.tail /\ s.jumped = u.jumped)
         /\ d = Depth => s.tail = "ended" /\ s.jumped = IF Reached THEN j ELSE u.jumped
    BY <2>3, <2>5 DEF Loops
  <2>7. CASE d # L
    <3>1. t = s
      BY <2>4, <2>6, <2>7
    <3>2. Handed(j, L, d, u, t)
      BY <2>7, <2>10, <3>1 DEF Handed
    <3> QED BY <2>3, <2>5, <2>6, <3>1, <3>2
  <2>8. CASE d = L /\ j = "break"
    <3>1. t = [s EXCEPT !.breaks = @ \union exits]
      BY <2>4, <2>6, <2>8
    <3>2. t \in Scope /\ Core(s, t) /\ Jumps(s, t) /\ t.vars = s.vars /\ t.block = s.block /\ t.tail = s.tail /\ t.jumped = s.jumped /\ t.breaks = s.breaks \union exits /\ t.continues = s.continues
      BY <1>0, <2>3, <3>1 DEF Scope, Core, Jumps
    <3>3. Core(u, t) /\ Jumps(u, t)
      BY <2>10, <3>2 DEF Core, Jumps
    <3>4. Handed(j, L, d, u, t)
      BY <2>8, <2>10, <3>2, <3>3 DEF Handed
    <3> QED BY <2>5, <2>6, <3>2, <3>4
  <2>9. CASE d = L /\ j = "continue"
    <3>1. t = [s EXCEPT !.continues = @ \union exits]
      BY <2>4, <2>6, <2>9
    <3>2. t \in Scope /\ Core(s, t) /\ Jumps(s, t) /\ t.vars = s.vars /\ t.block = s.block /\ t.tail = s.tail /\ t.jumped = s.jumped /\ t.breaks = s.breaks /\ t.continues = s.continues \union exits
      BY <1>0, <2>3, <3>1 DEF Scope, Core, Jumps
    <3>3. Core(u, t) /\ Jumps(u, t)
      BY <2>10, <3>2 DEF Core, Jumps
    <3>4. Handed(j, L, d, u, t)
      BY <2>9, <2>10, <3>2, <3>3 DEF Handed
    <3> QED BY <2>5, <2>6, <3>2, <3>4
  <2> QED BY <2>7, <2>8, <2>9
<1>2. stack' \in [1..Depth -> Scope]
  BY <1>1
<1>3. stack' \in Seq(Scope) /\ Len(stack') = Depth
  <2>1. PICK n \in Nat : n = Depth
    BY <1>0
  <2>2. stack' \in [1..n -> Scope]
    BY <1>2, <2>1
  <2>3. stack' \in Seq(Scope)
    BY <2>2, SeqDef
  <2>4. DOMAIN stack' = 1..Len(stack') /\ DOMAIN stack' = 1..n /\ Len(stack') \in Nat
    BY <2>2, <2>3, LenProperties
  <2> QED BY <2>1, <2>3, <2>4
<1> QED BY <1>1, <1>3

\* The same of the action.
LEMMA LoopJumpStack ==
    ASSUME Typed, NEW j \in {"break", "continue"}, NEW x, x # Nil, BreakOrContinue(j, x), LoopDepths # {}, NEW L, L = InnerLoop
    PROVE  /\ stack' \in Seq(Scope) /\ Len(stack') = Depth
           /\ \A d \in 1..Depth : Handed(j, L, d, stack[d], stack'[d])
<1>1. stack' = [d \in 1..Depth |->
                  LET s == IF d = Depth THEN Jump(j) ELSE stack[d] IN
                  IF d # L THEN s
                  ELSE IF j = "break" THEN [s EXCEPT !.breaks = @ \union exits]
                  ELSE [s EXCEPT !.continues = @ \union exits]]
  BY DEF BreakOrContinue
<1> QED BY <1>1, HandedStack

\* A scope that has just been opened.
Opened(s, t, k, b) ==
    /\ t.kind = k /\ t.block = b /\ t.first = b /\ Jumps(s, t)
    /\ t.tail = "first" /\ t.jumped = "no" /\ t.vars = {} /\ t.breaks = {} /\ t.continues = {} /\ t.post = 0

\* What opening an if does to the scopes.
LEMMA OpenIfStack ==
    ASSUME Typed, OpenIf, NEW t, t = stack'[Depth + 1]
    PROVE  /\ stack' \in Seq(Scope) /\ Len(stack') = Depth + 1 /\ \A d \in 1..Depth : stack'[d] = stack[d]
           /\ Opened(Cur, t, "if", N + 1) /\ t.point = points + 1
           /\ t.saved = IF Reached THEN {<<points + 1, "false">>} ELSE {}
<1>0. Cur \in Scope /\ points + 1 \in Nat /\ N + 1 \in Nat /\ stack \in Seq(Scope) /\ Depth \in Nat
  BY CurIs, BlockIs DEF Typed
<1>1. PICK p, n, x : p \in Nat /\ n \in Nat /\ p = points + 1 /\ n = N + 1 /\ x = IF Reached THEN {<<p, "false">>} ELSE {}
  BY <1>0
<1>2. x \in SUBSET Dangle
  BY <1>1 DEF Dangle, Labels
<1>3. PICK r : r = [AddChildScope("if", n, Cur) EXCEPT !.point = p, !.saved = x]
  OBVIOUS
<1>4. stack' = Append(stack, r)
  BY <1>1, <1>3 DEF OpenIf, N
<1>5. r \in Scope /\ Opened(Cur, r, "if", n) /\ r.point = p /\ r.saved = x
  BY <1>0, <1>1, <1>2, <1>3, ZenonT(30) DEF Scope, Kinds, AddChildScope, Opened, Jumps, Nil
<1>6. stack' \in Seq(Scope) /\ Len(stack') = Depth + 1 /\ stack'[Depth + 1] = r /\ \A d \in 1..Depth : stack'[d] = stack[d]
  BY <1>0, <1>4, <1>5, AppendProperties DEF Depth
<1> QED BY <1>1, <1>5, <1>6

\* if/else and for move the scope they stand in to their last block
LEMMA OpenIfElseStack ==
    ASSUME Typed, OpenIfElse, NEW s, s = stack'[Depth], NEW t, t = stack'[Depth + 1]
    PROVE  /\ stack' \in Seq(Scope) /\ Len(stack') = Depth + 1 /\ \A d \in 1..Depth : d # Depth => stack'[d] = stack[d]
           /\ Core(Cur, s) /\ Jumps(Cur, s) /\ Loops(Cur, s) /\ s.block = N + 3
           /\ s.tail = Cur.tail /\ s.jumped = Cur.jumped /\ s.vars = Cur.vars
           /\ Opened(s, t, "then", N + 1) /\ t.point = points + 1 /\ t.cond = N + 2 /\ t.end = N + 3 /\ t.saved = {}
<1>0. Cur \in Scope /\ points + 1 \in Nat /\ N \in Nat
  BY CurIs, BlockIs DEF Typed
<1>1. PICK p \in Nat, n1 \in Nat, n2 \in Nat, n3 \in Nat : p = points + 1 /\ n1 = N + 1 /\ n2 = N + 2 /\ n3 = N + 3
  BY <1>0
<1>2. PICK q : q = [Cur EXCEPT !.block = n3]
  OBVIOUS
<1>3. q \in Scope /\ Core(Cur, q) /\ Jumps(Cur, q) /\ Loops(Cur, q) /\ q.block = n3 /\ q.tail = Cur.tail /\ q.jumped = Cur.jumped /\ q.vars = Cur.vars
  BY <1>0, <1>2 DEF Scope, Core, Jumps, Loops
<1>4. PICK r : r = [AddChildScope("then", n1, q) EXCEPT !.point = p, !.cond = n2, !.end = n3]
  OBVIOUS
<1>5. r \in Scope /\ Opened(q, r, "then", n1) /\ r.point = p /\ r.cond = n2 /\ r.end = n3 /\ r.saved = {}
  BY <1>3, <1>4 DEF Scope, Kinds, AddChildScope, Opened, Jumps, Nil
<1>6. stack' = Append([stack EXCEPT ![Depth] = q], r)
  <2>1. (Len(blocks) + 1) + 1 = n2 /\ (Len(blocks) + 1) + 2 = n3 /\ Len(blocks) + 1 = n1
    BY <1>0, <1>1 DEF N
  <2> QED BY <1>1, <1>2, <1>4, <2>1 DEF OpenIfElse
<1>7. /\ stack' \in Seq(Scope) /\ Len(stack') = Depth + 1 /\ stack'[Depth] = q /\ stack'[Depth + 1] = r
      /\ \A d \in 1..Depth : d # Depth => stack'[d] = stack[d]
  BY <1>3, <1>5, <1>6, PushIs
<1> QED BY <1>1, <1>3, <1>5, <1>7

\* What going on to the else branch does to the scopes.
LEMMA ElseStack ==
    ASSUME Typed, Else, NEW t, t = stack'[Depth]
    PROVE  /\ stack' \in Seq(Scope) /\ Len(stack') = Depth /\ \A d \in 1..Depth : d # Depth => stack'[d] = stack[d]
           /\ Opened(Parent, t, "else", Cur.cond)
           /\ t.point = Cur.point /\ t.cond = Cur.first /\ t.end = Cur.end /\ t.saved = exits
<1>0. Cur \in Scope /\ Depth \in Nat /\ Depth > 1 /\ Depth - 1 \in 1..Depth /\ exits \in SUBSET Dangle
  BY CurIs DEF Typed, Else
<1>1. Parent \in Scope
  BY <1>0, CurIs DEF Parent
<1>2. PICK r : r = [AddChildScope("else", Cur.cond, Parent) EXCEPT
                       !.point = Cur.point, !.cond = Cur.first, !.end = Cur.end, !.saved = exits]
  OBVIOUS
<1>3. r \in Scope /\ Opened(Parent, r, "else", Cur.cond) /\ r.point = Cur.point /\ r.cond = Cur.first /\ r.end = Cur.end /\ r.saved = exits
  BY <1>0, <1>1, <1>2 DEF Scope, Kinds, AddChildScope, Opened, Jumps, Nil
<1>4. SetCur(r)
  BY <1>2 DEF Else, SetCur
<1>5. stack' \in Seq(Scope) /\ Len(stack') = Depth /\ stack'[Depth] = r /\ \A d \in 1..Depth : d # Depth => stack'[d] = stack[d]
  BY <1>3, <1>4, SetCurIs
<1> QED BY <1>3, <1>5

\* The scope a loop stands in, and the one of its body, when the loop is opened.
Around(s) ==
    /\ Core(Cur, s) /\ Loops(Cur, s) /\ s.block = N + 3 /\ s.tail = Cur.tail /\ s.jumped = Cur.jumped /\ s.vars = Cur.vars
    /\ s.stale = TRUE /\ s.breakBlock = N + 3 /\ s.continueBlock = N + 1
\* the scope of the body
Looped(form, t) ==
    /\ t.kind = "body" /\ t.block = N + 2 /\ t.first = N + 2 /\ t.cond = N + 1 /\ t.end = N + 3 /\ t.form = form
    /\ t.breakBlock = N + 3 /\ t.continueBlock = N + 1 /\ t.stale = FALSE
    /\ t.tail = "first" /\ t.jumped = "no" /\ t.breaks = {} /\ t.continues = {}
    /\ t.vars = (IF "def" \in form THEN {points + 1} ELSE {})
    /\ t.point = (IF "def" \in form THEN points + 2 ELSE points + 1) /\ t.post = (IF "step" \in form THEN t.point + 1 ELSE 0)
    /\ t.saved = IF Reached /\ "cond" \in form THEN {<<t.point, "false">>} ELSE {}

\* What opening a loop does to the scopes.
LEMMA OpenForStack ==
    ASSUME Typed, NEW form \in Forms, OpenFor(form), NEW s, s = stack'[Depth], NEW t, t = stack'[Depth + 1]
    PROVE  /\ stack' \in Seq(Scope) /\ Len(stack') = Depth + 1 /\ \A d \in 1..Depth : d # Depth => stack'[d] = stack[d]
           /\ Around(s) /\ Looped(form, t)
<1>15. PICK c : c = IF "def" \in form THEN points + 2 ELSE points + 1
  OBVIOUS
<1>0. Cur \in Scope /\ points + 1 \in Nat /\ N \in Nat /\ c \in Nat /\ points \in Nat
  BY CurIs, BlockIs, <1>15 DEF Typed
<1>1. PICK n1 \in Nat, n2 \in Nat, n3 \in Nat : n1 = N + 1 /\ n2 = N + 2 /\ n3 = N + 3
  BY <1>0
<1>2. PICK post, v, x : /\ post = (IF "step" \in form THEN c + 1 ELSE 0) /\ v = (IF "def" \in form THEN {points + 1} ELSE {})
                      /\ x = IF Reached /\ "cond" \in form THEN {<<c, "false">>} ELSE {}
  OBVIOUS
<1>3. x \in SUBSET Dangle
  BY <1>0, <1>2 DEF Dangle, Labels
<1>12. post \in Nat
  BY <1>0, <1>2
<1>13. v \in SUBSET Nat
  BY <1>0, <1>2
<1>14. form \in {{}} \union Forms
  OBVIOUS
<1>4. PICK q : q = [SetTargets(Cur, n1, n3) EXCEPT !.block = n3, !.stale = TRUE]
  OBVIOUS
<1>5. /\ q \in Scope /\ Core(Cur, q) /\ Loops(Cur, q) /\ q.block = n3 /\ q.tail = Cur.tail /\ q.jumped = Cur.jumped /\ q.vars = Cur.vars
      /\ q.stale = TRUE /\ q.breakBlock = n3 /\ q.continueBlock = n1
  BY <1>0, <1>4 DEF Scope, Core, Loops, SetTargets
<1>6. PICK r : r = [AddChildScope("body", n2, q) EXCEPT
                      !.stale = FALSE, !.vars = v, !.cond = n1, !.end = n3,
                      !.form = form, !.point = c, !.post = post, !.saved = x]
  OBVIOUS
<1>7. r \in Scope
  <2>1. PICK a : a = AddChildScope("body", n2, q)
    OBVIOUS
  <2>2. a \in Scope
    BY <1>1, <1>5, <2>1 DEF Scope, Kinds, AddChildScope, Nil
  <2>3. r = [a EXCEPT !.stale = FALSE, !.vars = v, !.cond = n1, !.end = n3,
                      !.form = form, !.point = c, !.post = post, !.saved = x]
    BY <1>6, <2>1
  <2>4. PICK a1 : a1 = [a EXCEPT !.stale = FALSE, !.vars = v, !.cond = n1, !.end = n3]
    OBVIOUS
  <2>5. a1 \in Scope
    BY <1>1, <1>13, <2>2, <2>4 DEF Scope
  <2>6. PICK a2 : a2 = [a1 EXCEPT !.form = form]
    OBVIOUS
  <2>7. a2 \in Scope
    BY <1>14, <2>5, <2>6 DEF Scope
  <2>8. PICK a3 : a3 = [a2 EXCEPT !.point = c, !.post = post, !.saved = x]
    OBVIOUS
  <2>9. a3 \in Scope
    BY <1>0, <1>3, <1>12, <2>7, <2>8 DEF Scope
  <2>10. r = a3
    BY <2>3, <2>4, <2>6, <2>8
  <2> QED BY <2>9, <2>10
<1>8. /\ r.kind = "body" /\ r.block = n2 /\ r.first = n2 /\ r.cond = n1 /\ r.end = n3 /\ r.form = form
      /\ r.breakBlock = n3 /\ r.continueBlock = n1 /\ r.stale = FALSE
      /\ r.tail = "first" /\ r.jumped = "no" /\ r.breaks = {} /\ r.continues = {}
      /\ r.vars = v /\ r.point = c /\ r.post = post /\ r.saved = x
  BY <1>5, <1>6 DEF AddChildScope
<1>9. stack' = Append([stack EXCEPT ![Depth] = q], r)
  <2>1. (Len(blocks) + 1) + 1 = n2 /\ (Len(blocks) + 1) + 2 = n3 /\ Len(blocks) + 1 = n1
    BY <1>0, <1>1 DEF N
  <2> QED BY <1>15, <1>2, <1>4, <1>6, <2>1 DEF OpenFor
<1>10. /\ stack' \in Seq(Scope) /\ Len(stack') = Depth + 1 /\ stack'[Depth] = q /\ stack'[Depth + 1] = r
      /\ \A d \in 1..Depth : d # Depth => stack'[d] = stack[d]
  BY <1>5, <1>7, <1>9, PushIs
<1>11. s = q /\ t = r
  BY <1>10
<1>16. /\ t.point = (IF "def" \in form THEN points + 2 ELSE points + 1) /\ t.post = (IF "step" \in form THEN t.point + 1 ELSE 0)
       /\ t.saved = IF Reached /\ "cond" \in form THEN {<<t.point, "false">>} ELSE {}
  BY <1>0, <1>2, <1>8, <1>11, <1>15
<1>17. Around(s)
  BY <1>1, <1>5, <1>11 DEF Around
<1>18. Looped(form, t)
  BY <1>1, <1>2, <1>8, <1>11, <1>16 DEF Looped
<1> QED BY <1>10, <1>17, <1>18

\* the end of an if, if/else or for
LEMMA PopStack ==
    ASSUME Typed, Depth > 1, NEW b \in Nat, NEW x \in {"if", "open"}, Pop(b, x), NEW s, s = stack'[Depth - 1]
    PROVE  /\ stack' \in Seq(Scope) /\ Len(stack') = Depth - 1
           /\ \A d \in 1..(Depth - 2) : stack'[d] = stack[d]
           /\ Core(Parent, s) /\ Jumps(Parent, s) /\ Loops(Parent, s)
           /\ s.block = b /\ s.tail = x /\ s.jumped = Parent.jumped /\ s.vars = Parent.vars
<1>1. Depth \in Nat /\ Depth - 1 \in 1..Depth
  BY CurIs
<1>2. Parent \in Scope
  BY <1>1, CurIs DEF Parent
<1>3. stack' \in Seq(Scope) /\ Len(stack') = Depth - 1 /\ (\A d \in 1..(Depth - 2) : stack'[d] = stack[d]) /\ s = Moved(Parent, b, x)
  BY PopIs DEF Parent
<1>4. /\ Core(Parent, s) /\ Jumps(Parent, s) /\ Loops(Parent, s)
      /\ s.block = b /\ s.tail = x /\ s.jumped = Parent.jumped /\ s.vars = Parent.vars
  BY <1>2, <1>3 DEF Scope, Core, Jumps, Loops, Moved
<1> QED BY <1>3, <1>4

\* The types of everything but the blocks and scopes.
Scalars ==
    /\ mode \in {"func", "gen", "async"} /\ phase \in {"compile", "done", "error"}
    /\ points \in Nat /\ exits \in SUBSET Dangle /\ flow \in SUBSET (Nat \X Labels \X Int)
    /\ defs \in SUBSET Nat /\ odd \in BOOLEAN

LEMMA ScalarsIs == Typed => Scalars
  BY DEF Typed, Scalars

\* New edges have their type.
LEMMA ToIs == ASSUME Scalars, NEW q \in Int PROVE To(q) \in SUBSET (Nat \X Labels \X Int)
<1>1. ASSUME NEW e \in exits PROVE <<e[1], e[2], q>> \in Nat \X Labels \X Int
  BY DEF Scalars, Dangle
<1> QED BY <1>1 DEF To

\* New exits have their type.
LEMMA DangleIs == ASSUME NEW p \in Nat, NEW l \in Labels, NEW x, x = IF Reached THEN {<<p, l>>} ELSE {} PROVE x \in SUBSET Dangle
  BY DEF Dangle

\* The labels.
LEMMA LabelsAre == "next" \in Labels /\ "true" \in Labels /\ "false" \in Labels /\ "resume" \in Labels
  BY DEF Labels

\* Every step keeps the types of Scalars.
LEMMA ScalarsNext == Typed /\ [Next]_vars => Scalars'
<1> SUFFICES ASSUME Typed, [Next]_vars PROVE Scalars'
  OBVIOUS
<1>0. Scalars /\ points + 1 \in Nat /\ points + 2 \in Nat /\ points + 3 \in Nat
  BY ScalarsIs DEF Scalars
<1>c. Cur \in Scope
  BY CurIs
<1> DEFINE F == Nat \X Labels \X Int
<1>F. flow \in SUBSET F
  BY <1>0 DEF Scalars
<1>T. \A q \in Int : To(q) \in SUBSET F
  BY <1>0, ToIs
<1> HIDE DEF F
<1>o. Dead \in BOOLEAN /\ Reached \in BOOLEAN
  BY DEF Dead, Reached
<1>p. PICK p \in Nat : p = points + 1
  BY <1>0
<1>n. \A l \in Labels : (IF Reached THEN {<<p, l>>} ELSE {}) \in SUBSET Dangle
  BY DangleIs
<1>1. ASSUME NEW isDef \in BOOLEAN, Statement(isDef) PROVE Scalars'
  <2>1. flow' \in SUBSET F /\ exits' \in SUBSET Dangle
    BY <1>1, <1>p, <1>F, <1>T, <1>n, LabelsAre DEF Statement
  <2>2. defs' \in SUBSET Nat
    BY <1>1, <1>0 DEF Statement, Scalars
  <2>3. odd' \in BOOLEAN
    BY <1>1 DEF Statement
  <2> QED BY <1>1, <1>0, <2>1, <2>2, <2>3 DEF Statement, Scalars, F
<1>2. ASSUME Suspend PROVE Scalars'
  <2>1. flow' \in SUBSET F /\ exits' \in SUBSET Dangle
    BY <1>2, <1>p, <1>F, <1>T, <1>n, LabelsAre DEF Suspend
  <2>3. odd' \in BOOLEAN
    BY <1>2 DEF Suspend
  <2> QED BY <1>2, <1>0, <2>1, <2>3 DEF Suspend, Scalars, F
<1>3. ASSUME Ret PROVE Scalars'
  <2>1. flow' \in SUBSET F /\ exits' \in SUBSET Dangle
    BY <1>3, <1>F, <1>T DEF Ret, Exit
  <2> QED BY <1>3, <1>0, <2>1 DEF Ret, Scalars, F
<1>4. ASSUME NEW j, NEW x, BreakOrContinue(j, x) PROVE Scalars'
  <2>1. flow' \in SUBSET F
    BY <1>4, <1>F, <1>T DEF BreakOrContinue, Stray
  <2>2. exits' \in SUBSET Dangle
    BY <1>4, <1>0 DEF BreakOrContinue, Scalars
  <2>3. odd' \in BOOLEAN
    BY <1>4, <1>0 DEF BreakOrContinue, Scalars
  <2> QED BY <1>4, <1>0, <2>1, <2>2, <2>3 DEF BreakOrContinue, Scalars, F
<1>5. ASSUME OpenIf PROVE Scalars'
  <2>1. flow' \in SUBSET F /\ exits' \in SUBSET Dangle
    BY <1>5, <1>p, <1>F, <1>T, <1>n, LabelsAre DEF OpenIf
  <2>3. odd' \in BOOLEAN
    BY <1>5 DEF OpenIf
  <2> QED BY <1>5, <1>0, <2>1, <2>3 DEF OpenIf, Scalars, F
<1>6. ASSUME CloseIf PROVE Scalars'
  <2>1. exits' \in SUBSET Dangle
    BY <1>6, <1>c, <1>0 DEF CloseIf, Scalars, Scope
  <2>3. odd' \in BOOLEAN
    BY <1>6 DEF CloseIf
  <2> QED BY <1>6, <1>0, <2>1, <2>3 DEF CloseIf, Scalars
<1>7. ASSUME OpenIfElse PROVE Scalars'
  <2>1. flow' \in SUBSET F /\ exits' \in SUBSET Dangle
    BY <1>7, <1>p, <1>F, <1>T, <1>n, LabelsAre DEF OpenIfElse
  <2>3. odd' \in BOOLEAN
    BY <1>7 DEF OpenIfElse
  <2> QED BY <1>7, <1>0, <2>1, <2>3 DEF OpenIfElse, Scalars, F
<1>8. ASSUME Else PROVE Scalars'
  <2>1. exits' \in SUBSET Dangle
    <3>1. Cur.point \in Nat
      BY <1>c DEF Scope
    <3>2. <<Cur.point, "false">> \in Dangle
      BY <3>1, LabelsAre DEF Dangle
    <3>3. exits' = IF Came THEN {<<Cur.point, "false">>} ELSE {}
      BY <1>8 DEF Else
    <3> QED BY <3>2, <3>3
  <2>3. odd' \in BOOLEAN
    BY <1>8 DEF Else
  <2> QED BY <1>8, <1>0, <2>1, <2>3 DEF Else, Scalars
<1>9. ASSUME CloseIfElse PROVE Scalars'
  <2>1. exits' \in SUBSET Dangle
    BY <1>9, <1>c, <1>0 DEF CloseIfElse, Scalars, Scope
  <2>3. odd' \in BOOLEAN
    BY <1>9 DEF CloseIfElse
  <2> QED BY <1>9, <1>0, <2>1, <2>3 DEF CloseIfElse, Scalars
<1>10. ASSUME NEW form \in Forms, OpenFor(form) PROVE Scalars'
  <2>1. PICK c \in Nat : c = IF "def" \in form THEN points + 2 ELSE points + 1
    BY <1>0
  <2>2. exits' = IF Reached THEN {<<c, IF "cond" \notin form THEN "next" ELSE "true">>} ELSE {}
    BY <1>10, <2>1 DEF OpenFor
  <2>3. exits' \in SUBSET Dangle
    BY <2>1, <2>2, LabelsAre DEF Dangle
  <2>4. flow' = flow \union (IF "def" \in form /\ Reached THEN To(c - 1) \union {<<c - 1, "next", c>>} ELSE To(c))
    BY <1>10, <2>1 DEF OpenFor
  <2>5. c \in Int /\ c - 1 \in Int /\ ("def" \in form => c - 1 \in Nat)
    <3>1. points \in Nat
      BY <1>0 DEF Scalars
    <3> QED BY <2>1, <3>1
  <2>6. "def" \in form => <<c - 1, "next", c>> \in F
    BY <2>5, LabelsAre DEF F
  <2>7. flow' \in SUBSET F
    BY <2>4, <2>5, <2>6, <1>T, <1>F
  <2>8. points' \in Nat
    BY <1>10, <1>0 DEF OpenFor
  <2>9. defs' \in SUBSET Nat
    BY <1>10, <1>0 DEF OpenFor, Scalars
  <2>10. odd' \in BOOLEAN
    BY <1>10 DEF OpenFor
  <2> QED BY <1>10, <1>0, <2>3, <2>7, <2>8, <2>9, <2>10 DEF OpenFor, Scalars, F
<1>11. ASSUME CloseFor PROVE Scalars'
  <2>1. exits' \in SUBSET Dangle
    BY <1>11, <1>c DEF CloseFor, Scope
  <2>2. PICK out, back : /\ out = exits \union Cur.continues
                         /\ back = IF out # {} /\ "step" \in Cur.form THEN {<<Cur.post, "next">>} ELSE out
    OBVIOUS
  <2>3. out \in SUBSET Dangle /\ back \in SUBSET Dangle
    <3>1. Cur.post \in Nat /\ Cur.continues \in SUBSET Dangle
      BY <1>c DEF Scope
    <3>2. <<Cur.post, "next">> \in Dangle
      BY <3>1, LabelsAre DEF Dangle
    <3>3. exits \in SUBSET Dangle
      BY <1>0 DEF Scalars
    <3> QED BY <2>2, <3>1, <3>2, <3>3
  <2>4. \A X \in SUBSET Dangle : \A q \in Nat : {<<e[1], e[2], q>> : e \in X} \in SUBSET F
    BY DEF F, Dangle
  <2>5. flow' = flow \union {<<e[1], e[2], Cur.point>> : e \in back}
                    \union (IF "step" \in Cur.form THEN {<<e[1], e[2], Cur.post>> : e \in out} ELSE {})
    BY <1>11, <2>2 DEF CloseFor
  <2>6. Cur.point \in Nat /\ Cur.post \in Nat
    BY <1>c DEF Scope
  <2>7. flow' \in SUBSET F
    BY <1>F, <2>3, <2>4, <2>5, <2>6
  <2>8. odd' \in BOOLEAN
    BY <1>11 DEF CloseFor
  <2> QED BY <1>11, <1>0, <2>1, <2>7, <2>8 DEF CloseFor, Scalars, F
<1>12. ASSUME Finish PROVE Scalars'
  <2>1. flow' \in SUBSET F
    BY <1>12, <1>F, <1>T DEF Finish, Exit
  <2>2. exits' \in SUBSET Dangle /\ odd' \in BOOLEAN
    BY <1>12 DEF Finish
  <2> QED BY <1>12, <1>0, <2>1, <2>2 DEF Finish, Scalars, F
<1>13. ASSUME Ended \/ UNCHANGED vars PROVE Scalars'
  BY <1>13, <1>0 DEF Ended, vars, Scalars
<1> QED BY <1>1, <1>2, <1>3, <1>4, <1>5, <1>6, <1>7, <1>8, <1>9, <1>10, <1>11, <1>12, <1>13 DEF Next, Break, Continue

\* More blocks do no harm.
LEMMA FitsGrow == ASSUME NEW s, NEW n \in Nat, NEW k \in Nat, n <= k, Fits(s, n) PROVE Fits(s, k)
  BY DEF Fits

\* A scope that goes on still fits.
LEMMA FitsLike ==
    ASSUME NEW s, NEW t, NEW n \in Nat, NEW k \in Nat, n <= k, Fits(s, n), Core(s, t), Jumps(s, t), t.block \in 1..k
    PROVE  Fits(t, k)
  BY DEF Fits, Core, Jumps

\* A scope that is opened fits.
LEMMA FitsOpened ==
    ASSUME NEW s, NEW t, NEW n \in Nat, NEW k \in Nat, n <= k, Fits(s, n), NEW kind, NEW b \in 1..k, Opened(s, t, kind, b),
           kind = "if" \/ (t.cond \in 1..k /\ t.end \in 1..k)
    PROVE  Fits(t, k)
  BY DEF Fits, Opened, Jumps

\* Steps that keep the depth: the scopes below keep, the current one fits.
LEMMA RangedTop ==
    ASSUME Ranged, Scalars', NEW k \in Nat, Good(blocks', k), Len(blocks') = k, k >= N,
           stack' \in Seq(Scope), Len(stack') = Depth, \A d \in 1..Depth : d # Depth => stack'[d] = stack[d],
           Fits(stack'[Depth], k)
    PROVE  Ranged'
<1>1. N \in Nat /\ Depth \in Nat /\ Depth >= 1 /\ Depth <= N
  BY BlockIs, CurIs DEF Ranged
<1>2. \A d \in 1..Depth : Fits(stack'[d], k)
  BY <1>1, ScopeFits, FitsGrow
<1>3. GoodScopes(stack', k) /\ stack' # <<>>
  BY <1>1, <1>2, EmptySeq DEF GoodScopes
<1>4. N' = k /\ Depth' = Depth
  BY DEF N, Depth
<1>5. blocks' \in Seq(Block)
  BY DEF Good
<1>6. Typed'
  BY <1>3, <1>5 DEF Typed, Scalars
<1> QED BY <1>1, <1>3, <1>4, <1>6 DEF Ranged

\* Steps that open a scope.
LEMMA RangedPush ==
    ASSUME Ranged, Scalars', NEW k \in Nat, Good(blocks', k), Len(blocks') = k, k > N,
           stack' \in Seq(Scope), Len(stack') = Depth + 1, \A d \in 1..Depth : d # Depth => stack'[d] = stack[d],
           Fits(stack'[Depth], k), Fits(stack'[Depth + 1], k)
    PROVE  Ranged'
<1>1. N \in Nat /\ Depth \in Nat /\ Depth >= 1 /\ Depth <= N
  BY BlockIs, CurIs DEF Ranged
<1>2. \A d \in 1..(Depth + 1) : Fits(stack'[d], k)
  <2>1. \A d \in 1..Depth : Fits(stack[d], k)
    BY <1>1, ScopeFits, FitsGrow
  <2> QED BY <1>1, <2>1
<1>3. GoodScopes(stack', k) /\ stack' # <<>>
  BY <1>1, <1>2, EmptySeq DEF GoodScopes
<1>4. N' = k /\ Depth' = Depth + 1
  BY DEF N, Depth
<1>5. blocks' \in Seq(Block)
  BY DEF Good
<1>6. Typed'
  BY <1>3, <1>5 DEF Typed, Scalars
<1> QED BY <1>1, <1>3, <1>4, <1>6 DEF Ranged

\* Steps that close a scope.
LEMMA RangedPop ==
    ASSUME Ranged, Scalars', Depth > 1, NEW k \in Nat, Good(blocks', k), Len(blocks') = k, k >= N,
           NEW b \in 1..k, NEW x \in {"if", "open"}, Pop(b, x)
    PROVE  Ranged'
<1>1. N \in Nat /\ Depth \in Nat /\ Depth >= 1 /\ Depth <= N /\ Typed /\ b \in Nat /\ Depth - 1 \in 1..Depth
  BY BlockIs, CurIs DEF Ranged
<1>2. PICK s : s = stack'[Depth - 1]
  OBVIOUS
<1>3. /\ stack' \in Seq(Scope) /\ Len(stack') = Depth - 1
      /\ \A d \in 1..(Depth - 2) : stack'[d] = stack[d]
      /\ Core(Parent, s) /\ Jumps(Parent, s) /\ s.block = b
  BY <1>1, <1>2, PopStack
<1>4. Fits(Parent, N)
  BY <1>1, ScopeFits DEF Parent
<1>5. Fits(s, k)
  BY <1>1, <1>3, <1>4, FitsLike
<1>6. \A d \in 1..(Depth - 1) : Fits(stack'[d], k)
  <2>1. ASSUME NEW d \in 1..(Depth - 1), d # Depth - 1 PROVE Fits(stack'[d], k)
    <3>1. d \in 1..(Depth - 2) /\ d \in 1..Depth
      BY <1>1, <2>1
    <3> QED BY <1>1, <1>3, <3>1, ScopeFits, FitsGrow
  <2> QED BY <1>2, <1>5, <2>1
<1>7. GoodScopes(stack', k) /\ stack' # <<>>
  BY <1>1, <1>3, <1>6, EmptySeq DEF GoodScopes
<1>8. N' = k /\ Depth' = Depth - 1
  BY <1>3 DEF N, Depth
<1>9. blocks' \in Seq(Block)
  BY DEF Good
<1>10. Typed'
  BY <1>3, <1>7, <1>9 DEF Typed, Scalars
<1> QED BY <1>1, <1>7, <1>8, <1>10 DEF Ranged

\* The types and ranges hold initially.
LEMMA RangedInit == Init => Ranged
<1> SUFFICES ASSUME Init PROVE Ranged
  OBVIOUS
<1>1. Typed
  BY TypedInit
<1>2. blocks = <<NewBlock>> /\ N = 1 /\ blocks[1] = NewBlock
  BY DEF Init, N
<1>3. PICK s : s = AddChildScope("fn", 1, [breakBlock |-> Nil, continueBlock |-> Nil, stale |-> FALSE])
  OBVIOUS
<1>4. stack = <<s>> /\ Depth = 1 /\ stack[1] = s
  BY <1>3 DEF Init, Depth
<1>5. Fits(s, 1)
  <2>1. s.block = 1 /\ s.first = 1 /\ s.breakBlock = 0 /\ s.continueBlock = 0 /\ s.kind = "fn"
    BY <1>3 DEF AddChildScope, Nil
  <2> QED BY <2>1 DEF Fits
<1>6. Aims(NewBlock.to, 1)
  BY NewIs, AimsAt
<1>7. blocks \in Seq(Block) /\ stack \in Seq(Scope)
  BY <1>1 DEF Typed
<1>8. Len(blocks) = 1 /\ Len(stack) = 1
  BY <1>2, <1>4 DEF N, Depth
<1>9. Good(blocks, 1)
  BY <1>2, <1>6, <1>7, <1>8 DEF Good
<1>10. GoodScopes(stack, 1)
  BY <1>4, <1>5, <1>7, <1>8 DEF GoodScopes
<1> QED BY <1>1, <1>2, <1>4, <1>9, <1>10 DEF Ranged

\* Every step keeps the types and ranges.
LEMMA RangedNext == Ranged /\ [Next]_vars => Ranged'
<1> SUFFICES ASSUME Ranged, [Next]_vars PROVE Ranged'
  OBVIOUS
<1>s. Scalars' /\ Typed
  BY ScalarsNext DEF Ranged
<1>n. N \in Nat /\ Len(blocks) = N /\ Good(blocks, N) /\ Depth \in Nat /\ Depth >= 1 /\ points + 1 \in Nat /\ points + 2 \in Nat
  BY <1>s, BlockIs, CurIs DEF N, Ranged, Typed
<1>k1. PICK k, k3, p : k = N + 1 /\ k3 = N + 3 /\ p = points + 1
  OBVIOUS
<1>k. k = N + 1 /\ k3 = N + 3 /\ p = points + 1 /\ k \in Nat /\ k3 \in Nat /\ p \in Nat /\ k > N /\ k3 > N
  BY <1>n, <1>k1
<1>c. PICK c \in 1..N : c = Cur.block
  BY CurFits
<1>cf. Fits(Cur, N) /\ Cur \in Scope
  BY <1>n, ScopeFits DEF Cur
<1>1. ASSUME NEW isDef \in BOOLEAN, Statement(isDef) PROVE Ranged'
  <2>1. blocks' = Emit(blocks, c, p)
    BY <1>1, <1>c, <1>k DEF Statement
  <2>2. Good(blocks', N) /\ Len(blocks') = N
    BY <2>1, <1>n, <1>k, GoodEmit
  <2>3. PICK t : t = stack'[Depth]
    OBVIOUS
  <2>4. /\ stack' \in Seq(Scope) /\ Len(stack') = Depth /\ \A d \in 1..Depth : d # Depth => stack'[d] = stack[d]
        /\ Core(Cur, t) /\ Jumps(Cur, t) /\ t.block = Cur.block
    BY <1>1, <1>s, <2>3, StatementStack
  <2>5. Fits(t, N)
    BY <1>n, <1>c, <1>cf, <2>4, FitsLike
  <2> QED BY <1>n, <1>s, <2>2, <2>3, <2>4, <2>5, RangedTop
<1>2. ASSUME Suspend PROVE Ranged'
  <2>1. PICK b0 : b0 = Append(blocks, NewBlock)
    OBVIOUS
  <2>2. Good(b0, k) /\ Len(b0) = k /\ c \in 1..k /\ k \in 1..k
    <3>1. c \in 1..k /\ k \in 1..k /\ k >= N
      BY <1>n, <1>k
    <3> QED BY <1>n, <1>k, <2>1, <3>1, GoodAdd
  <2>3. PICK b1 : b1 = Emit(b0, c, p)
    OBVIOUS
  <2>4. Good(b1, k) /\ Len(b1) = k
    BY <1>k, <2>2, <2>3, GoodEmit
  <2>5. blocks' = NewYield(b1, c, k)
    BY <1>2, <1>c, <1>k, <1>n, <2>1, <2>3 DEF Suspend
  <2>6. Good(blocks', k) /\ Len(blocks') = k
    BY <2>2, <2>4, <2>5, GoodYield
  <2>7. PICK t, x : t = stack'[Depth] /\ x = "open"
    OBVIOUS
  <2>8. SetCur(Moved(Cur, k, x))
    BY <1>2, <1>k, <1>n, <2>7 DEF Suspend, Moved
  <2>9. /\ stack' \in Seq(Scope) /\ Len(stack') = Depth /\ \A d \in 1..Depth : d # Depth => stack'[d] = stack[d]
        /\ Core(Cur, t) /\ Jumps(Cur, t) /\ t.block = k
    BY <1>s, <1>k, <2>7, <2>8, MovedStack
  <2>10. Fits(t, k)
    BY <1>n, <1>k, <1>cf, <2>2, <2>9, FitsLike
  <2> QED BY <1>n, <1>k, <1>s, <2>6, <2>7, <2>9, <2>10, RangedTop
<1>3. ASSUME Ret, mode = "async" PROVE Ranged'
  <2>1. PICK b0 : b0 = Append(blocks, NewBlock)
    OBVIOUS
  <2>2. Good(b0, k) /\ Len(b0) = k /\ c \in 1..k /\ k \in 1..k
    <3>1. c \in 1..k /\ k \in 1..k /\ k >= N
      BY <1>n, <1>k
    <3> QED BY <1>n, <1>k, <2>1, <3>1, GoodAdd
  <2>3. PICK b1 : b1 = NewRet(b0, c)
    OBVIOUS
  <2>4. Good(b1, k) /\ Len(b1) = k
    BY <2>2, <2>3, GoodRet
  <2>5. blocks' = NewRet(b1, k)
    BY <1>3, <1>c, <1>k, <1>n, <2>1, <2>3 DEF Ret
  <2>6. Good(blocks', k) /\ Len(blocks') = k
    BY <2>2, <2>4, <2>5, GoodRet
  <2>7. PICK t, x : t = stack'[Depth] /\ x = "ended"
    OBVIOUS
  <2>8. SetCur(Moved(Cur, k, x))
    BY <1>3, <1>k, <1>n, <2>7 DEF Ret, Moved
  <2>9. /\ stack' \in Seq(Scope) /\ Len(stack') = Depth /\ \A d \in 1..Depth : d # Depth => stack'[d] = stack[d]
        /\ Core(Cur, t) /\ Jumps(Cur, t) /\ t.block = k
    BY <1>s, <1>k, <2>7, <2>8, MovedStack
  <2>10. Fits(t, k)
    BY <1>n, <1>k, <1>cf, <2>2, <2>9, FitsLike
  <2> QED BY <1>n, <1>k, <1>s, <2>6, <2>7, <2>9, <2>10, RangedTop
<1>4. ASSUME Ret, mode # "async" PROVE Ranged'
  <2>1. blocks' = NewRet(blocks, c)
    BY <1>4, <1>c DEF Ret
  <2>2. Good(blocks', N) /\ Len(blocks') = N
    BY <2>1, <1>n, <1>k, GoodRet
  <2>3. PICK t, j : t = stack'[Depth] /\ j = "ret"
    OBVIOUS
  <2>4. SetCur(Jump(j))
    BY <1>4, <2>3 DEF Ret
  <2>5. /\ stack' \in Seq(Scope) /\ Len(stack') = Depth /\ \A d \in 1..Depth : d # Depth => stack'[d] = stack[d]
        /\ Core(Cur, t) /\ Jumps(Cur, t) /\ t.block = Cur.block
    BY <1>s, <2>3, <2>4, JumpStack
  <2>6. Fits(t, N)
    BY <1>n, <1>c, <1>cf, <2>5, FitsLike
  <2> QED BY <1>n, <1>s, <2>2, <2>3, <2>5, <2>6, RangedTop
<1>5. ASSUME NEW j \in {"break", "continue"}, NEW x \in 0..N, BreakOrContinue(j, x) PROVE Ranged'
  <2>1. CASE x = Nil
    <3>1. blocks' = blocks /\ stack' = stack
      BY <1>5, <2>1 DEF BreakOrContinue
    <3> QED BY <1>s, <3>1 DEF Ranged, Typed, Scalars, N, Depth
  <2>2. CASE x # Nil
    <3>1. x \in 1..N /\ blocks' = NewBr(blocks, c, x)
      BY <1>5, <1>n, <2>2, <1>c DEF BreakOrContinue, Nil
    <3>2. Good(blocks', N) /\ Len(blocks') = N
      BY <3>1, <1>n, GoodBr
    <3>3. CASE LoopDepths = {}
      <4>3. PICK t : t = stack'[Depth]
        OBVIOUS
      <4>4. SetCur(Jump(j))
        BY <1>5, <2>2, <3>3 DEF BreakOrContinue
      <4>5. /\ stack' \in Seq(Scope) /\ Len(stack') = Depth /\ \A d \in 1..Depth : d # Depth => stack'[d] = stack[d]
            /\ Core(Cur, t) /\ Jumps(Cur, t) /\ t.block = Cur.block
        BY <1>s, <4>3, <4>4, JumpStack
      <4>6. Fits(t, N)
        BY <1>n, <1>c, <1>cf, <4>5, FitsLike
      <4> QED BY <1>n, <1>s, <3>2, <4>3, <4>5, <4>6, RangedTop
    <3>4. CASE LoopDepths # {}
      <4>1. PICK L : L = InnerLoop
        OBVIOUS
      <4>2. stack' = [d \in 1..Depth |->
                         LET s == IF d = Depth THEN Jump(j) ELSE stack[d] IN
                         IF d # L THEN s
                         ELSE IF j = "break" THEN [s EXCEPT !.breaks = @ \union exits]
                         ELSE [s EXCEPT !.continues = @ \union exits]]
        BY <1>5, <2>2, <3>4, <4>1 DEF BreakOrContinue
      <4>3. /\ stack' \in Seq(Scope) /\ Len(stack') = Depth
            /\ \A d \in 1..Depth : Handed(j, L, d, stack[d], stack'[d])
        BY <1>s, <4>2, HandedStack
      <4>4. \A d \in 1..Depth : Core(stack[d], stack'[d]) /\ Jumps(stack[d], stack'[d]) /\ stack'[d].block = stack[d].block
        BY <4>3 DEF Handed
      <4>5. \A d \in 1..Depth : Fits(stack[d], N) /\ stack[d].block \in 1..N
        BY ScopeFits DEF Fits
      <4>6. \A d \in 1..Depth : Fits(stack'[d], N)
        BY <1>n, <4>4, <4>5, FitsLike
      <4>7. GoodScopes(stack', N) /\ stack' # <<>>
        BY <1>n, <4>3, <4>6, EmptySeq DEF GoodScopes
      <4>8. N' = N /\ Depth' = Depth
        BY <3>2, <4>3 DEF N, Depth
      <4>9. Typed'
        BY <1>s, <3>2, <4>7 DEF Typed, Scalars, Good, GoodScopes
      <4> QED BY <3>2, <4>7, <4>8, <4>9 DEF Ranged
    <3> QED BY <3>3, <3>4
  <2> QED BY <2>1, <2>2
<1>6. ASSUME OpenIf PROVE Ranged'
  <2>1. blocks' = Append(blocks, NewBlock)
    BY <1>6 DEF OpenIf
  <2>2. Good(blocks', k) /\ Len(blocks') = k /\ k \in 1..k
    <3>1. k \in 1..k /\ k >= N
      BY <1>n, <1>k
    <3> QED BY <1>n, <1>k, <2>1, <3>1, GoodAdd
  <2>3. PICK t : t = stack'[Depth + 1]
    OBVIOUS
  <2>4. /\ stack' \in Seq(Scope) /\ Len(stack') = Depth + 1 /\ \A d \in 1..Depth : stack'[d] = stack[d]
        /\ Opened(Cur, t, "if", N + 1)
    BY <1>6, <1>s, <2>3, OpenIfStack
  <2>5. Fits(t, k)
    <3>1. PICK kind : kind = "if"
      OBVIOUS
    <3>2. Opened(Cur, t, kind, k) /\ N <= k
      BY <1>n, <1>k, <2>4, <3>1
    <3> QED BY <1>n, <1>k, <1>cf, <2>2, <3>1, <3>2, FitsOpened
  <2>6. Fits(stack'[Depth], k)
    BY <1>n, <1>k, <1>cf, <2>4, FitsGrow DEF Cur
  <2> QED BY <1>n, <1>k, <1>s, <2>2, <2>3, <2>4, <2>5, <2>6, RangedPush
<1>7. ASSUME OpenIfElse PROVE Ranged'
  <2>1. PICK b0 : b0 = Thrice(blocks)
    OBVIOUS
  <2>2. Good(b0, k3) /\ Len(b0) = k3 /\ c \in 1..k3 /\ N + 1 \in 1..k3 /\ N + 2 \in 1..k3 /\ N + 3 \in 1..k3
    <3>1. c \in 1..k3 /\ N + 1 \in 1..k3 /\ N + 2 \in 1..k3 /\ N + 3 \in 1..k3 /\ k3 >= N
      BY <1>n, <1>k
    <3>2. Good(b0, k3) /\ Len(b0) = k3
      BY <1>n, <1>k, <2>1, <3>1, GoodAdd3
    <3> QED BY <3>1, <3>2
  <2>3. PICK b1 : b1 = Emit(b0, c, p)
    OBVIOUS
  <2>4. Good(b1, k3) /\ Len(b1) = k3
    BY <1>k, <2>2, <2>3, GoodEmit
  <2>5. blocks' = NewCondBr(b1, c, N + 1, N + 2)
    <3>1. (Len(blocks) + 1) + 1 = N + 2
      BY <1>n
    <3> QED BY <1>7, <1>c, <1>k, <1>n, <2>1, <2>3, <3>1 DEF OpenIfElse, Thrice
  <2>6. Good(blocks', k3) /\ Len(blocks') = k3
    BY <2>2, <2>4, <2>5, GoodCondBr
  <2>7. PICK s, t : s = stack'[Depth] /\ t = stack'[Depth + 1]
    OBVIOUS
  <2>8. /\ stack' \in Seq(Scope) /\ Len(stack') = Depth + 1 /\ \A d \in 1..Depth : d # Depth => stack'[d] = stack[d]
        /\ Core(Cur, s) /\ Jumps(Cur, s) /\ s.block = N + 3
        /\ Opened(s, t, "then", N + 1) /\ t.cond = N + 2 /\ t.end = N + 3
    BY <1>7, <1>s, <2>7, OpenIfElseStack
  <2>9. Fits(s, k3)
    BY <1>n, <1>k, <1>cf, <2>2, <2>8, FitsLike
  <2>10. Fits(t, k3)
    <3>1. PICK kind : kind = "then"
      OBVIOUS
    <3>2. Opened(s, t, kind, N + 1) /\ t.cond \in 1..k3 /\ t.end \in 1..k3
      BY <2>2, <2>8, <3>1
    <3> QED BY <1>n, <1>k, <2>2, <2>9, <3>2, FitsOpened
  <2> QED BY <1>n, <1>k, <1>s, <2>6, <2>7, <2>8, <2>9, <2>10, RangedPush
<1>8. ASSUME Else PROVE Ranged'
  <2>1. Depth > 1 /\ blocks' = blocks /\ Cur.kind = "then"
    BY <1>8 DEF Else
  <2>2. Depth - 1 \in 1..Depth
    BY <1>n, <2>1
  <2>3. Fits(Parent, N)
    BY <2>2, ScopeFits DEF Parent
  <2>4. PICK t, kind : t = stack'[Depth] /\ kind = "else"
    OBVIOUS
  <2>5. /\ stack' \in Seq(Scope) /\ Len(stack') = Depth /\ \A d \in 1..Depth : d # Depth => stack'[d] = stack[d]
        /\ Opened(Parent, t, kind, Cur.cond) /\ t.cond = Cur.first /\ t.end = Cur.end
    BY <1>8, <1>s, <2>4, ElseStack
  <2>6. Cur.first \in 1..N /\ Cur.end \in 1..N /\ Cur.cond \in 1..N
    BY <1>cf, <2>1 DEF Fits
  <2>7. Fits(t, N)
    BY <1>n, <2>3, <2>5, <2>6, FitsOpened
  <2> QED BY <1>n, <1>s, <2>1, <2>4, <2>5, <2>7, RangedTop
<1>9. ASSUME NEW b0, NEW m \in Nat, m >= N, Good(b0, m), Len(b0) = m, NEW e \in 1..m, Depth > 1, blocks' = BrToParent(b0, e), Pop(e, "if") PROVE Ranged'
  <2>1. Depth - 1 \in 1..Depth /\ (Depth - 1 # 1 => (Depth - 1) - 1 \in 1..Depth)
    BY <1>n, <1>9
  <2>2. ParentBlock(Depth - 1) \in 0..N
    <3>1. CASE Depth - 1 = 1
      BY <3>1, <1>n DEF ParentBlock, Nil
    <3>2. CASE Depth - 1 # 1
      BY <2>1, <3>2, ScopeFits, <1>n DEF ParentBlock, Fits
    <3> QED BY <3>1, <3>2
  <2>3. Good(blocks', m) /\ Len(blocks') = m
    <3>1. CASE ParentBlock(Depth - 1) = Nil
      BY <1>9, <3>1 DEF BrToParent
    <3>2. CASE ParentBlock(Depth - 1) # Nil
      <4>1. PICK x : x = ParentBlock(Depth - 1)
        OBVIOUS
      <4>2. x \in 1..m
        BY <1>9, <1>n, <2>2, <3>2, <4>1 DEF Nil
      <4>3. blocks' = NewBr(b0, e, x)
        BY <1>9, <3>2, <4>1 DEF BrToParent
      <4> QED BY <1>9, <4>2, <4>3, GoodBr
    <3> QED BY <3>1, <3>2
  <2>4. PICK x \in {"if", "open"} : Pop(e, x)
    BY <1>9
  <2> QED BY <1>9, <1>s, <2>3, <2>4, RangedPop
<1>10. ASSUME CloseIf PROVE Ranged'
  <2>1. Depth > 1 /\ Depth - 1 \in 1..Depth
    BY <1>10, <1>n DEF CloseIf
  <2>2. PICK b, tt, q : b = Parent.block /\ tt = Cur.first /\ q = Cur.point
    OBVIOUS
  <2>3. b \in 1..N /\ tt \in 1..N
    BY <2>1, <2>2, ScopeFits, <1>cf DEF Parent, Fits
  <2>13. q \in Nat
    BY <2>2, <1>cf DEF Scope
  <2>4. PICK b0 : b0 = Append(blocks, NewBlock)
    OBVIOUS
  <2>5. Good(b0, k) /\ Len(b0) = k /\ b \in 1..k /\ tt \in 1..k /\ k \in 1..k
    <3>1. b \in 1..k /\ tt \in 1..k /\ k \in 1..k /\ k >= N
      BY <1>n, <1>k, <2>3
    <3> QED BY <1>n, <1>k, <2>4, <3>1, GoodAdd
  <2>6. PICK b1 : b1 = Emit(b0, b, q)
    OBVIOUS
  <2>7. Good(b1, k) /\ Len(b1) = k
    BY <2>13, <2>5, <2>6, GoodEmit
  <2>8. PICK b2 : b2 = NewCondBr(b1, b, tt, k)
    OBVIOUS
  <2>9. Good(b2, k) /\ Len(b2) = k
    BY <2>5, <2>7, <2>8, GoodCondBr
  <2>10. PICK b3 : b3 = BrIfOpen(b2, tt, k)
    OBVIOUS
  <2>11. Good(b3, k) /\ Len(b3) = k
    BY <2>5, <2>9, <2>10, GoodOpen
  <2>12. blocks' = BrToParent(b3, k) /\ Pop(k, "if")
    BY <1>10, <1>k, <1>n, <2>2, <2>4, <2>6, <2>8, <2>10 DEF CloseIf
  <2> QED BY <1>9, <1>k, <1>n, <2>1, <2>5, <2>11, <2>12
<1>11. ASSUME CloseIfElse PROVE Ranged'
  <2>1. Depth > 1
    BY <1>11 DEF CloseIfElse
  <2>2. PICK x, y, e : x = Cur.cond /\ y = Cur.first /\ e = Cur.end
    OBVIOUS
  <2>3. x \in 1..N /\ y \in 1..N /\ e \in 1..N
    BY <1>11, <1>cf, <2>2 DEF CloseIfElse, Fits
  <2>4. PICK b0 : b0 = BrIfOpen(blocks, x, e)
    OBVIOUS
  <2>5. Good(b0, N) /\ Len(b0) = N
    BY <1>n, <2>3, <2>4, GoodOpen
  <2>6. PICK b1 : b1 = BrIfOpen(b0, y, e)
    OBVIOUS
  <2>7. Good(b1, N) /\ Len(b1) = N
    BY <1>n, <2>3, <2>5, <2>6, GoodOpen
  <2>8. blocks' = BrToParent(b1, e) /\ Pop(e, "if")
    BY <1>11, <2>2, <2>4, <2>6 DEF CloseIfElse
  <2> QED BY <1>9, <1>n, <2>1, <2>3, <2>7, <2>8
<1>12. ASSUME NEW form \in Forms, OpenFor(form) PROVE Ranged'
  <2>1. PICK b0 : b0 = Thrice(blocks)
    OBVIOUS
  <2>2. Good(b0, k3) /\ Len(b0) = k3 /\ c \in 1..k3 /\ N + 1 \in 1..k3 /\ N + 2 \in 1..k3 /\ N + 3 \in 1..k3
    <3>1. c \in 1..k3 /\ N + 1 \in 1..k3 /\ N + 2 \in 1..k3 /\ N + 3 \in 1..k3 /\ k3 >= N
      BY <1>n, <1>k
    <3>2. Good(b0, k3) /\ Len(b0) = k3
      BY <1>n, <1>k, <2>1, <3>1, GoodAdd3
    <3> QED BY <3>1, <3>2
  <2>3. PICK b1 : b1 = IF "def" \in form THEN Emit(b0, c, p) ELSE b0
    OBVIOUS
  <2>4. Good(b1, k3) /\ Len(b1) = k3
    BY <1>k, <2>2, <2>3, GoodEmit
  <2>5. PICK q \in Nat : q = IF "def" \in form THEN points + 2 ELSE points + 1
    BY <1>n
  <2>6. PICK n2 \in 1..k3, n3 \in 1..k3 : n2 = N + 2 /\ n3 = N + 3
    BY <2>2
  <2>7. blocks' = IF "cond" \notin form THEN Emit(NewBr(b1, c, n2), n2, q) ELSE NewCondBr(Emit(b1, c, q), c, n2, n3)
    <3>1. (Len(blocks) + 1) + 1 = n2 /\ (Len(blocks) + 1) + 2 = n3
      BY <1>n, <2>6
    <3> QED BY <1>12, <1>c, <1>k, <2>1, <2>3, <2>5, <3>1 DEF OpenFor, Thrice
  <2>8. PICK b2 : b2 = IF "cond" \notin form THEN NewBr(b1, c, n2) ELSE Emit(b1, c, q)
    OBVIOUS
  <2>9. Good(b2, k3) /\ Len(b2) = k3
    <3>1. CASE "cond" \notin form
      <4>1. b2 = NewBr(b1, c, n2)
        BY <2>8, <3>1
      <4> QED BY <4>1, <2>2, <2>4, <2>6, GoodBr
    <3>2. CASE "cond" \in form
      <4>1. b2 = Emit(b1, c, q)
        BY <2>8, <3>2
      <4> QED BY <4>1, <2>2, <2>4, <2>5, GoodEmit
    <3> QED BY <3>1, <3>2
  <2>10. Good(blocks', k3) /\ Len(blocks') = k3
    <3>1. CASE "cond" \notin form
      <4>1. blocks' = Emit(b2, n2, q)
        BY <2>7, <2>8, <3>1
      <4> QED BY <4>1, <2>2, <2>5, <2>6, <2>9, GoodEmit
    <3>2. CASE "cond" \in form
      <4>1. blocks' = NewCondBr(b2, c, n2, n3)
        BY <2>7, <2>8, <3>2
      <4> QED BY <4>1, <2>2, <2>6, <2>9, GoodCondBr
    <3> QED BY <3>1, <3>2
  <2>11. PICK s, t : s = stack'[Depth] /\ t = stack'[Depth + 1]
    OBVIOUS
  <2>12. /\ stack' \in Seq(Scope) /\ Len(stack') = Depth + 1 /\ \A d \in 1..Depth : d # Depth => stack'[d] = stack[d]
         /\ Around(s) /\ Looped(form, t)
    BY <1>12, <1>s, <2>11, OpenForStack
  <2>15. s.block = N + 3 /\ s.breakBlock = N + 3 /\ s.continueBlock = N + 1 /\ Core(Cur, s)
    BY <2>12 DEF Around
  <2>16. t.block = N + 2 /\ t.first = N + 2 /\ t.cond = N + 1 /\ t.end = N + 3 /\ t.breakBlock = N + 3 /\ t.continueBlock = N + 1
    BY <2>12 DEF Looped
  <2>13. Fits(s, k3)
    <3>1. N + 1 \in 0..k3 /\ N + 3 \in 0..k3
      BY <1>n, <1>k
    <3>2. Fits(Cur, k3)
      BY <1>n, <1>k, <1>cf, FitsGrow
    <3> QED BY <2>2, <2>15, <3>1, <3>2 DEF Fits, Core
  <2>14. Fits(t, k3)
    <3>1. N + 1 \in 0..k3 /\ N + 3 \in 0..k3
      BY <1>n, <1>k
    <3> QED BY <2>2, <2>16, <3>1 DEF Fits
  <2> QED BY <1>n, <1>k, <1>s, <2>10, <2>11, <2>12, <2>13, <2>14, RangedPush
<1>13. ASSUME CloseFor PROVE Ranged'
  <2>1. Depth > 1 /\ Cur.kind = "body"
    BY <1>13 DEF CloseFor
  <2>2. PICK x, y, e, q \in Nat, r \in Nat : x = Cur.cond /\ y = Cur.first /\ e = Cur.end /\ q = Cur.post /\ r = Cur.point
    BY <1>cf DEF Scope
  <2>3. x \in 1..N /\ y \in 1..N /\ e \in 1..N
    BY <2>1, <1>cf, <2>2 DEF Fits
  <2>4. PICK b1 : b1 = IF "step" \in Cur.form THEN Emit(blocks, x, q) ELSE blocks
    OBVIOUS
  <2>5. Good(b1, N) /\ Len(b1) = N
    BY <1>n, <2>3, <2>4, GoodEmit
  <2>6. PICK b2 : b2 = CondBlock(blocks, Cur)
    OBVIOUS
  <2>7. Good(b2, N) /\ Len(b2) = N
    <3>1. b2 = IF "cond" \notin Cur.form THEN NewBr(b1, x, y) ELSE NewCondBr(Emit(b1, x, r), x, y, e)
      BY <2>2, <2>4, <2>6 DEF CondBlock
    <3>2. CASE "cond" \notin Cur.form
      <4>1. b2 = NewBr(b1, x, y)
        BY <3>1, <3>2
      <4> QED BY <4>1, <1>n, <2>3, <2>5, GoodBr
    <3>3. CASE "cond" \in Cur.form
      <4>1. PICK b3 : b3 = Emit(b1, x, r)
        OBVIOUS
      <4>2. Good(b3, N) /\ Len(b3) = N
        BY <4>1, <1>n, <2>3, <2>5, GoodEmit
      <4>3. b2 = NewCondBr(b3, x, y, e)
        BY <3>1, <3>3, <4>1
      <4> QED BY <4>2, <4>3, <1>n, <2>3, GoodCondBr
    <3> QED BY <3>2, <3>3
  <2>8. blocks' = NewBr(b2, c, x) /\ Pop(e, "open")
    BY <1>13, <1>c, <2>2, <2>6 DEF CloseFor
  <2>9. Good(blocks', N) /\ Len(blocks') = N
    BY <1>n, <2>3, <2>7, <2>8, GoodBr
  <2>10. PICK z \in {"if", "open"} : Pop(e, z)
    BY <2>8
  <2> QED BY <1>n, <1>s, <2>1, <2>3, <2>9, <2>10, RangedPop
<1>14. ASSUME Finish PROVE Ranged'
  <2>1. blocks' = IF mode = "func" THEN blocks ELSE NewRet(blocks, c)
    BY <1>14, <1>c DEF Finish
  <2>2. Good(blocks', N) /\ Len(blocks') = N
    BY <2>1, <1>n, GoodRet
  <2>3. stack' = stack
    BY <1>14 DEF Finish
  <2>4. N' = N /\ Depth' = Depth
    BY <2>2, <2>3 DEF N, Depth
  <2>5. Typed'
    BY <1>s, <2>2, <2>3 DEF Typed, Scalars, Good
  <2> QED BY <2>2, <2>3, <2>4, <2>5 DEF Ranged
<1>15. ASSUME Ended \/ UNCHANGED vars PROVE Ranged'
  <2>1. blocks' = blocks /\ stack' = stack
    BY <1>15 DEF Ended, vars
  <2> QED BY <1>s, <2>1 DEF Ranged, Typed, Scalars, N, Depth
<1>16. CASE Break
  <2>1. Cur.breakBlock \in 0..N
    BY CurFits
  <2> QED BY <1>5, <1>16, <2>1 DEF Break
<1>17. CASE Continue
  <2>1. Cur.continueBlock \in 0..N
    BY CurFits
  <2> QED BY <1>5, <1>17, <2>1 DEF Continue
<1> QED BY <1>1, <1>2, <1>3, <1>4, <1>6, <1>7, <1>8, <1>10, <1>11, <1>12, <1>13, <1>14, <1>15, <1>16, <1>17 DEF Next

\* What is in the frame, in scope and read has been defined.
Kept ==
    /\ frame \subseteq defs /\ defs \subseteq 1..points
    /\ \A d \in 1..Depth : stack[d].vars \subseteq defs
    /\ \A u \in uses : u[1] \in defs

\* Variables in scope have been defined.
LEMMA InScopeIs == Kept => InScope \subseteq defs
  BY DEF Kept, InScope

\* What is left to show of a step that keeps the scopes below.
LEMMA KeptTop ==
    ASSUME Kept, frame' \subseteq defs', defs' \subseteq 1..points', defs \subseteq defs',
           NEW m \in Nat, Len(stack') = m, \A d \in 1..m : (d \in 1..Depth /\ stack'[d] = stack[d]) \/ stack'[d].vars \subseteq defs',
           \A u \in uses' : u \in uses \/ u[1] \in defs'
    PROVE  Kept'
<1>1. Depth' = m
  BY DEF Depth
<1> QED BY <1>1 DEF Kept

\* The initial state has Kept.
LEMMA KeptInit == Init => Kept
<1> SUFFICES ASSUME Init PROVE Kept
  OBVIOUS
<1>1. PICK s : s = AddChildScope("fn", 1, [breakBlock |-> Nil, continueBlock |-> Nil, stale |-> FALSE])
  OBVIOUS
<1>2. stack = <<s>> /\ Depth = 1 /\ stack[1] = s
  BY <1>1 DEF Init, Depth
<1>3. s.vars = {}
  BY <1>1 DEF AddChildScope
<1> QED BY <1>2, <1>3 DEF Init, Kept

\* Every step keeps Kept.
LEMMA KeptNext == Ranged /\ Kept /\ [Next]_vars => Kept'
<1> SUFFICES ASSUME Ranged, Kept, [Next]_vars PROVE Kept'
  OBVIOUS
<1>0. Typed /\ Depth \in Nat /\ Depth >= 1 /\ Cur \in Scope /\ points \in Nat /\ Depth \in 1..Depth
  BY CurIs DEF Ranged, Typed
<1>t. Typed
  BY <1>0
<1>i. InScope \subseteq defs /\ Cur.vars \subseteq defs
  BY <1>0, InScopeIs DEF Kept, Cur
<1>p. (Depth > 1 => Parent.vars \subseteq defs) /\ defs \subseteq 1..(points + 1)
  <2>1. Depth > 1 => Depth - 1 \in 1..Depth
    BY <1>0
  <2> QED BY <1>0, <2>1 DEF Kept, Parent
<1>1. ASSUME NEW isDef \in BOOLEAN, Statement(isDef) PROVE Kept'
  <2>1. PICK t : t = stack'[Depth]
    OBVIOUS
  <2>2. /\ Len(stack') = Depth /\ \A d \in 1..Depth : d # Depth => stack'[d] = stack[d]
        /\ t.vars = IF isDef THEN Cur.vars \union {points + 1} ELSE Cur.vars
    BY <1>1, <1>0, <2>1, StatementStack
  <2>3. defs' = IF isDef THEN defs \union {points + 1} ELSE defs
    BY <1>1 DEF Statement
  <2>4. stack'[Depth].vars \subseteq defs'
    BY <1>i, <2>1, <2>2, <2>3
  <2>5. frame' \subseteq defs'
    BY <1>1 DEF Statement, InFrame, Kept
  <2>6. defs' \subseteq 1..points'
    <3>1. points' = points + 1 /\ points + 1 \in 1..(points + 1)
      BY <1>1, <1>0 DEF Statement
    <3> QED BY <1>p, <2>3, <3>1
  <2>7. \A u \in uses' : u \in uses \/ u[1] \in defs'
    BY <1>1, <1>i, <2>3 DEF Statement, Reads
  <2>8. defs \subseteq defs'
    BY <2>3
  <2>9. \A d \in 1..Depth : (d \in 1..Depth /\ stack'[d] = stack[d]) \/ stack'[d].vars \subseteq defs'
    BY <2>2, <2>4
  <2> QED BY <1>0, <2>2, <2>5, <2>6, <2>7, <2>8, <2>9, KeptTop
<1>u. ASSUME defs' = defs, frame' = frame, points' \in {points, points + 1}, uses' \in {uses, uses \union Reads(points + 1)},
             NEW m \in Nat, Len(stack') = m, \A d \in 1..m : (d \in 1..Depth /\ stack'[d] = stack[d]) \/ stack'[d].vars \subseteq defs
      PROVE  Kept'
  <2>1. frame' \subseteq defs' /\ defs' \subseteq 1..points'
    BY <1>u, <1>p DEF Kept
  <2>2. \A u \in uses' : u \in uses \/ u[1] \in defs'
    BY <1>u, <1>i DEF Reads
  <2> QED BY <1>u, <2>1, <2>2, KeptTop
<1>m. ASSUME NEW b \in Nat, NEW x, x \in {"open", "ended"}, SetCur(Moved(Cur, b, x)) PROVE
           Len(stack') = Depth /\ \A d \in 1..Depth : (d \in 1..Depth /\ stack'[d] = stack[d]) \/ stack'[d].vars \subseteq defs
  <2>1. PICK t : t = stack'[Depth]
    OBVIOUS
  <2>2. Len(stack') = Depth /\ (\A d \in 1..Depth : d # Depth => stack'[d] = stack[d]) /\ t.vars = Cur.vars
    BY <1>m, <1>0, <2>1, MovedStack
  <2> QED BY <1>i, <2>1, <2>2
<1>j. ASSUME NEW j \in {"ret", "break", "continue"}, SetCur(Jump(j)) PROVE
           Len(stack') = Depth /\ \A d \in 1..Depth : (d \in 1..Depth /\ stack'[d] = stack[d]) \/ stack'[d].vars \subseteq defs
  <2>1. PICK t : t = stack'[Depth]
    OBVIOUS
  <2>2. Len(stack') = Depth /\ (\A d \in 1..Depth : d # Depth => stack'[d] = stack[d]) /\ t.vars = Cur.vars
    BY <1>j, <1>0, <2>1, JumpStack
  <2> QED BY <1>i, <2>1, <2>2
<1>n. N + 1 \in Nat
  BY <1>0, BlockIs
<1>2. ASSUME Suspend PROVE Kept'
  <2>1. PICK x : x = "open"
    OBVIOUS
  <2>2. SetCur(Moved(Cur, N + 1, x))
    BY <1>2, <2>1 DEF Suspend, Moved, N
  <2>3. Len(stack') = Depth /\ \A d \in 1..Depth : (d \in 1..Depth /\ stack'[d] = stack[d]) \/ stack'[d].vars \subseteq defs
    BY <1>m, <1>n, <2>1, <2>2
  <2> QED BY <1>2, <1>u, <1>0, <2>3 DEF Suspend
<1>3. ASSUME Ret PROVE Kept'
  <2>1. Len(stack') = Depth /\ \A d \in 1..Depth : (d \in 1..Depth /\ stack'[d] = stack[d]) \/ stack'[d].vars \subseteq defs
    <3>1. CASE mode = "async"
      <4>1. PICK x : x = "ended"
        OBVIOUS
      <4>2. SetCur(Moved(Cur, N + 1, x))
        BY <1>3, <3>1, <4>1 DEF Ret, Moved, N
      <4> QED BY <1>m, <1>n, <4>1, <4>2
    <3>2. CASE mode # "async"
      <4>1. SetCur(Jump("ret"))
        BY <1>3, <3>2 DEF Ret
      <4> QED BY <1>j, <4>1
    <3> QED BY <3>1, <3>2
  <2> QED BY <1>3, <1>u, <1>0, <2>1 DEF Ret
<1>4. ASSUME NEW j \in {"break", "continue"}, NEW x, BreakOrContinue(j, x) PROVE Kept'
  <2>1. Len(stack') = Depth /\ \A d \in 1..Depth : (d \in 1..Depth /\ stack'[d] = stack[d]) \/ stack'[d].vars \subseteq defs
    <3>1. CASE x = Nil
      BY <1>4, <3>1 DEF BreakOrContinue, Depth
    <3>2. CASE x # Nil /\ LoopDepths = {}
      <4>1. SetCur(Jump(j))
        BY <1>4, <3>2 DEF BreakOrContinue
      <4> QED BY <1>j, <4>1
    <3>3. CASE x # Nil /\ LoopDepths # {}
      <4>1. PICK L : L = InnerLoop
        OBVIOUS
      <4>2. stack' = [d \in 1..Depth |->
                         LET s == IF d = Depth THEN Jump(j) ELSE stack[d] IN
                         IF d # L THEN s
                         ELSE IF j = "break" THEN [s EXCEPT !.breaks = @ \union exits]
                         ELSE [s EXCEPT !.continues = @ \union exits]]
        BY <1>4, <3>3, <4>1 DEF BreakOrContinue
      <4>3. Len(stack') = Depth /\ \A d \in 1..Depth : Handed(j, L, d, stack[d], stack'[d])
        BY <1>0, <4>2, HandedStack
      <4>4. \A d \in 1..Depth : stack'[d].vars \subseteq defs
        BY <4>3 DEF Handed, Kept
      <4> QED BY <4>3, <4>4
    <3> QED BY <3>1, <3>2, <3>3
  <2> QED BY <1>4, <1>u, <1>0, <2>1 DEF BreakOrContinue
<1>5. ASSUME OpenIf PROVE Kept'
  <2>1. PICK t : t = stack'[Depth + 1]
    OBVIOUS
  <2>2. Len(stack') = Depth + 1 /\ (\A d \in 1..Depth : stack'[d] = stack[d]) /\ t.vars = {}
    BY <1>5, <1>0, <2>1, OpenIfStack DEF Opened
  <2>3. \A d \in 1..(Depth + 1) : (d \in 1..Depth /\ stack'[d] = stack[d]) \/ stack'[d].vars \subseteq defs
    BY <1>0, <2>1, <2>2
  <2> QED BY <1>5, <1>u, <1>0, <2>2, <2>3 DEF OpenIf
<1>6. ASSUME OpenIfElse PROVE Kept'
  <2>1. PICK s, t : s = stack'[Depth] /\ t = stack'[Depth + 1]
    OBVIOUS
  <2>2. Len(stack') = Depth + 1 /\ (\A d \in 1..Depth : d # Depth => stack'[d] = stack[d]) /\ t.vars = {} /\ s.vars = Cur.vars
    BY <1>6, <1>0, <2>1, OpenIfElseStack DEF Opened
  <2>3. \A d \in 1..(Depth + 1) : (d \in 1..Depth /\ stack'[d] = stack[d]) \/ stack'[d].vars \subseteq defs
    BY <1>0, <1>i, <2>1, <2>2
  <2>4. /\ defs' = defs /\ frame' = frame /\ points' \in {points, points + 1}
        /\ uses' \in {uses, uses \union Reads(points + 1)}
    BY <1>6 DEF OpenIfElse
  <2>5. PICK m \in Nat : m = Depth + 1
    BY <1>0
  <2> QED BY <1>u, <2>2, <2>3, <2>4, <2>5
<1>7. ASSUME Else PROVE Kept'
  <2>1. PICK t : t = stack'[Depth]
    OBVIOUS
  <2>2. Len(stack') = Depth /\ (\A d \in 1..Depth : d # Depth => stack'[d] = stack[d]) /\ t.vars = {}
    BY <1>7, <1>0, <2>1, ElseStack DEF Opened
  <2> QED BY <1>7, <1>u, <1>0, <2>1, <2>2 DEF Else
<1>8. ASSUME Depth > 1, NEW b \in Nat, NEW x, x \in {"if", "open"}, Pop(b, x) PROVE
           Depth - 1 \in Nat /\ Len(stack') = Depth - 1 /\ \A d \in 1..(Depth - 1) : (d \in 1..Depth /\ stack'[d] = stack[d]) \/ stack'[d].vars \subseteq defs
  <2>1. PICK s : s = stack'[Depth - 1]
    OBVIOUS
  <2>2. Len(stack') = Depth - 1 /\ (\A d \in 1..(Depth - 2) : stack'[d] = stack[d]) /\ s.vars = Parent.vars
    BY <1>8, <1>0, <2>1, PopStack
  <2>3. \A d \in 1..(Depth - 1) : d \in 1..Depth /\ (d = Depth - 1 \/ d \in 1..(Depth - 2))
    BY <1>0
  <2> QED BY <1>8, <1>0, <1>p, <2>1, <2>2, <2>3
<1>9. ASSUME CloseIf PROVE Kept'
  <2>1. PICK x : x = "if"
    OBVIOUS
  <2>2. Depth > 1 /\ Pop(N + 1, x)
    BY <1>9, <2>1 DEF CloseIf, N
  <2> QED BY <1>9, <1>u, <1>8, <1>n, <2>1, <2>2 DEF CloseIf
<1>10. ASSUME CloseIfElse PROVE Kept'
  <2>1. PICK x : x = "if"
    OBVIOUS
  <2>2. Depth > 1 /\ Pop(Cur.end, x) /\ Cur.end \in Nat
    BY <1>10, <1>0, <2>1 DEF CloseIfElse, Scope
  <2> QED BY <1>10, <1>u, <1>8, <2>1, <2>2 DEF CloseIfElse
<1>11. ASSUME CloseFor PROVE Kept'
  <2>1. PICK x : x = "open"
    OBVIOUS
  <2>2. Depth > 1 /\ Pop(Cur.end, x) /\ Cur.end \in Nat
    BY <1>11, <1>0, <2>1 DEF CloseFor, Scope
  <2> QED BY <1>11, <1>u, <1>8, <2>1, <2>2 DEF CloseFor
<1>12. ASSUME NEW form \in Forms, OpenFor(form) PROVE Kept'
  <2>1. PICK s, t : s = stack'[Depth] /\ t = stack'[Depth + 1]
    OBVIOUS
  <2>2. PICK header : header = IF "def" \in form THEN {points + 1} ELSE {}
    OBVIOUS
  <2>3. Len(stack') = Depth + 1 /\ (\A d \in 1..Depth : d # Depth => stack'[d] = stack[d]) /\ Around(s) /\ Looped(form, t)
    BY <1>12, <1>t, <2>1, OpenForStack
  <2>4. s.vars = Cur.vars /\ t.vars = header
    BY <2>2, <2>3 DEF Around, Looped
  <2>5. defs' = defs \union header /\ frame' = frame
    BY <1>12, <2>2 DEF OpenFor
  <2>6. /\ points' \in Nat /\ points' >= points + 1
        /\ "def" \in form => points' >= points + 2
    BY <1>12, <1>0 DEF OpenFor
  <2>7. \A d \in 1..(Depth + 1) : (d \in 1..Depth /\ stack'[d] = stack[d]) \/ stack'[d].vars \subseteq defs'
    BY <1>0, <1>i, <2>1, <2>3, <2>4, <2>5
  <2>8. defs' \subseteq 1..points'
    <3>1. header \subseteq 1..points' /\ \A d \in 1..points : d \in 1..points'
      BY <1>0, <2>2, <2>6
    <3> QED BY <2>5, <3>1 DEF Kept
  <2>9. \A u \in uses' : u \in uses \/ u[1] \in defs'
    <3>1. PICK X, Y : uses' = uses \union (InScope \X X) \union ((InScope \union header) \X Y)
      BY <1>12, <2>2 DEF OpenFor
    <3> QED BY <1>i, <2>5, <3>1
  <2>10. frame' \subseteq defs' /\ defs \subseteq defs'
    BY <2>5 DEF Kept
  <2>11. Depth + 1 \in Nat
    BY <1>0
  <2> QED BY <2>3, <2>7, <2>8, <2>9, <2>10, <2>11, KeptTop
<1>13. ASSUME Finish \/ Ended \/ UNCHANGED vars PROVE Kept'
  <2>1. frame' = frame /\ defs' = defs /\ points' = points /\ stack' = stack /\ uses' = uses
    BY <1>13 DEF Finish, Ended, vars
  <2> QED BY <2>1 DEF Kept, Depth
<1> QED BY <1>1, <1>2, <1>3, <1>4, <1>5, <1>6, <1>7, <1>9, <1>10, <1>11, <1>12, <1>13 DEF Next, Break, Continue

\* Every variable keeps its type: terminators aim at blocks that exist, scopes go on in blocks that exist,
\* and buildCtx gives fields only to variables that are defined.
THEOREM TypeCorrect == Spec => []TypeOK
<1>1. Ranged /\ Kept => TypeOK
  <2> SUFFICES ASSUME Ranged, Kept PROVE TypeOK
    OBVIOUS
  <2>1. Typed /\ N \in Nat
    BY BlockIs DEF Ranged
  <2>2. ASSUME NEW b \in 1..Len(blocks)
        PROVE  /\ blocks[b].term \in {"none", "br", "cond", "ret", "yield"}
               /\ \A i \in 1..Len(blocks[b].to) : blocks[b].to[i] \in 1..Len(blocks)
    BY <2>1, BlockIs DEF Ranged, Good, Aims, Term, Terms, N
  <2>3. \A d \in 1..Depth : stack[d].block \in 1..Len(blocks)
    BY ScopeFits DEF Fits, N
  <2> QED BY <2>1, <2>2, <2>3 DEF TypeOK, Typed, Kept
<1>2. Init => Ranged /\ Kept
  BY RangedInit, KeptInit
<1>3. Ranged /\ Kept /\ [Next]_vars => (Ranged /\ Kept)'
  BY RangedNext, KeptNext
<1> QED BY <1>1, <1>2, <1>3, PTL DEF Spec

-----------------------------------------------------------------------------
(* The source's own flow. *)

\* F leads to p
Enters(F, p) == \E f \in F : f[3] = p
\* control comes to p
Seen(p) == Enters(flow, p)
\* the exits that lead somewhere
Sources == {<<f[1], f[2]>> : f \in flow}
\* The exits that scope s keeps: those that go on behind it, those that go round its loop, and the
\* other exit of its condition.
Early(s) == s.saved \union s.breaks
Late(s) == s.continues \union (IF s.post # 0 THEN {<<s.post, "next">>} ELSE {})
Other(s) == IF s.kind = "then" THEN {<<s.point, "false">>} ELSE {}
Held(s) == Early(s) \union Late(s) \union Other(s)
\* the exits that control has come to
Dangling(s) == s.saved \union s.breaks \union s.continues

\* Everything the source has made so far is about points handed out so far.
Below ==
    /\ \A e \in exits : e[1] <= points
    /\ \A f \in flow : f[1] <= points /\ (f[3] \in 1..points \/ f[3] \in {Exit, Stray})
    /\ \A d \in 1..Depth : /\ stack[d].point <= points /\ stack[d].post <= points
                           /\ \A e \in Held(stack[d]) : e[1] <= points

\* the step of a loop is none of its continues
StepApart(s) == s.post # 0 => <<s.post, "next">> \notin s.continues
\* Every exit leads somewhere, dangles or is kept by one scope: never two of these.
Apart ==
    /\ \A e \in exits : e \notin Sources
    /\ \A d \in 1..Depth : \A e \in Held(stack[d]) : e \notin Sources /\ e \notin exits
    /\ \A d \in 1..Depth : \A k \in 1..Depth : d # k => \A e \in Held(stack[d]) : e \notin Held(stack[k])
    /\ \A d \in 1..Depth : \A e \in Early(stack[d]) : e \notin Late(stack[d])
    /\ \A d \in 1..Depth : StepApart(stack[d])

\* An exit leads to one point.
FlowFun == \A f \in flow : \A g \in flow : f[1] = g[1] /\ f[2] = g[2] => f = g

\* Control that is inside a scope has come to its condition, and to those of the scopes around it.
Entered ==
    \A d \in 2..Depth :
        /\ exits # {} => Seen(stack[d].point)
        /\ \A k \in d..Depth : Dangling(stack[k]) # {} => Seen(stack[d].point)
        /\ \A k \in d..Depth : Seen(stack[k].point) => Seen(stack[d].point)

\* Nothing leads to the step of a loop that is not closed.
PostFree == \A d \in 1..Depth : stack[d].post # 0 => ~Seen(stack[d].post)

\* C holds the start and all that follows.
Closed(C) == Start \in C /\ \A f \in flow : f[1] \in C => f[3] \in C
\* Every exit is one of a point that control comes to from the start.
Reach ==
    \A C \in SUBSET Int : Closed(C) =>
        /\ \A e \in exits : e[1] \in C
        /\ \A d \in 1..Depth : \A e \in Dangling(stack[d]) : e[1] \in C
        /\ \A f \in flow : f[1] \in C

\* A scope that goes on keeps its exits.
LEMMA SameHeld == ASSUME NEW s, NEW t, Core(s, t), Loops(s, t)
    PROVE /\ Held(t) = Held(s) /\ Early(t) = Early(s) /\ Late(t) = Late(s) /\ Dangling(t) = Dangling(s)
          /\ t.point = s.point /\ t.post = s.post /\ t.continues = s.continues
  BY DEF Core, Loops, Held, Early, Late, Other, Dangling

\* A step that goes on: the exits lead to q, and from there perhaps on by Z.
NewPoints == (points + 1)..points'
Advance(q, Z) ==
    /\ points \in Nat /\ points' \in Nat /\ points <= points'
    /\ flow' = flow \union To(q) \union Z
    /\ q \in NewPoints \union {Exit, Stray}
    /\ \A z \in Z : z = <<q, "next", q + 1>> /\ q \in NewPoints /\ q + 1 \in NewPoints /\ Reached
    /\ \A e \in exits' : Reached /\ e[1] \in NewPoints /\ IF Z = {} THEN e[1] = q ELSE e[1] = q + 1
    /\ Len(stack') \in {Depth, Depth + 1}
    /\ \A d \in 1..Depth : Core(stack[d], stack'[d]) /\ Loops(stack[d], stack'[d])
    /\ Len(stack') = Depth + 1 =>
         LET t == stack'[Depth + 1] IN
         /\ t.point = IF Z = {} THEN q ELSE q + 1
         /\ t.point \in NewPoints
         /\ \A e \in Dangling(t) : Reached /\ e[1] = t.point
         /\ \A e \in Held(t) : e[1] \in NewPoints /\ e \notin exits' /\ \A z \in Z : e[1] # z[1]
         /\ \A e \in Early(t) : e \notin Late(t)
         /\ t.post # 0 => t.post \in NewPoints /\ t.post # q /\ (Z # {} => t.post # q + 1)
         /\ t.post <= points' /\ t.continues = {}

\* The parts of an exit.
LEMMA DangleElse == ASSUME NEW e \in Dangle PROVE e = <<e[1], e[2]>> /\ e[1] \in Nat /\ e[2] \in Labels
  BY DEF Dangle

\* The exits that lead somewhere and the points that control comes to, when the exits lead to q.
LEMMA ToSources ==
    ASSUME Scalars, NEW q, NEW Z, flow' = flow \union To(q) \union Z
    PROVE  /\ Sources' = Sources \union exits \union {<<z[1], z[2]>> : z \in Z}
           /\ \A p : Enters(flow', p) <=> Seen(p) \/ (Reached /\ p = q) \/ \E z \in Z : z[3] = p
<1>1. \A e \in exits : e = <<e[1], e[2]>>
  BY DangleElse DEF Scalars
<1>2. \A f \in To(q) : f[3] = q /\ <<f[1], f[2]>> \in exits
  BY <1>1 DEF To
<1>3. \A e \in exits : <<e[1], e[2], q>> \in To(q)
  BY DEF To
<1>4. Sources' = Sources \union exits \union {<<z[1], z[2]>> : z \in Z}
  <2>1. Sources' \subseteq Sources \union exits \union {<<z[1], z[2]>> : z \in Z}
    BY <1>2 DEF Sources
  <2>2. Sources \union {<<z[1], z[2]>> : z \in Z} \subseteq Sources'
    BY DEF Sources
  <2>3. exits \subseteq Sources'
    <3> SUFFICES ASSUME NEW e \in exits PROVE e \in Sources'
      OBVIOUS
    <3>1. PICK f \in flow' : f = <<e[1], e[2], q>>
      BY <1>3
    <3>2. <<f[1], f[2]>> = e
      BY <1>1, <3>1
    <3> QED BY <3>1, <3>2 DEF Sources
  <2> QED BY <2>1, <2>2, <2>3
<1>5. ASSUME NEW p PROVE Enters(flow', p) <=> Seen(p) \/ (Reached /\ p = q) \/ \E z \in Z : z[3] = p
  <2>1. Reached <=> \E f \in To(q) : TRUE
    BY <1>2, <1>3 DEF Reached
  <2> QED BY <1>2, <2>1 DEF Seen, Enters
<1> QED BY <1>4, <1>5

\* What a scope keeps are exits.
LEMMA HeldIs == ASSUME NEW s \in Scope PROVE Held(s) \subseteq Dangle /\ Dangling(s) \subseteq Held(s) /\ Early(s) \subseteq Held(s) /\ Late(s) \subseteq Held(s)
<1>1. s.saved \subseteq Dangle /\ s.breaks \subseteq Dangle /\ s.continues \subseteq Dangle /\ s.post \in Nat /\ s.point \in Nat
  BY DEF Scope
<1>2. <<s.post, "next">> \in Dangle /\ <<s.point, "false">> \in Dangle
  BY <1>1, LabelsAre DEF Dangle
<1> QED BY <1>1, <1>2 DEF Held, Early, Late, Other, Dangling

\* The types in the form that the proofs use.
LEMMA Sizes == ASSUME Typed PROVE /\ Scalars /\ Depth \in Nat /\ Depth >= 1 /\ points \in Nat
      /\ \A d \in 1..Depth : stack[d] \in Scope /\ stack[d].point \in Nat /\ stack[d].post \in Nat /\ Held(stack[d]) \subseteq Dangle
      /\ \A f \in flow : f[1] \in Nat /\ f[2] \in Labels /\ f[3] \in Int /\ f = <<f[1], f[2], f[3]>>
      /\ \A e \in exits : e[1] \in Nat /\ e[2] \in Labels /\ e = <<e[1], e[2]>>
<1>1. Scalars /\ Depth \in Nat /\ Depth >= 1 /\ points \in Nat
  BY CurIs, ScalarsIs DEF Scalars
<1>2. ASSUME NEW d \in 1..Depth PROVE stack[d] \in Scope /\ stack[d].point \in Nat /\ stack[d].post \in Nat /\ Held(stack[d]) \subseteq Dangle
  <2>1. PICK s \in Scope : s = stack[d]
    BY CurIs
  <2>2. s.point \in Nat /\ s.post \in Nat /\ Held(s) \subseteq Dangle
    BY HeldIs DEF Scope
  <2> QED BY <2>1, <2>2
<1>3. \A f \in flow : f[1] \in Nat /\ f[2] \in Labels /\ f[3] \in Int /\ f = <<f[1], f[2], f[3]>>
  BY <1>1 DEF Scalars
<1>4. \A e \in exits : e[1] \in Nat /\ e[2] \in Labels /\ e = <<e[1], e[2]>>
  BY <1>1 DEF Scalars, Dangle
<1> QED BY <1>1, <1>2, <1>3, <1>4

\* The parts of a dangling exit.
LEMMA ExitIs == ASSUME Typed, NEW e \in exits PROVE e[1] \in Nat /\ e[2] \in Labels /\ e = <<e[1], e[2]>>
<1>1. e \in Dangle
  BY DEF Typed
<1> QED BY <1>1, DangleElse

\* t holds what s holds
Alike(s, t) ==
    /\ Held(t) = Held(s) /\ Dangling(t) = Dangling(s) /\ t.point = s.point /\ t.post = s.post
    /\ Early(t) = Early(s) /\ Late(t) = Late(s) /\ t.continues = s.continues

\* Advance leaves the exits of the scopes alone.
LEMMA AdvanceAlike ==
    ASSUME Typed, Typed', NEW q, NEW Z, Advance(q, Z)
    PROVE  /\ Depth' \in {Depth, Depth + 1}
           /\ \A d \in 1..Depth' : (d \in 1..Depth /\ Alike(stack[d], stack'[d])) \/ (d = Depth + 1 /\ d = Depth')
<1>1. Depth' \in {Depth, Depth + 1} /\ Depth \in Nat
  BY Sizes DEF Advance, Depth
<1>2. \A d \in 1..Depth' : d \in 1..Depth \/ (d = Depth + 1 /\ d = Depth')
  BY <1>1
<1>3. ASSUME NEW d \in 1..Depth PROVE Alike(stack[d], stack'[d])
  <2>1. Core(stack[d], stack'[d]) /\ Loops(stack[d], stack'[d])
    BY DEF Advance
  <2> QED BY <2>1, SameHeld DEF Alike
<1> QED BY <1>1, <1>2, <1>3

\* What Advance says of the scope it opens.
LEMMA AdvanceTop ==
    ASSUME Typed, Typed', NEW q, NEW Z, Advance(q, Z), NEW d, d = Depth + 1, d = Depth', NEW t, t = stack'[d]
    PROVE  /\ t.point = (IF Z = {} THEN q ELSE q + 1) /\ t.point \in NewPoints
           /\ \A e \in Dangling(t) : Reached /\ e[1] = t.point
           /\ \A e \in Held(t) : e[1] \in NewPoints /\ e \notin exits' /\ \A z \in Z : e[1] # z[1]
           /\ \A e \in Early(t) : e \notin Late(t)
           /\ t.post # 0 => t.post \in NewPoints /\ t.post # q /\ (Z # {} => t.post # q + 1)
           /\ t.post <= points' /\ t.continues = {}
<1>1. Len(stack') = Depth + 1
  BY DEF Depth
<1> QED BY <1>1 DEF Advance

\* Advance keeps Below.
LEMMA AdvanceBelow == ASSUME Typed, Typed', Below, NEW q, NEW Z, Advance(q, Z) PROVE Below'
<1>0. points \in Nat /\ points' \in Nat /\ points <= points' /\ Scalars
  BY Sizes DEF Advance
<1>2. \A e \in exits' : e[1] <= points'
  BY <1>0 DEF Advance, NewPoints
<1>3. \A f \in To(q) : f[1] <= points' /\ (f[3] \in 1..points' \/ f[3] \in {Exit, Stray})
  <2>1. q \in 1..points' \/ q \in {Exit, Stray}
    BY <1>0 DEF Advance, NewPoints
  <2>2. \A e \in exits : e[1] \in Nat /\ e[1] <= points
    BY ExitIs DEF Below
  <2> QED BY <1>0, <2>1, <2>2 DEF To
<1>4. \A z \in Z : z[1] <= points' /\ z[3] \in 1..points'
  BY <1>0 DEF Advance, NewPoints
<1>5. \A f \in flow : f[1] <= points' /\ (f[3] \in 1..points' \/ f[3] \in {Exit, Stray})
  <2>1. \A f \in flow : f[1] \in Nat
    BY Sizes
  <2> QED BY <1>0, <2>1 DEF Below
<1>6. \A f \in flow' : f[1] <= points' /\ (f[3] \in 1..points' \/ f[3] \in {Exit, Stray})
  BY <1>3, <1>4, <1>5 DEF Advance
<1>7. ASSUME NEW d \in 1..Depth' PROVE /\ stack'[d].point <= points' /\ stack'[d].post <= points'
                                       /\ \A e \in Held(stack'[d]) : e[1] <= points'
  <2>1. CASE d = Depth + 1 /\ d = Depth'
    <3>1. PICK t : t = stack'[d]
      OBVIOUS
    <3>2. t.point \in NewPoints /\ t.post <= points' /\ \A e \in Held(t) : e[1] \in NewPoints
      BY <2>1, <3>1, AdvanceTop
    <3> QED BY <1>0, <3>1, <3>2 DEF NewPoints
  <2>2. CASE /\ d \in 1..Depth /\ Held(stack'[d]) = Held(stack[d])
             /\ stack'[d].point = stack[d].point /\ stack'[d].post = stack[d].post
    <3>1. stack[d].point <= points /\ stack[d].post <= points /\ \A e \in Held(stack[d]) : e[1] <= points /\ e[1] \in Nat
      <4>1. \A e \in Dangle : e[1] \in Nat
        BY DEF Dangle
      <4> QED BY <2>2, <4>1, Sizes DEF Below
    <3>2. stack[d].point \in Nat /\ stack[d].post \in Nat
      BY <2>2, Sizes
    <3> QED BY <1>0, <2>2, <3>1, <3>2
  <2> QED BY <2>1, <2>2, AdvanceAlike DEF Alike
<1> QED BY <1>2, <1>6, <1>7 DEF Below

\* everything handed out before a step has an older point than what the step makes
LEMMA Older ==
    ASSUME Typed, Below, points' \in Nat
    PROVE  /\ \A e \in exits : e[1] \notin NewPoints
           /\ \A e \in Sources : e[1] \notin NewPoints
           /\ \A d \in 1..Depth : stack[d].point \notin NewPoints /\ stack[d].post \notin NewPoints /\ \A e \in Held(stack[d]) : e[1] \notin NewPoints
           /\ \A p \in NewPoints : ~Seen(p)
<1>1. points \in Nat
  BY Sizes
<1>2. \A e \in exits : e[1] \notin NewPoints
  BY <1>1, Sizes DEF Below, NewPoints
<1>3. \A e \in Sources : e[1] \notin NewPoints
  BY <1>1, Sizes DEF Below, NewPoints, Sources
<1>4. ASSUME NEW d \in 1..Depth PROVE stack[d].point \notin NewPoints /\ stack[d].post \notin NewPoints /\ \A e \in Held(stack[d]) : e[1] \notin NewPoints
  <2>1. \A e \in Dangle : e[1] \in Nat
    BY DEF Dangle
  <2> QED BY <1>1, <2>1, Sizes DEF Below, NewPoints
<1>5. \A p \in NewPoints : ~Seen(p)
  BY <1>1 DEF Below, NewPoints, Seen, Enters, Exit, Stray
<1> QED BY <1>2, <1>3, <1>4, <1>5

\* Advance keeps Apart.
LEMMA AdvanceApart == ASSUME Typed, Typed', Below, Apart, NEW q, NEW Z, Advance(q, Z) PROVE Apart'
<1>0. Scalars /\ points' \in Nat
  BY Sizes DEF Advance
<1>1. Sources' = Sources \union exits \union {<<z[1], z[2]>> : z \in Z}
  BY <1>0, ToSources DEF Advance
<1>2. \A e \in exits' : e[1] \in NewPoints /\ \A z \in Z : e[1] # z[1]
  BY DEF Advance, NewPoints
<1>3. \A z \in Z : z[1] \in NewPoints
  BY DEF Advance
<1>4. \A e \in exits' : e \notin Sources'
  <2>1. \A e \in exits' : e \notin {<<z[1], z[2]>> : z \in Z}
    BY <1>2
  <2> QED BY <1>0, <1>1, <1>2, <2>1, Older
<1>5. ASSUME NEW d \in 1..Depth' PROVE \A e \in Held(stack'[d]) : e \notin Sources' /\ e \notin exits'
  <2>1. CASE d = Depth + 1 /\ d = Depth'
    <3>1. PICK t : t = stack'[d]
      OBVIOUS
    <3>2. \A e \in Held(t) : e[1] \in NewPoints /\ e \notin exits' /\ \A z \in Z : e[1] # z[1]
      BY <2>1, <3>1, AdvanceTop
    <3>3. \A e \in Held(t) : e \notin {<<z[1], z[2]>> : z \in Z}
      BY <3>2
    <3> QED BY <1>0, <1>1, <3>1, <3>2, <3>3, Older
  <2>2. CASE d \in 1..Depth /\ Held(stack'[d]) = Held(stack[d])
    <3>1. \A e \in Held(stack[d]) : e \notin Sources /\ e \notin exits /\ e[1] \notin NewPoints
      BY <1>0, <2>2, Older DEF Apart
    <3>2. \A e \in Held(stack[d]) : e \notin {<<z[1], z[2]>> : z \in Z}
      BY <1>3, <3>1
    <3> QED BY <1>1, <1>2, <2>2, <3>1, <3>2
  <2> QED BY <2>1, <2>2, AdvanceAlike DEF Alike
<1>6. ASSUME NEW d \in 1..Depth', NEW k \in 1..Depth', d # k PROVE \A e \in Held(stack'[d]) : e \notin Held(stack'[k])
  <2>1. \A j \in 1..Depth' : (j \in 1..Depth /\ Held(stack'[j]) = Held(stack[j])) \/ (j = Depth + 1 /\ j = Depth')
    BY AdvanceAlike DEF Alike
  <2>2. \A j \in 1..Depth : \A e \in Held(stack[j]) : e[1] \notin NewPoints
    BY <1>0, Older
  <2>3. Depth + 1 = Depth' => \A e \in Held(stack'[Depth + 1]) : e[1] \in NewPoints
    BY AdvanceTop
  <2>4. CASE d \in 1..Depth /\ Held(stack'[d]) = Held(stack[d]) /\ k \in 1..Depth /\ Held(stack'[k]) = Held(stack[k])
    BY <1>6, <2>4 DEF Apart
  <2> QED BY <1>6, <2>1, <2>2, <2>3, <2>4
<1>7. ASSUME NEW d \in 1..Depth' PROVE \A e \in Early(stack'[d]) : e \notin Late(stack'[d])
  <2>1. CASE d = Depth + 1 /\ d = Depth'
    BY <2>1, AdvanceTop
  <2>2. CASE d \in 1..Depth /\ Early(stack'[d]) = Early(stack[d]) /\ Late(stack'[d]) = Late(stack[d])
    BY <2>2 DEF Apart
  <2> QED BY <2>1, <2>2, AdvanceAlike DEF Alike
<1>8. ASSUME NEW d \in 1..Depth' PROVE StepApart(stack'[d])
  <2>1. CASE d = Depth + 1 /\ d = Depth'
    BY <2>1, AdvanceTop DEF StepApart
  <2>2. CASE d \in 1..Depth /\ stack'[d].post = stack[d].post /\ stack'[d].continues = stack[d].continues
    BY <2>2 DEF Apart, StepApart
  <2> QED BY <2>1, <2>2, AdvanceAlike DEF Alike
<1> QED BY <1>4, <1>5, <1>6, <1>7, <1>8 DEF Apart

\* Advance keeps FlowFun.
LEMMA AdvanceFun == ASSUME Typed, Typed', Below, Apart, FlowFun, NEW q, NEW Z, Advance(q, Z) PROVE FlowFun'
<1>0. Scalars /\ points' \in Nat
  BY Sizes DEF Advance
<1>1. \A f \in To(q) : <<f[1], f[2]>> \in exits /\ f[3] = q /\ f = <<f[1], f[2], f[3]>>
  <2> SUFFICES ASSUME NEW e \in exits, NEW f, f = <<e[1], e[2], q>> PROVE <<f[1], f[2]>> \in exits /\ f[3] = q /\ f = <<f[1], f[2], f[3]>>
    BY DEF To
  <2>1. e = <<e[1], e[2]>>
    BY ExitIs
  <2> QED BY <2>1
<1>2. \A f \in flow : <<f[1], f[2]>> \in Sources
  BY DEF Sources
<1>3. \A e \in exits : e \notin Sources /\ e[1] \notin NewPoints
  BY <1>0, Older DEF Apart
<1>4. \A z \in Z : z = <<q, "next", q + 1>> /\ z[1] \in NewPoints
  BY DEF Advance
<1>5. \A f \in flow : f[1] \notin NewPoints
  <2>1. \A f \in flow : <<f[1], f[2]>>[1] = f[1]
    OBVIOUS
  <2> QED BY <1>0, <1>2, <2>1, Older
<1>6. \A f \in To(q) : f[1] \notin NewPoints
  <2>1. \A f \in To(q) : <<f[1], f[2]>>[1] = f[1]
    OBVIOUS
  <2> QED BY <1>1, <1>3, <2>1
<1>7. flow' = flow \union To(q) \union Z
  BY DEF Advance
<1> SUFFICES ASSUME NEW f \in flow', NEW g \in flow', f[1] = g[1], f[2] = g[2] PROVE f = g
  BY DEF FlowFun
<1>8. CASE f \in Z
  BY <1>4, <1>5, <1>6, <1>7, <1>8
<1>9. CASE g \in Z
  BY <1>4, <1>5, <1>6, <1>7, <1>9
<1>10. CASE f \in To(q) /\ g \in To(q)
  BY <1>1, <1>10
<1>11. CASE f \in flow /\ g \in flow
  BY <1>11 DEF FlowFun
<1>12. CASE f \in flow /\ g \in To(q)
  BY <1>1, <1>2, <1>3, <1>12
<1>13. CASE f \in To(q) /\ g \in flow
  BY <1>1, <1>2, <1>3, <1>13
<1> QED BY <1>7, <1>8, <1>9, <1>10, <1>11, <1>12, <1>13

\* The points that control comes to after Advance.
LEMMA AdvanceSeen ==
    ASSUME Typed, Typed', Below, NEW q, NEW Z, Advance(q, Z)
    PROVE  /\ \A p : Seen(p) => Enters(flow', p)
           /\ \A p \in 0..points : Enters(flow', p) => Seen(p)
           /\ Reached /\ Z = {} => Enters(flow', q)
           /\ Z # {} => Enters(flow', q + 1) /\ Reached
           /\ \A p \in Nat : p # q /\ (Z # {} => p # q + 1) => (Enters(flow', p) => Seen(p))
           /\ ~Reached /\ q # Exit /\ q # Stray => ~Enters(flow', q)
<1>0. Scalars /\ points' \in Nat /\ points \in Nat
  BY Sizes DEF Advance
<1>1. \A p : Enters(flow', p) <=> Seen(p) \/ (Reached /\ p = q) \/ \E z \in Z : z[3] = p
  BY <1>0, ToSources DEF Advance
<1>2. \A z \in Z : z[3] = q + 1 /\ q + 1 \in NewPoints /\ Reached
  BY DEF Advance
<1>3. q \in NewPoints \union {Exit, Stray} /\ \A p \in 0..points : p \notin NewPoints /\ p # Exit /\ p # Stray
  BY <1>0 DEF Advance, NewPoints, Exit, Stray
<1>4. \A p \in NewPoints : ~Seen(p)
  BY <1>0, Older
<1> QED BY <1>1, <1>2, <1>3, <1>4

\* Advance keeps PostFree.
LEMMA AdvancePost == ASSUME Typed, Typed', Below, PostFree, NEW q, NEW Z, Advance(q, Z) PROVE PostFree'
<1>0. points' \in Nat /\ points \in Nat
  BY Sizes DEF Advance
<1>1. ASSUME NEW d \in 1..Depth', stack'[d].post # 0 PROVE ~Enters(flow', stack'[d].post)
  <2>1. CASE d = Depth + 1 /\ d = Depth'
    <3>1. PICK t : t = stack'[d]
      OBVIOUS
    <3>2. t.post \in NewPoints /\ t.post # q /\ (Z # {} => t.post # q + 1)
      BY <1>1, <2>1, <3>1, AdvanceTop
    <3>3. ~Seen(t.post) /\ t.post \in Nat
      BY <1>0, <3>2, Older DEF NewPoints
    <3>4. ~Enters(flow', t.post)
      BY <3>2, <3>3, AdvanceSeen
    <3> QED BY <3>1, <3>4
  <2>2. CASE d \in 1..Depth /\ stack'[d].post = stack[d].post
    <3>1. stack[d].post \in 0..points
      BY <1>0, <2>2, Sizes DEF Below
    <3>2. ~Seen(stack[d].post)
      BY <1>1, <2>2 DEF PostFree
    <3> QED BY <2>2, <3>1, <3>2, AdvanceSeen
  <2> QED BY <2>1, <2>2, AdvanceAlike DEF Alike
<1> QED BY <1>1 DEF PostFree, Seen

\* Advance keeps Reach.
LEMMA AdvanceReach == ASSUME Typed, Typed', Reach, NEW q, NEW Z, Advance(q, Z) PROVE Reach'
<1> SUFFICES ASSUME NEW C \in SUBSET Int, Closed(C)'
             PROVE  /\ \A e \in exits' : e[1] \in C
                    /\ \A d \in 1..Depth' : \A e \in Dangling(stack'[d]) : e[1] \in C
                    /\ \A f \in flow' : f[1] \in C
  BY DEF Reach
<1>0. flow' = flow \union To(q) \union Z
  BY DEF Advance
<1>1. Closed(C)
  BY <1>0 DEF Closed
<1>2. /\ \A e \in exits : e[1] \in C
      /\ \A d \in 1..Depth : \A e \in Dangling(stack[d]) : e[1] \in C
      /\ \A f \in flow : f[1] \in C
  BY <1>1 DEF Reach
<1>3. \A f \in To(q) : f[1] \in C /\ f[3] = q
  BY <1>2 DEF To
<1>4. Reached => q \in C
  <2> SUFFICES ASSUME Reached PROVE q \in C
    OBVIOUS
  <2>1. PICK e \in exits : TRUE
    BY DEF Reached
  <2>2. PICK f \in To(q) : f = <<e[1], e[2], q>>
    BY DEF To
  <2> QED BY <1>0, <1>3, <2>2 DEF Closed
<1>5. \A z \in Z : z[1] = q /\ z[3] = q + 1 /\ Reached
  BY DEF Advance
<1>6. Z # {} => q + 1 \in C
  BY <1>0, <1>4, <1>5 DEF Closed
<1>7. \A e \in exits' : e[1] \in C
  BY <1>4, <1>6 DEF Advance
<1>8. ASSUME NEW d \in 1..Depth' PROVE \A e \in Dangling(stack'[d]) : e[1] \in C
  <2>1. CASE d = Depth + 1 /\ d = Depth'
    <3>1. PICK t : t = stack'[d]
      OBVIOUS
    <3>2. t.point = (IF Z = {} THEN q ELSE q + 1) /\ \A e \in Dangling(t) : Reached /\ e[1] = t.point
      BY <2>1, <3>1, AdvanceTop
    <3> QED BY <1>4, <1>6, <3>1, <3>2
  <2>2. CASE d \in 1..Depth /\ Dangling(stack'[d]) = Dangling(stack[d])
    BY <1>2, <2>2
  <2> QED BY <2>1, <2>2, AdvanceAlike DEF Alike
<1>9. \A f \in flow' : f[1] \in C
  BY <1>0, <1>2, <1>3, <1>4, <1>5
<1> QED BY <1>7, <1>8, <1>9

\* Advance keeps Entered.
LEMMA AdvanceEntered == ASSUME Typed, Typed', Below, Entered, NEW q, NEW Z, Advance(q, Z) PROVE Entered'
<1>0. Depth \in Nat /\ points \in Nat /\ points' \in Nat /\ Depth' \in {Depth, Depth + 1}
  BY Sizes, AdvanceAlike DEF Alike, Advance
<1> SUFFICES ASSUME NEW d \in 2..Depth'
             PROVE  /\ exits' # {} => Enters(flow', stack'[d].point)
                    /\ \A k \in d..Depth' : Dangling(stack'[k]) # {} => Enters(flow', stack'[d].point)
                    /\ \A k \in d..Depth' : Enters(flow', stack'[k].point) => Enters(flow', stack'[d].point)
  BY DEF Entered, Seen
<1>1. exits' # {} => Reached
  BY DEF Advance
<1>2. \A k \in 1..Depth' : \/ k \in 1..Depth /\ Dangling(stack'[k]) = Dangling(stack[k]) /\ stack'[k].point = stack[k].point
                           \/ k = Depth + 1 /\ k = Depth'
  BY AdvanceAlike DEF Alike
<1>3. \A k \in 1..Depth : stack[k].point \in 0..points
  BY <1>0, Sizes DEF Below
<1>4. \A p : Seen(p) => Enters(flow', p)
  BY AdvanceSeen
<1>5. \A p \in 0..points : Enters(flow', p) => Seen(p)
  BY AdvanceSeen
<1>8. ASSUME NEW k, k = Depth + 1, k = Depth'
      PROVE  /\ Dangling(stack'[k]) # {} => Reached
             /\ Enters(flow', stack'[k].point) <=> Reached
  <2>1. PICK t : t = stack'[k]
    OBVIOUS
  <2>2. t.point = (IF Z = {} THEN q ELSE q + 1) /\ \A e \in Dangling(t) : Reached /\ e[1] = t.point
    BY <1>8, <2>1, AdvanceTop
  <2>3. t.point \in NewPoints /\ points \in Nat
    BY <1>0, <1>8, <2>1, AdvanceTop
  <2>4. t.point # Exit /\ t.point # Stray
    BY <1>0, <2>3 DEF NewPoints, Exit, Stray
  <2>5. Reached <=> Enters(flow', t.point)
    BY <2>2, <2>4, AdvanceSeen
  <2> QED BY <2>1, <2>2, <2>5
<1>6. CASE d = Depth + 1 /\ d = Depth'
  <2>4. \A k \in d..Depth' : k = d
    BY <1>0, <1>6
  <2> QED BY <1>1, <1>6, <1>8, <2>4
<1>7. CASE d \in 1..Depth /\ stack'[d].point = stack[d].point
  <2>0. d \in 2..Depth
    BY <1>0, <1>7
  <2>1. Reached => Enters(flow', stack'[d].point)
    BY <1>4, <1>7, <2>0 DEF Entered, Reached
  <2>2. ASSUME NEW k \in d..Depth'
        PROVE  /\ Dangling(stack'[k]) # {} => Enters(flow', stack'[d].point)
               /\ Enters(flow', stack'[k].point) => Enters(flow', stack'[d].point)
    <3>1. CASE k \in 1..Depth /\ Dangling(stack'[k]) = Dangling(stack[k]) /\ stack'[k].point = stack[k].point
      <4>1. k \in d..Depth
        BY <1>0, <1>7, <3>1
      <4>2. (Dangling(stack[k]) # {} => Seen(stack[d].point)) /\ (Seen(stack[k].point) => Seen(stack[d].point))
        BY <2>0, <4>1 DEF Entered
      <4>3. Enters(flow', stack[k].point) => Seen(stack[k].point)
        BY <1>3, <1>5, <3>1
      <4>4. Seen(stack[d].point) => Enters(flow', stack[d].point)
        BY <1>4
      <4> QED BY <1>7, <3>1, <4>2, <4>3, <4>4
    <3>2. CASE k = Depth + 1 /\ k = Depth'
      BY <1>8, <2>1, <3>2
    <3>3. k \in 1..Depth'
      BY <1>0
    <3> QED BY <1>2, <3>1, <3>2, <3>3
  <2> QED BY <1>1, <2>1, <2>2
<1>9. d \in 1..Depth'
  BY <1>0
<1> QED BY <1>2, <1>6, <1>7, <1>9

\* InnerLoop is the innermost loop.
LEMMA InnerIs ==
    ASSUME Typed, LoopDepths # {}
    PROVE  InnerLoop \in 1..Depth /\ stack[InnerLoop].kind = "body" /\ \A e \in 1..Depth : stack[e].kind = "body" => e <= InnerLoop
<1>1. Depth \in Nat /\ LoopDepths \subseteq 1..Depth
  BY CurIs DEF LoopDepths
<1>2. PICK T : T = {n \in Nat : \E d \in LoopDepths : n = Depth - d}
  OBVIOUS
<1>3. T \in SUBSET Nat /\ T # {}
  <2>1. PICK d \in LoopDepths : TRUE
    OBVIOUS
  <2>2. Depth - d \in T
    BY <1>1, <1>2, <2>1
  <2> QED BY <1>2, <2>2
<1>4. PICK x \in T : \A y \in T : x <= y
  BY <1>3, NatLeast
<1>5. PICK d \in LoopDepths : x = Depth - d
  BY <1>2
<1>6. \A e \in LoopDepths : e <= d
  <2> SUFFICES ASSUME NEW e \in LoopDepths PROVE e <= d
    OBVIOUS
  <2>1. Depth - e \in T
    BY <1>1, <1>2
  <2> QED BY <1>1, <1>4, <1>5, <2>1
<1>7. InnerLoop \in LoopDepths /\ \A e \in LoopDepths : e <= InnerLoop
  BY <1>6 DEF InnerLoop
<1> QED BY <1>1, <1>7 DEF LoopDepths

\* What the fields of scope s at depth d say, by its kind.
FormedScope(s, d, p) ==
    /\ s.kind = "fn" <=> d = 1
    /\ d > 1 => s.point \in 1..p /\ s.post # s.point
    /\ s.post # 0 <=> s.kind = "body" /\ "step" \in s.form
    /\ s.post \in 0..p
    /\ s.kind = "body" => s.form \in Forms
    /\ s.kind # "body" => s.breaks = {} /\ s.continues = {}
    /\ s.kind = "then" => s.saved = {}
Formed == \A d \in 1..Depth : FormedScope(stack[d], d, points)

\* A scope that goes on stays formed.
LEMMA FormedLike ==
    ASSUME NEW s, NEW t, NEW d, NEW p \in Nat, NEW m \in Nat, p <= m, FormedScope(s, d, p), Core(s, t), Loops(s, t)
    PROVE  FormedScope(t, d, m)
<1>1. \A x \in 0..p : x \in 0..m
  OBVIOUS
<1>2. \A x \in 1..p : x \in 1..m
  OBVIOUS
<1> QED BY <1>1, <1>2 DEF FormedScope, Core, Loops

\* A scope that is opened is formed.
LEMMA FormedOpened ==
    ASSUME NEW s, NEW t, NEW k \in {"if", "then", "else"}, NEW b, Opened(s, t, k, b), NEW d \in Nat, d > 1, NEW p \in Nat, t.point \in 1..p,
           k = "then" => t.saved = {}
    PROVE  FormedScope(t, d, p)
  BY DEF Opened, FormedScope

\* The initial state has Formed.
LEMMA FormedInit == Init => Formed
<1> SUFFICES ASSUME Init PROVE Formed
  OBVIOUS
<1>1. PICK s : s = AddChildScope("fn", 1, [breakBlock |-> Nil, continueBlock |-> Nil, stale |-> FALSE])
  OBVIOUS
<1>2. stack = <<s>> /\ Depth = 1 /\ stack[1] = s /\ points = 0
  BY <1>1 DEF Init, Depth
<1>3. s.kind = "fn" /\ s.post = 0 /\ s.breaks = {} /\ s.continues = {}
  BY <1>1 DEF AddChildScope
<1>4. FormedScope(s, 1, 0)
  BY <1>3 DEF FormedScope
<1> QED BY <1>2, <1>4 DEF Formed

\* A step that makes no new flow: the exits are handed to a scope or taken from the current one.
Regroup ==
    /\ points' = points /\ flow' = flow /\ Len(stack') \in 1..Depth
    /\ \A e \in exits' : e \in exits \/ e \in Dangling(Cur) \/ (e \in Held(Cur) /\ e[1] = Cur.point /\ Seen(Cur.point) /\ Depth > 1)
    /\ \A d \in 1..Len(stack') : /\ stack'[d].point = stack[d].point /\ stack'[d].post = stack[d].post
                                 /\ Held(stack'[d]) \subseteq Held(stack[d]) \union exits
                                 /\ Dangling(stack'[d]) \subseteq Dangling(stack[d]) \union exits

\* Regroup keeps what Source says, but for Apart.
LEMMA RegroupSource ==
    ASSUME Typed, Typed', Below, Entered, PostFree, Reach, FlowFun, Regroup
    PROVE  Below' /\ Entered' /\ PostFree' /\ Reach' /\ FlowFun'
<1>1. points' = points /\ flow' = flow /\ Depth' \in 1..Depth /\ Depth \in Nat /\ points \in Nat
  BY CurIs, Sizes DEF Regroup, Depth
<1>2. \A d \in 1..Depth' : /\ d \in 1..Depth /\ stack'[d].point = stack[d].point /\ stack'[d].post = stack[d].post
                                 /\ Held(stack'[d]) \subseteq Held(stack[d]) \union exits
                                 /\ Dangling(stack'[d]) \subseteq Dangling(stack[d]) \union exits
  BY <1>1 DEF Regroup, Depth
<1>3. \A e \in exits' : e \in exits \/ e \in Dangling(Cur) \/ (e \in Held(Cur) /\ e[1] = Cur.point /\ Seen(Cur.point) /\ Depth > 1)
  BY DEF Regroup
<1>4. Cur = stack[Depth] /\ Depth \in 1..Depth /\ Dangling(Cur) \subseteq Held(Cur)
  BY <1>1, CurIs, HeldIs DEF Cur
<1>5. Below'
  <2>1. \A e \in exits' : e[1] <= points
    BY <1>3, <1>4 DEF Below
  <2>2. \A d \in 1..Depth' : stack'[d].point <= points /\ stack'[d].post <= points /\ \A e \in Held(stack'[d]) : e[1] <= points
    BY <1>2 DEF Below
  <2> QED BY <1>1, <2>1, <2>2 DEF Below
<1>6. PostFree'
  <2>1. \A d \in 1..Depth' : stack'[d].post # 0 => ~Enters(flow, stack'[d].post)
    BY <1>2 DEF PostFree, Seen
  <2> QED BY <1>1, <2>1 DEF PostFree, Seen
<1>7. FlowFun'
  BY <1>1 DEF FlowFun
<1>8. Reach'
  <2> SUFFICES ASSUME NEW C \in SUBSET Int, Closed(C)'
               PROVE  /\ \A e \in exits' : e[1] \in C
                      /\ \A d \in 1..Depth' : \A e \in Dangling(stack'[d]) : e[1] \in C
                      /\ \A f \in flow' : f[1] \in C
    BY DEF Reach
  <2>1. Closed(C)
    BY <1>1 DEF Closed
  <2>2. /\ \A e \in exits : e[1] \in C
        /\ \A d \in 1..Depth : \A e \in Dangling(stack[d]) : e[1] \in C
        /\ \A f \in flow : f[1] \in C
    BY <2>1 DEF Reach
  <2>3. Seen(Cur.point) => Cur.point \in C
    BY <2>1, <2>2 DEF Seen, Enters, Closed
  <2>4. \A e \in exits' : e[1] \in C
    BY <1>3, <1>4, <2>2, <2>3
  <2>5. \A d \in 1..Depth' : \A e \in Dangling(stack'[d]) : e[1] \in C
    BY <1>2, <2>2
  <2> QED BY <1>1, <2>2, <2>4, <2>5
<1>9. Entered'
  <2> SUFFICES ASSUME NEW d \in 2..Depth'
             PROVE  /\ exits' # {} => Enters(flow', stack'[d].point)
                    /\ \A k \in d..Depth' : Dangling(stack'[k]) # {} => Enters(flow', stack'[d].point)
                    /\ \A k \in d..Depth' : Enters(flow', stack'[k].point) => Enters(flow', stack'[d].point)
    BY DEF Entered, Seen
  <2>1. d \in 2..Depth /\ d \in 1..Depth' /\ Depth \in d..Depth /\ \A k \in d..Depth' : k \in 1..Depth' /\ k \in d..Depth
    BY <1>1
  <2>2. /\ exits # {} => Seen(stack[d].point)
        /\ \A k \in d..Depth : Dangling(stack[k]) # {} => Seen(stack[d].point)
        /\ \A k \in d..Depth : Seen(stack[k].point) => Seen(stack[d].point)
    BY <2>1 DEF Entered
  <2>3. exits' # {} => Seen(stack[d].point)
    BY <1>3, <1>4, <2>1, <2>2
  <2>4. \A k \in d..Depth' : Dangling(stack'[k]) # {} => Seen(stack[d].point)
    BY <1>2, <2>1, <2>2
  <2> QED BY <1>1, <1>2, <2>1, <2>2, <2>3, <2>4 DEF Seen
<1> QED BY <1>5, <1>6, <1>7, <1>8, <1>9

\* The exits become what one scope holds.
LEMMA HandApart ==
    ASSUME Typed, Apart, flow' = flow, Len(stack') = Depth, exits' = {},
           NEW L \in 1..Depth,
           \A d \in 1..Depth : d # L => Held(stack'[d]) = Held(stack[d]) /\ Early(stack'[d]) = Early(stack[d]) /\ Late(stack'[d]) = Late(stack[d]),
           Held(stack'[L]) \subseteq Held(stack[L]) \union exits,
           \A e \in Early(stack'[L]) : e \notin Late(stack'[L]),
           \A d \in 1..Depth : stack'[d].post = stack[d].post /\ stack'[d].continues \subseteq stack[d].continues \union exits
    PROVE  Apart'
<1>1. Depth' = Depth /\ Sources' = Sources
  BY DEF Depth, Sources
<1>2. \A d \in 1..Depth : \A e \in Held(stack[d]) : e \notin Sources /\ e \notin exits
  BY DEF Apart
<1>3. \A e \in exits : e \notin Sources
  BY DEF Apart
<1>4. ASSUME NEW d \in 1..Depth PROVE \A e \in Held(stack'[d]) : e \notin Sources
  BY <1>2, <1>3
<1>5. ASSUME NEW d \in 1..Depth, NEW k \in 1..Depth, d # k PROVE \A e \in Held(stack'[d]) : e \notin Held(stack'[k])
  <2>1. \A e \in Held(stack[d]) : e \notin Held(stack[k])
    BY <1>5 DEF Apart
  <2> QED BY <1>2, <1>5, <2>1
<1>6. ASSUME NEW d \in 1..Depth PROVE \A e \in Early(stack'[d]) : e \notin Late(stack'[d])
  BY DEF Apart
<1>7. ASSUME NEW d \in 1..Depth PROVE StepApart(stack'[d])
  <2>1. StepApart(stack[d])
    BY DEF Apart
  <2>2. stack[d].post # 0 => <<stack[d].post, "next">> \in Held(stack[d])
    BY DEF Held, Late
  <2> QED BY <1>2, <2>1, <2>2 DEF StepApart
<1> QED BY <1>1, <1>4, <1>5, <1>6, <1>7 DEF Apart

\* The branch of then is left: its exits are kept, the other exit of the condition goes on.
LEMMA ElseApart ==
    ASSUME Typed, Apart, flow' = flow, Len(stack') = Depth, exits' \subseteq Held(Cur),
           \A d \in 1..Depth : d # Depth => stack'[d] = stack[d],
           Held(stack'[Depth]) \subseteq exits, Late(stack'[Depth]) = {}
    PROVE  Apart'
<1>0. Depth \in 1..Depth /\ Cur = stack[Depth]
  BY CurIs DEF Cur
<1>1. Depth' = Depth /\ Sources' = Sources
  BY DEF Depth, Sources
<1>2. \A d \in 1..Depth : \A e \in Held(stack[d]) : e \notin Sources /\ e \notin exits
  BY DEF Apart
<1>3. \A e \in exits : e \notin Sources
  BY DEF Apart
<1>7. \A d \in 1..Depth : d # Depth => \A e \in Held(stack[d]) : e \notin Held(Cur)
  BY <1>0 DEF Apart
<1>4. ASSUME NEW d \in 1..Depth PROVE \A e \in Held(stack'[d]) : e \notin Sources /\ e \notin exits'
  <2>1. CASE d = Depth
    BY <1>0, <1>2, <1>3, <2>1
  <2>2. CASE d # Depth
    BY <1>2, <1>7, <2>2
  <2> QED BY <2>1, <2>2
<1>5. ASSUME NEW d \in 1..Depth, NEW k \in 1..Depth, d # k PROVE \A e \in Held(stack'[d]) : e \notin Held(stack'[k])
  <2>1. \A e \in Held(stack[d]) : e \notin Held(stack[k])
    BY <1>5 DEF Apart
  <2>2. CASE d = Depth
    BY <1>2, <1>5, <2>2
  <2>3. CASE k = Depth
    BY <1>2, <1>5, <2>3
  <2> QED BY <1>5, <2>1, <2>2, <2>3
<1>6. ASSUME NEW d \in 1..Depth PROVE \A e \in Early(stack'[d]) : e \notin Late(stack'[d])
  BY DEF Apart
<1>8. \A e \in exits' : e \notin Sources
  BY <1>0, <1>2
<1>9. ASSUME NEW d \in 1..Depth PROVE StepApart(stack'[d])
  <2>1. CASE d = Depth
    BY <2>1 DEF StepApart, Late
  <2>2. CASE d # Depth
    BY <2>2 DEF Apart
  <2> QED BY <2>1, <2>2
<1> QED BY <1>1, <1>4, <1>5, <1>6, <1>8, <1>9 DEF Apart

\* A scope is closed and its exits join the current ones; flow grows by edges from S.
LEMMA CloseApart ==
    ASSUME Typed, Apart, Depth > 1, Len(stack') = Depth - 1,
           \A d \in 1..(Depth - 1) : Held(stack'[d]) = Held(stack[d]) /\ Early(stack'[d]) = Early(stack[d]) /\ Late(stack'[d]) = Late(stack[d]),
           \A d \in 1..(Depth - 1) : stack'[d].post = stack[d].post /\ stack'[d].continues = stack[d].continues,
           NEW S, Sources' \subseteq Sources \union S,
           S \subseteq exits \union Held(Cur), exits' \subseteq exits \union Held(Cur), \A e \in exits' : e \notin S
    PROVE  Apart'
<1>0. Depth \in 1..Depth /\ Cur = stack[Depth] /\ Depth \in Nat
  BY CurIs DEF Cur
<1>1. Depth' = Depth - 1
  BY DEF Depth
<1>2. \A d \in 1..Depth : \A e \in Held(stack[d]) : e \notin Sources /\ e \notin exits
  BY DEF Apart
<1>3. \A e \in exits : e \notin Sources
  BY DEF Apart
<1>4. \A d \in 1..(Depth - 1) : d \in 1..Depth /\ d # Depth
  BY <1>0
<1>5. \A d \in 1..(Depth - 1) : \A e \in Held(stack[d]) : e \notin Held(Cur)
  BY <1>0, <1>4 DEF Apart
<1>6. ASSUME NEW d \in 1..(Depth - 1) PROVE \A e \in Held(stack'[d]) : e \notin Sources' /\ e \notin exits'
  BY <1>2, <1>4, <1>5
<1>7. ASSUME NEW d \in 1..(Depth - 1), NEW k \in 1..(Depth - 1), d # k PROVE \A e \in Held(stack'[d]) : e \notin Held(stack'[k])
  BY <1>4, <1>7 DEF Apart
<1>8. ASSUME NEW d \in 1..(Depth - 1) PROVE \A e \in Early(stack'[d]) : e \notin Late(stack'[d])
  BY <1>4 DEF Apart
<1>9. \A e \in exits' : e \notin Sources'
  BY <1>0, <1>2, <1>3
<1>10. ASSUME NEW d \in 1..(Depth - 1) PROVE StepApart(stack'[d])
  BY <1>4 DEF Apart, StepApart
<1> QED BY <1>1, <1>6, <1>7, <1>8, <1>9, <1>10 DEF Apart

\* The end of a loop body: X goes back to the step, or to the condition.
Back == exits \union Cur.continues
BackTo == IF Cur.post # 0 THEN Cur.post ELSE Cur.point
Turns(f) == Back # {} /\ Cur.post # 0 /\ f = <<Cur.post, "next", Cur.point>>
\* what closing a loop does to the source
LoopBack ==
    /\ flow \subseteq flow'
    /\ \A f \in flow' : f \in flow \/ (<<f[1], f[2]>> \in Back /\ f = <<f[1], f[2], BackTo>>) \/ Turns(f)
    /\ \A e \in Back : <<e[1], e[2], BackTo>> \in flow'
    /\ Back # {} /\ Cur.post # 0 => <<Cur.post, "next", Cur.point>> \in flow'
    /\ exits' = Early(Cur) /\ points' = points
    /\ Depth > 1 /\ Len(stack') = Depth - 1 /\ Cur.point \in 1..points /\ Cur.post \in 0..points /\ Cur.post # Cur.point
    /\ \A d \in 1..(Depth - 1) : Alike(stack[d], stack'[d])

\* What goes back are exits.
LEMMA BackIs == ASSUME Typed PROVE Back \subseteq Dangle /\ Back \subseteq exits \union Held(Cur) /\ Cur \in Scope
<1>1. Cur.continues \subseteq Dangling(Cur) /\ Cur \in Scope
  BY CurIs DEF Dangling
<1>2. Dangling(Cur) \subseteq Held(Cur) /\ Held(Cur) \subseteq Dangle
  BY <1>1, HeldIs
<1>3. exits \subseteq Dangle
  BY DEF Typed
<1> QED BY <1>1, <1>2, <1>3 DEF Back

\* Closing a loop keeps Below.
LEMMA BackBelow == ASSUME Typed, Typed', Below, LoopBack PROVE Below'
<1>0. Depth \in 1..Depth /\ Cur = stack[Depth] /\ Depth \in Nat /\ points \in Nat /\ points' = points
  BY CurIs, Sizes DEF Cur, LoopBack
<1>1. \A e \in Back : e[1] <= points
  BY <1>0, BackIs DEF Below
<1>2. \A f \in flow' : f[1] <= points /\ (f[3] \in 1..points \/ f[3] \in {Exit, Stray})
  <2> SUFFICES ASSUME NEW f \in flow' PROVE f[1] <= points /\ (f[3] \in 1..points \/ f[3] \in {Exit, Stray})
    OBVIOUS
  <2>1. CASE f \in flow
    BY <2>1 DEF Below
  <2>2. CASE <<f[1], f[2]>> \in Back /\ f = <<f[1], f[2], BackTo>>
    <3>1. BackTo \in 1..points
      BY <1>0 DEF LoopBack, BackTo
    <3>2. f[3] = BackTo
      BY <2>2
    <3>3. <<f[1], f[2]>>[1] = f[1]
      OBVIOUS
    <3> QED BY <1>1, <2>2, <3>1, <3>2, <3>3
  <2>3. CASE Turns(f)
    BY <1>0, <2>3 DEF LoopBack, Turns
  <2> QED BY <2>1, <2>2, <2>3 DEF LoopBack
<1>3. \A e \in exits' : e[1] <= points
  <2>1. Early(Cur) \subseteq Held(Cur)
    BY BackIs, HeldIs
  <2> QED BY <1>0, <2>1 DEF LoopBack, Below
<1>4. Depth' = Depth - 1
  BY DEF LoopBack, Depth
<1>5. \A d \in 1..(Depth - 1) : stack'[d].point <= points /\ stack'[d].post <= points /\ \A e \in Held(stack'[d]) : e[1] <= points
  BY <1>0 DEF LoopBack, Alike, Below
<1> QED BY <1>0, <1>2, <1>3, <1>4, <1>5 DEF Below

\* Closing a loop keeps Apart.
LEMMA BackApart == ASSUME Typed, Typed', Apart, LoopBack PROVE Apart'
<1>0. Depth \in 1..Depth /\ Cur = stack[Depth] /\ Depth \in Nat /\ Depth > 1 /\ Len(stack') = Depth - 1
  BY CurIs DEF Cur, LoopBack
<1>1. PICK S : S = exits \union Late(Cur)
  OBVIOUS
<1>2. Back \subseteq S /\ (Cur.post # 0 => <<Cur.post, "next">> \in S)
  BY <1>1 DEF Back, Late
<1>3. Sources' \subseteq Sources \union S
  <2> SUFFICES ASSUME NEW f \in flow' PROVE <<f[1], f[2]>> \in Sources \union S
    BY DEF Sources
  <2>1. CASE f \in flow
    BY <2>1 DEF Sources
  <2>2. CASE <<f[1], f[2]>> \in Back
    BY <1>2, <2>2
  <2>3. CASE Turns(f)
    BY <1>2, <2>3 DEF Turns
  <2> QED BY <2>1, <2>2, <2>3 DEF LoopBack
<1>4. Early(Cur) \subseteq Held(Cur) /\ Late(Cur) \subseteq Held(Cur)
  BY BackIs, HeldIs
<1>5. exits' = Early(Cur)
  BY DEF LoopBack
<1>6. \A e \in exits' : e \notin S
  BY <1>0, <1>1, <1>4, <1>5 DEF Apart
<1>7. \A d \in 1..(Depth - 1) : Held(stack'[d]) = Held(stack[d]) /\ Early(stack'[d]) = Early(stack[d]) /\ Late(stack'[d]) = Late(stack[d])
  BY DEF LoopBack, Alike
<1>8. \A d \in 1..(Depth - 1) : stack'[d].post = stack[d].post /\ stack'[d].continues = stack[d].continues
  BY DEF LoopBack, Alike
<1> QED BY <1>0, <1>1, <1>3, <1>4, <1>5, <1>6, <1>7, <1>8, CloseApart

\* Closing a loop keeps FlowFun.
LEMMA BackFun == ASSUME Typed, Typed', Apart, FlowFun, LoopBack PROVE FlowFun'
<1>0. Depth \in 1..Depth /\ Cur = stack[Depth]
  BY CurIs DEF Cur
<1> SUFFICES ASSUME NEW f \in flow', NEW g \in flow', f[1] = g[1], f[2] = g[2] PROVE f = g
  BY DEF FlowFun
<1>1. \A h \in flow : <<h[1], h[2]>> \in Sources
  BY DEF Sources
<1>2. \A e \in Back : e \notin Sources
  BY <1>0, BackIs DEF Apart
<1>3. ASSUME Cur.post # 0 PROVE <<Cur.post, "next">> \notin Sources /\ <<Cur.post, "next">> \notin Back
  <2>1. <<Cur.post, "next">> \in Held(Cur)
    BY <1>3 DEF Held, Late
  <2>2. <<Cur.post, "next">> \notin Cur.continues
    BY <1>0, <1>3 DEF Apart, StepApart
  <2> QED BY <1>0, <2>1, <2>2 DEF Apart, Back
<1>4. \A h : Turns(h) => <<h[1], h[2]>> = <<Cur.post, "next">> /\ Cur.post # 0
  BY DEF Turns
<1>5. \A h \in flow' : \/ h \in flow /\ <<h[1], h[2]>> \in Sources
                       \/ <<h[1], h[2]>> \in Back /\ h = <<h[1], h[2], BackTo>>
                       \/ Turns(h) /\ <<h[1], h[2]>> \notin Sources /\ <<h[1], h[2]>> \notin Back
  BY <1>1, <1>3, <1>4 DEF LoopBack
<1>6. <<f[1], f[2]>> = <<g[1], g[2]>>
  OBVIOUS
<1>7. CASE f \in flow /\ g \in flow
  BY <1>7 DEF FlowFun
<1>8. CASE Turns(f) /\ Turns(g)
  BY <1>8 DEF Turns
<1> QED BY <1>2, <1>5, <1>6, <1>7, <1>8

\* The points that control comes to after a loop is closed.
LEMMA BackSeen ==
    ASSUME Typed, LoopBack, Entered
    PROVE  /\ \A p : Seen(p) => Enters(flow', p)
           /\ \A p : Enters(flow', p) => Seen(p) \/ (Cur.post # 0 /\ p = Cur.post)
           /\ Back # {} => \A d \in 2..Depth : Seen(stack[d].point)
<1>0. Depth \in 1..Depth /\ Cur = stack[Depth] /\ Depth \in Nat /\ Depth > 1
  BY CurIs DEF Cur, LoopBack
<1>1. \A p : Seen(p) => Enters(flow', p)
  BY DEF LoopBack, Seen, Enters
<1>2. ASSUME Back # {} PROVE \A d \in 2..Depth : Seen(stack[d].point)
  <2>1. exits # {} \/ Dangling(Cur) # {}
    BY <1>2 DEF Back, Dangling
  <2>2. \A d \in 2..Depth : Depth \in d..Depth
    BY <1>0
  <2> QED BY <1>0, <2>1, <2>2 DEF Entered
<1>3. Back # {} => Seen(Cur.point)
  BY <1>0, <1>2
<1>4. ASSUME NEW f \in flow' PROVE Seen(f[3]) \/ (Cur.post # 0 /\ f[3] = Cur.post)
  <2>1. CASE f \in flow
    BY <2>1 DEF Seen, Enters
  <2>2. CASE <<f[1], f[2]>> \in Back /\ f = <<f[1], f[2], BackTo>>
    <3>1. f[3] = BackTo
      BY <2>2
    <3> QED BY <1>3, <2>2, <3>1 DEF BackTo
  <2>3. CASE Turns(f)
    <3>1. f[3] = Cur.point /\ Back # {}
      BY <2>3 DEF Turns
    <3> QED BY <1>3, <3>1
  <2> QED BY <2>1, <2>2, <2>3 DEF LoopBack
<1>5. \A p : Enters(flow', p) => Seen(p) \/ (Cur.post # 0 /\ p = Cur.post)
  BY <1>4 DEF Enters
<1> QED BY <1>1, <1>2, <1>5

\* Closing a loop keeps the rest of Source.
LEMMA BackRest == ASSUME Typed, Typed', Below, Apart, Entered, PostFree, Reach, LoopBack PROVE Entered' /\ PostFree' /\ Reach'
<1>0. Depth \in 1..Depth /\ Cur = stack[Depth] /\ Depth \in Nat /\ Depth > 1 /\ Depth' = Depth - 1
  BY CurIs DEF Cur, LoopBack, Depth
<1>1. \A d \in 1..Depth' : d \in 1..Depth /\ d # Depth /\ stack'[d].point = stack[d].point /\ stack'[d].post = stack[d].post /\ Dangling(stack'[d]) = Dangling(stack[d])
  BY <1>0 DEF LoopBack, Alike
<1>2. \A d \in 1..Depth : stack[d].post # 0 => <<stack[d].post, "next">> \in Held(stack[d])
  BY DEF Held, Late
<1>3. PostFree'
  <2> SUFFICES ASSUME NEW d \in 1..Depth', stack'[d].post # 0 PROVE ~Enters(flow', stack'[d].post)
    BY DEF PostFree, Seen
  <2>1. stack[d].post # 0 /\ ~Seen(stack[d].post) /\ d # Depth /\ d \in 1..Depth
    BY <1>1 DEF PostFree
  <2>2. Cur.post # 0 => stack[d].post # Cur.post
    BY <1>0, <1>2, <2>1, ZenonT(30) DEF Apart
  <2> QED BY <1>1, <2>1, <2>2, BackSeen
<1>4. Entered'
  <2> SUFFICES ASSUME NEW d \in 2..Depth'
             PROVE  /\ exits' # {} => Enters(flow', stack'[d].point)
                    /\ \A k \in d..Depth' : Dangling(stack'[k]) # {} => Enters(flow', stack'[d].point)
                    /\ \A k \in d..Depth' : Enters(flow', stack'[k].point) => Enters(flow', stack'[d].point)
    BY DEF Entered, Seen
  <2>1. d \in 2..Depth /\ d \in 1..Depth' /\ Depth \in d..Depth /\ \A k \in d..Depth' : k \in 1..Depth' /\ k \in d..Depth
    BY <1>0
  <2>2. /\ exits # {} => Seen(stack[d].point)
        /\ \A k \in d..Depth : Dangling(stack[k]) # {} => Seen(stack[d].point)
        /\ \A k \in d..Depth : Seen(stack[k].point) => Seen(stack[d].point)
    BY <2>1 DEF Entered
  <2>3. exits' \subseteq Dangling(Cur)
    BY DEF LoopBack, Early, Dangling
  <2>4. Seen(stack[d].point) => Enters(flow', stack'[d].point)
    BY <1>1, <2>1, BackSeen
  <2>5. exits' # {} => Seen(stack[d].point)
    BY <1>0, <2>1, <2>2, <2>3
  <2>6. \A k \in d..Depth' : Dangling(stack'[k]) # {} => Seen(stack[d].point)
    BY <1>1, <2>1, <2>2
  <2>7. ASSUME NEW k \in d..Depth', Enters(flow', stack'[k].point) PROVE Seen(stack[d].point)
    <3>1. CASE Seen(stack[k].point)
      BY <2>1, <2>2, <3>1
    <3>2. CASE ~Seen(stack[k].point)
      <4>1. flow' # flow
        BY <1>1, <2>1, <2>7, <3>2 DEF Seen
      <4>2. Back # {}
        BY <4>1 DEF LoopBack, Turns
      <4> QED BY <2>1, <4>2, BackSeen
    <3> QED BY <3>1, <3>2
  <2> QED BY <2>4, <2>5, <2>6, <2>7
<1>5. Reach'
  <2> SUFFICES ASSUME NEW C \in SUBSET Int, Closed(C)'
               PROVE  /\ \A e \in exits' : e[1] \in C
                      /\ \A d \in 1..Depth' : \A e \in Dangling(stack'[d]) : e[1] \in C
                      /\ \A f \in flow' : f[1] \in C
    BY DEF Reach
  <2>1. Closed(C)
    BY DEF Closed, LoopBack
  <2>2. /\ \A e \in exits : e[1] \in C
        /\ \A d \in 1..Depth : \A e \in Dangling(stack[d]) : e[1] \in C
        /\ \A f \in flow : f[1] \in C
    BY <2>1 DEF Reach
  <2>3. \A e \in Back : e[1] \in C
    BY <1>0, <2>2 DEF Back, Dangling
  <2>4. \A e \in exits' : e[1] \in C
    <3>1. exits' \subseteq Dangling(Cur)
      BY DEF LoopBack, Early, Dangling
    <3> QED BY <1>0, <2>2, <3>1
  <2>5. \A d \in 1..Depth' : \A e \in Dangling(stack'[d]) : e[1] \in C
    BY <1>1, <2>2
  <2>6. Back # {} => BackTo \in C
    <3> SUFFICES ASSUME NEW e \in Back PROVE BackTo \in C
      OBVIOUS
    <3>1. PICK f \in flow' : f = <<e[1], e[2], BackTo>>
      BY DEF LoopBack
    <3>2. f[1] \in C /\ f[3] = BackTo
      BY <2>3, <3>1
    <3> QED BY <3>2 DEF Closed
  <2>7. ASSUME NEW f \in flow' PROVE f[1] \in C
    <3>1. CASE f \in flow
      BY <2>2, <3>1
    <3>2. CASE <<f[1], f[2]>> \in Back
      <4>1. <<f[1], f[2]>>[1] = f[1]
        OBVIOUS
      <4> QED BY <2>3, <3>2, <4>1
    <3>3. CASE Turns(f)
      BY <2>6, <3>3 DEF Turns, BackTo
    <3> QED BY <3>1, <3>2, <3>3 DEF LoopBack
  <2> QED BY <2>4, <2>5, <2>7
<1> QED BY <1>3, <1>4, <1>5

\* CloseFor is such a step.
LEMMA LoopBackIs == ASSUME Typed, Formed, CloseFor PROVE LoopBack
<1>0. Depth \in 1..Depth /\ Cur = stack[Depth] /\ Depth \in Nat /\ Depth > 1 /\ points \in Nat /\ Cur.kind = "body" /\ Cur \in Scope
  BY CurIs, Sizes DEF Cur, CloseFor
<1>1. FormedScope(Cur, Depth, points)
  BY <1>0 DEF Formed
<1>2. /\ Cur.point \in 1..points /\ Cur.post # Cur.point /\ Cur.post \in 0..points
      /\ Cur.post # 0 <=> "step" \in Cur.form
  BY <1>0, <1>1 DEF FormedScope
<1>3. PICK b \in Nat, x \in {"if", "open"} : Pop(b, x)
  BY <1>0 DEF CloseFor, Scope
<1>4. PICK s : s = stack'[Depth - 1]
  OBVIOUS
<1>5. /\ Len(stack') = Depth - 1 /\ \A d \in 1..(Depth - 2) : stack'[d] = stack[d]
      /\ Core(Parent, s) /\ Loops(Parent, s)
  BY <1>0, <1>3, <1>4, PopStack
<1>6. ASSUME NEW d \in 1..(Depth - 1) PROVE Alike(stack[d], stack'[d])
  <2>1. CASE d = Depth - 1
    BY <1>4, <1>5, <2>1, SameHeld DEF Alike, Parent
  <2>2. CASE d # Depth - 1
    <3>1. d \in 1..(Depth - 2)
      BY <1>0, <2>2
    <3> QED BY <1>5, <3>1 DEF Alike
  <2> QED BY <2>1, <2>2
<1>7. exits' = Early(Cur) /\ points' = points
  BY DEF CloseFor, Early
<1>8. PICK X : X = Back
  OBVIOUS
<1>9. \A e \in X : e = <<e[1], e[2]>>
  BY <1>8, BackIs, DangleElse
<1>10. CASE "step" \in Cur.form /\ X # {}
  <2>1. flow' = flow \union {<<e[1], e[2], Cur.point>> : e \in {<<Cur.post, "next">>}} \union {<<e[1], e[2], Cur.post>> : e \in X}
    BY <1>8, <1>10 DEF CloseFor, Back
  <2>2. {<<e[1], e[2], Cur.point>> : e \in {<<Cur.post, "next">>}} = {<<Cur.post, "next", Cur.point>>}
    OBVIOUS
  <2>3. BackTo = Cur.post /\ Cur.post # 0
    BY <1>2, <1>10 DEF BackTo
  <2>4. \A f \in {<<e[1], e[2], Cur.post>> : e \in X} : <<f[1], f[2]>> \in X /\ f = <<f[1], f[2], Cur.post>>
    BY <1>9
  <2>5. \A e \in Back : <<e[1], e[2], BackTo>> \in flow'
    BY <1>8, <2>1, <2>3
  <2>6. \A f \in flow' : f \in flow \/ (<<f[1], f[2]>> \in Back /\ f = <<f[1], f[2], BackTo>>) \/ Turns(f)
    BY <1>8, <1>10, <2>1, <2>2, <2>3, <2>4 DEF Turns
  <2>7. flow \subseteq flow' /\ <<Cur.post, "next", Cur.point>> \in flow'
    BY <2>1, <2>2
  <2> QED BY <1>0, <1>2, <1>5, <1>6, <1>7, <2>5, <2>6, <2>7 DEF LoopBack
<1>11. CASE ~("step" \in Cur.form /\ X # {})
  <2>1. flow' = flow \union {<<e[1], e[2], Cur.point>> : e \in X}
    BY <1>8, <1>11 DEF CloseFor, Back
  <2>3. X # {} => BackTo = Cur.point /\ Cur.post = 0
    BY <1>2, <1>11 DEF BackTo
  <2>4. \A f \in {<<e[1], e[2], Cur.point>> : e \in X} : <<f[1], f[2]>> \in X /\ f = <<f[1], f[2], Cur.point>>
    BY <1>9
  <2>5. \A e \in Back : <<e[1], e[2], BackTo>> \in flow'
    BY <1>8, <2>1, <2>3
  <2>6. \A f \in flow' : f \in flow \/ (<<f[1], f[2]>> \in Back /\ f = <<f[1], f[2], BackTo>>) \/ Turns(f)
    BY <1>8, <2>1, <2>3, <2>4 DEF Turns
  <2>7. flow \subseteq flow' /\ (Back # {} => Cur.post = 0)
    BY <1>8, <2>1, <2>3
  <2> QED BY <1>0, <1>2, <1>5, <1>6, <1>7, <2>5, <2>6, <2>7 DEF LoopBack
<1> QED BY <1>10, <1>11

\* What holds of the source and its exits, whatever the blocks are.
Source == Formed /\ Below /\ Apart /\ FlowFun /\ Entered /\ PostFree /\ Reach

\* Advance keeps Source.
LEMMA SourceAdvance == ASSUME Typed, Typed', Source, NEW q, NEW Z, Advance(q, Z), Formed' PROVE Source'
<1>1. Below' /\ Apart' /\ FlowFun'
  BY AdvanceBelow, AdvanceApart, AdvanceFun DEF Source
<1>2. Entered' /\ PostFree' /\ Reach'
  BY AdvanceEntered, AdvancePost, AdvanceReach DEF Source
<1> QED BY <1>1, <1>2 DEF Source

\* Scopes that go on, and one that is opened, stay formed.
LEMMA FormedTop ==
    ASSUME Typed, Formed, points' \in Nat, points <= points', Len(stack') \in {Depth, Depth + 1},
           \A d \in 1..Depth : Core(stack[d], stack'[d]) /\ Loops(stack[d], stack'[d]),
           Len(stack') = Depth + 1 => FormedScope(stack'[Depth + 1], Depth + 1, points')
    PROVE  Formed'
<1>1. Depth \in Nat /\ points \in Nat /\ Depth' = Len(stack')
  BY Sizes DEF Depth
<1>2. \A d \in 1..Depth : FormedScope(stack'[d], d, points')
  BY <1>1, FormedLike DEF Formed
<1>3. \A d \in 1..Depth' : d \in 1..Depth \/ (Len(stack') = Depth + 1 /\ d = Depth + 1)
  BY <1>1
<1> QED BY <1>2, <1>3 DEF Formed

\* A step of the current scope keeps Source.
LEMMA SourceSame ==
    ASSUME Typed, Typed', Source, points <= points',
           NEW q, q \in NewPoints \union {Exit, Stray}, flow' = flow \union To(q),
           \A e \in exits' : Reached /\ e[1] = q /\ q \in NewPoints,
           Len(stack') = Depth, \A d \in 1..Depth : d # Depth => stack'[d] = stack[d],
           Core(Cur, stack'[Depth]), Loops(Cur, stack'[Depth])
    PROVE  Source'
<1>1. \A d \in 1..Depth : Core(stack[d], stack'[d]) /\ Loops(stack[d], stack'[d])
  BY SelfIs DEF Cur
<1>2. Depth \in Nat /\ points \in Nat /\ points' \in Nat
  BY CurIs DEF Typed
<1>3. Formed'
  BY <1>1, <1>2, FormedTop DEF Source
<1>4. PICK Z : Z = {}
  OBVIOUS
<1>5. Advance(q, Z)
  BY <1>1, <1>2, <1>4 DEF Advance
<1> QED BY <1>3, <1>5, SourceAdvance

\* A step that does nothing to the source keeps Source.
LEMMA SourceKept == ASSUME Source, points' = points, flow' = flow, exits' = exits, stack' = stack PROVE Source'
<1>1. Formed' /\ Below'
  BY DEF Source, Formed, Below, Depth
<1>2. Apart' /\ FlowFun'
  BY DEF Source, Apart, Sources, FlowFun, Depth
<1>3. Entered' /\ PostFree' /\ Reach'
  BY DEF Source, Entered, PostFree, Reach, Closed, Seen, Depth
<1> QED BY <1>1, <1>2, <1>3 DEF Source

\* A simple statement keeps what Source says of the source.
LEMMA SourceStatement == ASSUME Typed, Typed', Source, NEW isDef \in BOOLEAN, Statement(isDef) PROVE Source'
<1>1. PICK q : q = points + 1
  OBVIOUS
<1>2. points' = q /\ flow' = flow \union To(q) /\ exits' = (IF Reached THEN {<<q, "next">>} ELSE {})
  BY <1>1 DEF Statement
<1>3. points \in Nat /\ q \in NewPoints
  BY <1>1, <1>2, Sizes DEF NewPoints
<1>4. \A e \in exits' : Reached /\ e[1] = q
  BY <1>2
<1>5. PICK t : t = stack'[Depth]
  OBVIOUS
<1>6. Len(stack') = Depth /\ (\A d \in 1..Depth : d # Depth => stack'[d] = stack[d]) /\ Core(Cur, t) /\ Loops(Cur, t)
  BY <1>5, StatementStack
<1> QED BY <1>1, <1>2, <1>3, <1>4, <1>5, <1>6, SourceSame

\* Yield or await keeps what Source says of the source.
LEMMA SourceSuspend == ASSUME Typed, Typed', Source, Suspend PROVE Source'
<1>1. PICK q : q = points + 1
  OBVIOUS
<1>2. points' = q /\ flow' = flow \union To(q) /\ exits' = (IF Reached THEN {<<q, "resume">>} ELSE {})
  BY <1>1 DEF Suspend
<1>3. points \in Nat /\ q \in NewPoints
  BY <1>1, <1>2, Sizes DEF NewPoints
<1>4. \A e \in exits' : Reached /\ e[1] = q
  BY <1>2
<1>5. PICK t : t = stack'[Depth]
  OBVIOUS
<1>7. PICK b \in Nat, x \in {"open", "ended"} : SetCur(Moved(Cur, b, x))
  <2>1. N + 1 \in Nat
    BY BlockIs
  <2> QED BY <2>1 DEF Suspend, Moved, N
<1>6. Len(stack') = Depth /\ (\A d \in 1..Depth : d # Depth => stack'[d] = stack[d]) /\ Core(Cur, t) /\ Loops(Cur, t)
  BY <1>5, <1>7, MovedStack
<1> QED BY <1>1, <1>2, <1>3, <1>4, <1>5, <1>6, SourceSame

\* Return keeps what Source says of the source.
LEMMA SourceRet == ASSUME Typed, Typed', Source, Ret PROVE Source'
<1>1. PICK q : q = Exit
  OBVIOUS
<1>2. points' = points /\ flow' = flow \union To(q) /\ exits' = {} /\ points \in Nat
  BY <1>1, Sizes DEF Ret
<1>5. PICK t : t = stack'[Depth]
  OBVIOUS
<1>6. Len(stack') = Depth /\ (\A d \in 1..Depth : d # Depth => stack'[d] = stack[d]) /\ Core(Cur, t) /\ Loops(Cur, t)
  <2>1. CASE mode = "async"
    <3>7. PICK b \in Nat, x \in {"open", "ended"} : SetCur(Moved(Cur, b, x))
      <4>1. N + 1 \in Nat
        BY BlockIs
      <4> QED BY <2>1, <4>1 DEF Ret, Moved, N
    <3> QED BY <1>5, <3>7, MovedStack
  <2>2. CASE mode # "async"
    <3>1. PICK j \in {"ret", "break", "continue"} : SetCur(Jump(j))
      BY <2>2 DEF Ret
    <3> QED BY <1>5, <3>1, JumpStack
  <2> QED BY <2>1, <2>2
<1> QED BY <1>1, <1>2, <1>5, <1>6, SourceSame

\* The end of the function keeps what Source says of the source.
LEMMA SourceFinish == ASSUME Typed, Typed', Source, Finish PROVE Source'
<1>1. PICK q : q = Exit
  OBVIOUS
<1>2. points' = points /\ flow' = flow \union To(q) /\ exits' = {} /\ points \in Nat /\ stack' = stack
  BY <1>1, Sizes DEF Finish
<1>6. Len(stack') = Depth /\ (\A d \in 1..Depth : d # Depth => stack'[d] = stack[d]) /\ Core(Cur, stack'[Depth]) /\ Loops(Cur, stack'[Depth])
  BY <1>2, SelfIs DEF Depth, Cur
<1> QED BY <1>1, <1>2, <1>6, SourceSame

\* Break or continue keeps what Source says of the source.
LEMMA SourceJump ==
    ASSUME Typed, Typed', Source, NEW j \in {"break", "continue"}, NEW target, BreakOrContinue(j, target)
    PROVE  Source'
<1>0. points' = points /\ points \in Nat /\ Depth \in Nat /\ Depth \in 1..Depth
  BY Sizes DEF BreakOrContinue
<1>1. CASE target = Nil
  BY <1>0, <1>1, SourceKept DEF BreakOrContinue
<1>2. CASE target # Nil /\ LoopDepths = {}
  <2>1. PICK q : q = Stray
    OBVIOUS
  <2>2. flow' = flow \union To(q) /\ exits' = {} /\ SetCur(Jump(j))
    BY <1>2, <2>1 DEF BreakOrContinue
  <2>5. PICK t : t = stack'[Depth]
    OBVIOUS
  <2>6. Len(stack') = Depth /\ (\A d \in 1..Depth : d # Depth => stack'[d] = stack[d]) /\ Core(Cur, t) /\ Loops(Cur, t)
    BY <2>2, <2>5, JumpStack
  <2> QED BY <1>0, <2>1, <2>2, <2>5, <2>6, SourceSame
<1>3. CASE target # Nil /\ LoopDepths # {}
  <2>0. PICK L : L = InnerLoop
    OBVIOUS
  <2>1. L \in 1..Depth /\ stack[L].kind = "body"
    BY <1>3, <2>0, InnerIs
  <2>2. flow' = flow /\ exits' = {}
    BY <1>3 DEF BreakOrContinue
  <2>3. Len(stack') = Depth /\ \A d \in 1..Depth : Handed(j, L, d, stack[d], stack'[d])
    BY <1>3, <2>0, LoopJumpStack
  <2>4. \A d \in 1..Depth : Held(stack[d]) \cap exits = {} /\ \A e \in Early(stack[d]) : e \notin Late(stack[d])
    BY DEF Source, Apart
  <2>5. ASSUME NEW d \in 1..Depth
        PROVE  /\ stack'[d].point = stack[d].point /\ stack'[d].post = stack[d].post /\ stack'[d].kind = stack[d].kind
               /\ stack'[d].continues \subseteq stack[d].continues \union exits
               /\ Held(stack'[d]) \subseteq Held(stack[d]) \union exits
               /\ Dangling(stack'[d]) \subseteq Dangling(stack[d]) \union exits
    BY <2>3, ZenonT(30) DEF Handed, Core, Held, Early, Late, Other, Dangling
  <2>6. ASSUME NEW d \in 1..Depth, d # L
        PROVE  Held(stack'[d]) = Held(stack[d]) /\ Early(stack'[d]) = Early(stack[d]) /\ Late(stack'[d]) = Late(stack[d])
    BY <2>3, <2>6 DEF Handed, Core, Held, Early, Late, Other
  <2>7. \A e \in Early(stack'[L]) : e \notin Late(stack'[L])
    <3>1. Handed(j, L, L, stack[L], stack'[L])
      BY <2>1, <2>3
    <3>2. \A e \in Early(stack[L]) : e \notin Late(stack[L]) /\ e \notin exits
      BY <2>1, <2>4 DEF Held
    <3>3. \A e \in Late(stack[L]) : e \notin exits
      BY <2>1, <2>4 DEF Held
    <3>4. CASE j = "break"
      <4>1. Early(stack'[L]) = Early(stack[L]) \union exits /\ Late(stack'[L]) = Late(stack[L])
        BY <3>1, <3>4 DEF Handed, Core, Early, Late
      <4> QED BY <3>2, <3>3, <4>1
    <3>5. CASE j = "continue"
      <4>1. Early(stack'[L]) = Early(stack[L]) /\ Late(stack'[L]) = Late(stack[L]) \union exits
        BY <3>1, <3>5 DEF Handed, Core, Early, Late
      <4> QED BY <3>2, <3>3, <4>1
    <3> QED BY <3>4, <3>5
  <2>8. Apart'
    BY <2>1, <2>2, <2>3, <2>5, <2>6, <2>7, HandApart DEF Source
  <2>9. Regroup
    BY <1>0, <2>2, <2>3, <2>5 DEF Regroup
  <2>10. Below' /\ Entered' /\ PostFree' /\ Reach' /\ FlowFun'
    BY <2>9, RegroupSource DEF Source
  <2>11. Formed'
    <3>1. Depth' = Depth
      BY <2>3 DEF Depth
    <3> SUFFICES ASSUME NEW d \in 1..Depth PROVE FormedScope(stack'[d], d, points)
      BY <1>0, <3>1 DEF Formed
    <3>2. FormedScope(stack[d], d, points) /\ Handed(j, L, d, stack[d], stack'[d])
      BY <2>3 DEF Source, Formed
    <3>3. d = L => stack[d].kind = "body"
      BY <2>1
    <3> QED BY <3>2, <3>3 DEF FormedScope, Handed, Core
  <2> QED BY <2>8, <2>10, <2>11 DEF Source
<1> QED BY <1>1, <1>2, <1>3

\* Going on to the else branch keeps what Source says of the source.
LEMMA SourceElse == ASSUME Typed, Typed', Source, Else PROVE Source'
<1>0. /\ points' = points /\ points \in Nat /\ Depth \in Nat /\ Depth \in 1..Depth /\ Depth > 1 /\ Cur = stack[Depth] /\ flow' = flow
      /\ Cur.kind = "then"
  BY Sizes DEF Else, Cur
<1>1. PICK t : t = stack'[Depth]
  OBVIOUS
<1>2. /\ Len(stack') = Depth /\ \A d \in 1..Depth : d # Depth => stack'[d] = stack[d]
      /\ Opened(Parent, t, "else", Cur.cond) /\ t.point = Cur.point /\ t.saved = exits
  BY <1>1, ElseStack
<1>3. FormedScope(Cur, Depth, points)
  BY <1>0 DEF Source, Formed
<1>4. Cur.post = 0 /\ Cur.point \in 1..points
  BY <1>0, <1>3 DEF FormedScope
<1>5. t.post = 0 /\ t.breaks = {} /\ t.continues = {} /\ t.kind = "else"
  BY <1>2 DEF Opened
<1>6. Held(t) = exits /\ Late(t) = {} /\ Dangling(t) = exits
  BY <1>2, <1>5 DEF Held, Early, Late, Other, Dangling
<1>7. exits' = IF Seen(Cur.point) THEN {<<Cur.point, "false">>} ELSE {}
  BY DEF Else, Came, Seen, Enters
<1>8. <<Cur.point, "false">> \in Held(Cur)
  BY <1>0 DEF Held, Other
<1>9. exits' \subseteq Held(Cur) /\ \A e \in exits' : e[1] = Cur.point /\ Seen(Cur.point)
  BY <1>7, <1>8
<1>10. Apart'
  BY <1>0, <1>1, <1>2, <1>6, <1>9, ElseApart DEF Source
<1>11. Regroup
  <2>1. ASSUME NEW d \in 1..Depth
        PROVE  /\ stack'[d].point = stack[d].point /\ stack'[d].post = stack[d].post
               /\ Held(stack'[d]) \subseteq Held(stack[d]) \union exits
               /\ Dangling(stack'[d]) \subseteq Dangling(stack[d]) \union exits
    <3>1. CASE d = Depth
      BY <1>0, <1>1, <1>2, <1>4, <1>5, <1>6, <3>1
    <3>2. CASE d # Depth
      BY <1>2, <3>2
    <3> QED BY <3>1, <3>2
  <2> QED BY <1>0, <1>2, <1>9, <2>1 DEF Regroup
<1>12. Below' /\ Entered' /\ PostFree' /\ Reach' /\ FlowFun'
  BY <1>11, RegroupSource DEF Source
<1>13. Formed'
  <2>1. Depth' = Depth
    BY <1>2 DEF Depth
  <2>2. FormedScope(t, Depth, points)
    BY <1>0, <1>2, <1>4, FormedOpened
  <2>3. \A d \in 1..Depth : FormedScope(stack'[d], d, points)
    BY <1>1, <1>2, <2>2 DEF Source, Formed
  <2> QED BY <1>0, <2>1, <2>3 DEF Formed
<1> QED BY <1>10, <1>12, <1>13 DEF Source

\* an if or if/else is closed
LEMMA SourcePop ==
    ASSUME Typed, Typed', Source, Depth > 1, points' = points, flow' = flow, exits' = exits \union Cur.saved,
           NEW b \in Nat, NEW x \in {"if", "open"}, Pop(b, x)
    PROVE  Source'
<1>0. points \in Nat /\ Depth \in Nat /\ Depth \in 1..Depth /\ Cur = stack[Depth] /\ Cur \in Scope
  BY Sizes, CurIs DEF Cur
<1>1. PICK s : s = stack'[Depth - 1]
  OBVIOUS
<1>2. /\ Len(stack') = Depth - 1 /\ \A d \in 1..(Depth - 2) : stack'[d] = stack[d]
      /\ Core(Parent, s) /\ Loops(Parent, s)
  BY <1>1, PopStack
<1>3. ASSUME NEW d \in 1..(Depth - 1) PROVE Core(stack[d], stack'[d]) /\ Loops(stack[d], stack'[d])
  <2>1. CASE d = Depth - 1
    BY <1>1, <1>2, <2>1 DEF Parent
  <2>2. CASE d # Depth - 1
    <3>1. d \in 1..(Depth - 2)
      BY <1>0, <2>2
    <3> QED BY <1>2, <3>1, SelfIs
  <2> QED BY <2>1, <2>2
<1>4. \A d \in 1..(Depth - 1) : Alike(stack[d], stack'[d])
  BY <1>3, SameHeld DEF Alike
<1>5. Dangling(Cur) \subseteq Held(Cur) /\ Cur.saved \subseteq Dangling(Cur)
  BY <1>0, HeldIs DEF Dangling
<1>6. Apart'
  <2>1. PICK S : S = {}
    OBVIOUS
  <2>2. Sources' = Sources
    BY DEF Sources
  <2>3. exits' \subseteq exits \union Held(Cur)
    BY <1>5
  <2>4. \A d \in 1..(Depth - 1) : Held(stack'[d]) = Held(stack[d]) /\ Early(stack'[d]) = Early(stack[d]) /\ Late(stack'[d]) = Late(stack[d])
    BY <1>4 DEF Alike
  <2>5. \A d \in 1..(Depth - 1) : stack'[d].post = stack[d].post /\ stack'[d].continues = stack[d].continues
    BY <1>4 DEF Alike
  <2> QED BY <1>2, <2>1, <2>2, <2>3, <2>4, <2>5, CloseApart DEF Source
<1>7. Regroup
  <2>1. Len(stack') \in 1..Depth
    BY <1>0, <1>2
  <2>2. \A e \in exits' : e \in exits \/ e \in Dangling(Cur)
    BY <1>5
  <2>3. \A d \in 1..Len(stack') : Alike(stack[d], stack'[d])
    BY <1>2, <1>4
  <2> QED BY <2>1, <2>2, <2>3 DEF Regroup, Alike
<1>8. Below' /\ Entered' /\ PostFree' /\ Reach' /\ FlowFun'
  BY <1>7, RegroupSource DEF Source
<1>9. Formed'
  <2>1. \A d \in 1..(Depth - 1) : d \in 1..Depth
    BY <1>0
  <2>2. \A d \in 1..(Depth - 1) : FormedScope(stack'[d], d, points)
    BY <1>0, <1>3, <2>1, FormedLike DEF Source, Formed
  <2> QED BY <1>2, <2>2 DEF Formed, Depth
<1> QED BY <1>6, <1>8, <1>9 DEF Source

\* Closing a loop keeps what Source says of the source.
LEMMA SourceCloseFor == ASSUME Typed, Typed', Source, CloseFor PROVE Source'
<1>0. points \in Nat /\ Depth \in Nat /\ Depth > 1 /\ points' = points /\ Cur \in Scope
  BY Sizes, CurIs DEF CloseFor
<1>1. LoopBack
  BY LoopBackIs DEF Source
<1>2. Below' /\ Apart' /\ FlowFun' /\ Entered' /\ PostFree' /\ Reach'
  BY <1>1, BackBelow, BackApart, BackFun, BackRest DEF Source
<1>3. PICK b \in Nat, x \in {"if", "open"} : Pop(b, x)
  BY <1>0 DEF CloseFor, Scope
<1>4. PICK s : s = stack'[Depth - 1]
  OBVIOUS
<1>5. /\ Len(stack') = Depth - 1 /\ \A d \in 1..(Depth - 2) : stack'[d] = stack[d]
      /\ Core(Parent, s) /\ Loops(Parent, s)
  BY <1>0, <1>3, <1>4, PopStack
<1>6. ASSUME NEW d \in 1..(Depth - 1) PROVE FormedScope(stack'[d], d, points)
  <2>0. FormedScope(stack[d], d, points)
    BY <1>0 DEF Source, Formed
  <2>1. CASE d = Depth - 1
    BY <1>0, <1>4, <1>5, <2>0, <2>1, FormedLike DEF Parent
  <2>2. CASE d # Depth - 1
    <3>1. d \in 1..(Depth - 2)
      BY <1>0, <2>2
    <3> QED BY <1>5, <2>0, <3>1
  <2> QED BY <2>1, <2>2
<1>7. Formed'
  BY <1>0, <1>5, <1>6 DEF Formed, Depth
<1> QED BY <1>2, <1>7 DEF Source

\* what the scope opened at c holds
Sprung(t, c, q) ==
    /\ t.point = c /\ t.continues = {} /\ t.breaks = {}
    /\ \A e \in t.saved : Reached /\ e[1] = c /\ e \notin exits'
    /\ t.kind = "then" => <<c, "false">> \notin exits'
    /\ t.post # 0 => t.post \in NewPoints /\ t.post # q /\ t.post # c
\* the edges of Z lead from q to the point behind it
Onward(q, Z, c) ==
    /\ flow' = flow \union To(q) \union Z /\ q \in NewPoints /\ c = (IF Z = {} THEN q ELSE q + 1) /\ c \in NewPoints
    /\ \A z \in Z : z = <<q, "next", q + 1>> /\ q + 1 \in NewPoints /\ Reached
    /\ \A e \in exits' : Reached /\ e[1] = c

\* A scope t is opened at the point that q, or q and Z, lead to.
LEMMA SourcePush ==
    ASSUME Typed, Typed', Source, points <= points',
           NEW q, NEW Z, NEW c, Onward(q, Z, c),
           Len(stack') = Depth + 1, \A d \in 1..Depth : d # Depth => stack'[d] = stack[d],
           Core(Cur, stack'[Depth]), Loops(Cur, stack'[Depth]),
           NEW t, t = stack'[Depth + 1], Sprung(t, c, q),
           FormedScope(t, Depth + 1, points')
    PROVE  Source'
<1>1. \A d \in 1..Depth : Core(stack[d], stack'[d]) /\ Loops(stack[d], stack'[d])
  BY SelfIs DEF Cur
<1>2. Depth \in Nat /\ points \in Nat /\ points' \in Nat
  BY CurIs DEF Typed
<1>3. Formed'
  BY <1>1, <1>2, FormedTop DEF Source
<1>4. Dangling(t) = t.saved /\ Early(t) = t.saved /\ Late(t) = (IF t.post # 0 THEN {<<t.post, "next">>} ELSE {})
  BY DEF Dangling, Early, Late, Sprung
<1>5. Other(t) = IF t.kind = "then" THEN {<<c, "false">>} ELSE {}
  BY DEF Other, Sprung
<1>6. \A e \in Late(t) : e[1] = t.post /\ t.post # 0
  BY <1>4
<1>7. \A e \in Other(t) : e[1] = c /\ e \notin exits'
  BY <1>5 DEF Sprung
<1>8. \A z \in Z : z[1] = q /\ c = q + 1 /\ q \in Nat
  BY <1>2 DEF NewPoints, Onward
<1>9. \A z \in Z : z[1] # c
  BY <1>8
<1>10. ASSUME NEW e \in Held(t) PROVE e[1] \in NewPoints /\ e \notin exits' /\ \A z \in Z : e[1] # z[1]
  <2>1. CASE e \in Late(t)
    <3>1. e[1] = t.post /\ t.post \in NewPoints /\ t.post # q /\ t.post # c
      BY <1>6, <2>1 DEF Sprung
    <3>2. \A x \in exits' : x[1] = c
      BY DEF Onward
    <3> QED BY <1>8, <3>1, <3>2
  <2>2. CASE e \in Other(t)
    BY <1>7, <1>9, <2>2 DEF Onward
  <2>3. CASE e \in t.saved
    BY <1>9, <2>3 DEF Sprung, Onward
  <2> QED BY <1>4, <2>1, <2>2, <2>3 DEF Held
<1>11. \A e \in Early(t) : e \notin Late(t)
  <2>1. \A e \in Early(t) : e[1] = c
    BY <1>4 DEF Sprung
  <2>2. \A e \in Late(t) : e[1] # c
    BY <1>6 DEF Sprung
  <2> QED BY <2>1, <2>2
<1>12. t.post <= points'
  BY <1>2 DEF NewPoints, FormedScope
<1>13. t.post # 0 => t.post \in NewPoints /\ t.post # q /\ (Z # {} => t.post # q + 1)
  BY DEF Sprung, Onward
<1>14. \A e \in exits' : Reached /\ e[1] \in NewPoints /\ IF Z = {} THEN e[1] = q ELSE e[1] = q + 1
  BY DEF Onward
<1>15. \A z \in Z : z = <<q, "next", q + 1>> /\ q \in NewPoints /\ q + 1 \in NewPoints /\ Reached
  BY DEF Onward
<1>16. \A e \in Dangling(t) : Reached /\ e[1] = t.point
  BY <1>4 DEF Sprung
<1>18. /\ flow' = flow \union To(q) \union Z /\ q \in NewPoints \union {Exit, Stray}
       /\ t.point = (IF Z = {} THEN q ELSE q + 1) /\ t.point \in NewPoints /\ t.continues = {}
  BY DEF Onward, Sprung
<1>17. Advance(q, Z)
  BY <1>18, <1>1, <1>2, <1>10, <1>11, <1>12, <1>13, <1>14, <1>15, <1>16 DEF Advance
<1> QED BY <1>3, <1>17, SourceAdvance

\* Opening an if keeps what Source says of the source.
LEMMA SourceOpenIf == ASSUME Typed, Typed', Source, OpenIf PROVE Source'
<1>1. PICK q : q = points + 1
  OBVIOUS
<1>2. PICK Z : Z = {}
  OBVIOUS
<1>3. points' = q /\ flow' = flow \union To(q) \union Z /\ exits' = (IF Reached THEN {<<q, "true">>} ELSE {})
  BY <1>1, <1>2 DEF OpenIf
<1>4. points \in Nat /\ q \in NewPoints /\ points <= points' /\ q \in 1..points' /\ points' \in Nat /\ Depth \in Nat
  BY <1>1, <1>3, Sizes DEF NewPoints
<1>5. PICK t : t = stack'[Depth + 1]
  OBVIOUS
<1>6. /\ Len(stack') = Depth + 1 /\ \A d \in 1..Depth : stack'[d] = stack[d]
      /\ Opened(Cur, t, "if", N + 1) /\ t.point = q /\ t.saved = IF Reached THEN {<<q, "false">>} ELSE {}
  BY <1>1, <1>5, OpenIfStack
<1>7. t.continues = {} /\ t.breaks = {} /\ t.kind = "if" /\ t.post = 0
  BY <1>6 DEF Opened
<1>8. stack'[Depth] = Cur
  BY <1>6, CurIs DEF Cur
<1>9. Core(Cur, stack'[Depth]) /\ Loops(Cur, stack'[Depth])
  BY <1>8, SelfIs
<1>10. FormedScope(t, Depth + 1, points')
  <2>1. PICK k, b : k \in {"if", "then", "else"} /\ Opened(Cur, t, k, b) /\ k # "then"
    BY <1>6
  <2>2. Depth + 1 \in Nat /\ Depth + 1 > 1
    BY CurIs
  <2> QED BY <1>4, <1>6, <2>1, <2>2, FormedOpened
<1>11. \A e \in t.saved : Reached /\ e[1] = q /\ e \notin exits'
  BY <1>3, <1>6
<1>12. \A e \in exits' : Reached /\ e[1] = q
  BY <1>3
<1>13. q = (IF Z = {} THEN q ELSE q + 1) /\ (\A z \in Z : z = <<q, "next", q + 1>> /\ q + 1 \in NewPoints /\ Reached)
  BY <1>2
<1>14. Onward(q, Z, q)
  BY <1>3, <1>4, <1>12, <1>13 DEF Onward
<1>15. Sprung(t, q, q)
  BY <1>6, <1>7, <1>11 DEF Sprung
<1> QED BY <1>4, <1>5, <1>6, <1>9, <1>10, <1>14, <1>15, SourcePush

\* Opening an if/else keeps what Source says of the source.
LEMMA SourceOpenIfElse == ASSUME Typed, Typed', Source, OpenIfElse PROVE Source'
<1>1. PICK q : q = points + 1
  OBVIOUS
<1>2. PICK Z : Z = {}
  OBVIOUS
<1>3. points' = q /\ flow' = flow \union To(q) \union Z /\ exits' = (IF Reached THEN {<<q, "true">>} ELSE {})
  BY <1>1, <1>2 DEF OpenIfElse
<1>4. points \in Nat /\ q \in NewPoints /\ points <= points' /\ q \in 1..points' /\ points' \in Nat /\ Depth \in Nat
  BY <1>1, <1>3, Sizes DEF NewPoints
<1>5. PICK t : t = stack'[Depth + 1]
  OBVIOUS
<1>15. PICK s : s = stack'[Depth]
  OBVIOUS
<1>6. /\ Len(stack') = Depth + 1 /\ \A d \in 1..Depth : d # Depth => stack'[d] = stack[d]
      /\ Core(Cur, s) /\ Loops(Cur, s)
      /\ Opened(s, t, "then", N + 1) /\ t.point = q /\ t.saved = {}
  BY <1>1, <1>5, <1>15, OpenIfElseStack
<1>7. t.continues = {} /\ t.breaks = {} /\ t.kind = "then" /\ t.post = 0
  BY <1>6 DEF Opened
<1>10. FormedScope(t, Depth + 1, points')
  <2>1. PICK k, b : k \in {"if", "then", "else"} /\ Opened(s, t, k, b)
    BY <1>6
  <2>2. Depth + 1 \in Nat /\ Depth + 1 > 1
    BY CurIs
  <2> QED BY <1>4, <1>6, <2>1, <2>2, FormedOpened
<1>11. <<q, "false">> \notin exits'
  BY <1>3
<1>12. \A e \in exits' : Reached /\ e[1] = q
  BY <1>3
<1>13. q = (IF Z = {} THEN q ELSE q + 1) /\ (\A z \in Z : z = <<q, "next", q + 1>> /\ q + 1 \in NewPoints /\ Reached)
  BY <1>2
<1>14. Onward(q, Z, q)
  BY <1>3, <1>4, <1>12, <1>13 DEF Onward
<1>16. Sprung(t, q, q)
  BY <1>6, <1>7, <1>11 DEF Sprung
<1> QED BY <1>4, <1>5, <1>6, <1>10, <1>14, <1>15, <1>16, SourcePush

\* Opening a loop keeps what Source says of the source.
LEMMA SourceOpenFor == ASSUME Typed, Typed', Source, NEW form \in Forms, OpenFor(form) PROVE Source'
<1>0. points \in Nat /\ Depth \in Nat
  BY Sizes
<1>1. PICK s : s = stack'[Depth]
  OBVIOUS
<1>2. PICK t : t = stack'[Depth + 1]
  OBVIOUS
<1>3. /\ Len(stack') = Depth + 1 /\ \A d \in 1..Depth : d # Depth => stack'[d] = stack[d]
      /\ Around(s) /\ Looped(form, t)
  BY <1>1, <1>2, OpenForStack
<1>4. Core(Cur, s) /\ Loops(Cur, s)
  BY <1>3 DEF Around
<1>5. PICK c : c = IF "def" \in form THEN points + 2 ELSE points + 1
  OBVIOUS
<1>6. /\ t.kind = "body" /\ t.form = form /\ t.breaks = {} /\ t.continues = {} /\ t.point = c
      /\ t.post = (IF "step" \in form THEN t.point + 1 ELSE 0)
      /\ t.saved = IF Reached /\ "cond" \in form THEN {<<c, "false">>} ELSE {}
  BY <1>3, <1>5 DEF Looped
<1>7. points' = IF "step" \in form THEN c + 1 ELSE c
  BY <1>0, <1>5 DEF OpenFor
<1>8. exits' = IF Reached THEN {<<c, IF "cond" \notin form THEN "next" ELSE "true">>} ELSE {}
  BY <1>5 DEF OpenFor
<1>9. \A e \in exits' : Reached /\ e[1] = c
  BY <1>8
<1>10. \A e \in t.saved : Reached /\ e[1] = c /\ e \notin exits'
  BY <1>6, <1>8
<1>11. c \in NewPoints /\ c \in 1..points' /\ points' \in Nat /\ points <= points'
  BY <1>0, <1>5, <1>7 DEF NewPoints
<1>12. FormedScope(t, Depth + 1, points')
  <2>1. t.point \in 1..points' /\ t.post # t.point /\ t.post \in 0..points' /\ (t.post # 0 <=> "step" \in form)
    <3>1. CASE "step" \in form
      BY <1>0, <1>5, <1>6, <1>7, <3>1
    <3>2. CASE "step" \notin form
      BY <1>0, <1>5, <1>6, <1>7, <3>2
    <3> QED BY <3>1, <3>2
  <2>2. Depth + 1 # 1
    BY CurIs
  <2> QED BY <1>6, <2>1, <2>2 DEF FormedScope
<1>13. CASE "def" \in form /\ Reached
  <2>1. PICK q : q = points + 1
    OBVIOUS
  <2>2. PICK Z : Z = {<<q, "next", q + 1>>}
    OBVIOUS
  <2>3. c = q + 1 /\ c - 1 = q
    BY <1>0, <1>5, <1>13, <2>1
  <2>4. flow' = flow \union To(q) \union Z
    <3>1. flow' = flow \union (To(c - 1) \union {<<c - 1, "next", c>>})
      BY <1>5, <1>13 DEF OpenFor
    <3> QED BY <2>2, <2>3, <3>1
  <2>5. q \in NewPoints /\ (\A z \in Z : z = <<q, "next", q + 1>> /\ q + 1 \in NewPoints /\ Reached) /\ c = (IF Z = {} THEN q ELSE q + 1)
    <3>1. q \in NewPoints
      BY <1>0, <1>5, <1>7, <1>13, <2>1 DEF NewPoints
    <3>2. Z # {} /\ \A z \in Z : z = <<q, "next", q + 1>>
      BY <2>2
    <3> QED BY <1>11, <1>13, <2>3, <3>1, <3>2
  <2>6. t.post # 0 => t.post \in NewPoints /\ t.post # q /\ t.post # c
    BY <1>0, <1>5, <1>6, <1>7, <1>13, <2>1 DEF NewPoints
  <2>7. Onward(q, Z, c)
    BY <1>9, <1>11, <2>4, <2>5 DEF Onward
  <2>8. Sprung(t, c, q)
    BY <1>6, <1>10, <2>6 DEF Sprung
  <2> QED BY <1>1, <1>2, <1>3, <1>4, <1>11, <1>12, <2>7, <2>8, SourcePush
<1>14. CASE ~("def" \in form /\ Reached)
  <2>2. PICK Z : Z = {}
    OBVIOUS
  <2>4. flow' = flow \union To(c) \union Z
    BY <1>5, <1>14, <2>2 DEF OpenFor
  <2>5. (\A z \in Z : z = <<c, "next", c + 1>> /\ c + 1 \in NewPoints /\ Reached) /\ c = (IF Z = {} THEN c ELSE c + 1)
    BY <2>2
  <2>6. t.post # 0 => t.post \in NewPoints /\ t.post # c
    BY <1>0, <1>5, <1>6, <1>7 DEF NewPoints
  <2>7. Onward(c, Z, c)
    BY <1>9, <1>11, <2>4, <2>5 DEF Onward
  <2>8. Sprung(t, c, c)
    BY <1>6, <1>10, <2>6 DEF Sprung
  <2> QED BY <1>1, <1>2, <1>3, <1>4, <1>11, <1>12, <2>7, <2>8, SourcePush
<1> QED BY <1>13, <1>14

\* The initial state has Source.
LEMMA SourceInit == Init => Source
<1> SUFFICES ASSUME Init PROVE Source
  OBVIOUS
<1>1. PICK s : s = AddChildScope("fn", 1, [breakBlock |-> Nil, continueBlock |-> Nil, stale |-> FALSE])
  OBVIOUS
<1>2. stack = <<s>> /\ Depth = 1 /\ stack[1] = s /\ points = 0 /\ exits = {<<Start, "next">>} /\ flow = {}
  BY <1>1 DEF Init, Depth
<1>3. s.kind = "fn" /\ s.point = 0 /\ s.post = 0 /\ s.breaks = {} /\ s.continues = {} /\ s.saved = {}
  BY <1>1 DEF AddChildScope
<1>4. Held(s) = {} /\ Early(s) = {} /\ Late(s) = {} /\ Dangling(s) = {}
  BY <1>3 DEF Held, Early, Late, Other, Dangling
<1>5. \A d \in 1..Depth : stack[d] = s /\ d = 1
  BY <1>2
<1>6. Formed
  BY FormedInit
<1>7. \A e \in exits : e[1] = 0
  BY <1>2 DEF Start
<1>8. Below
  BY <1>2, <1>3, <1>4, <1>5, <1>7 DEF Below
<1>9. Apart
  BY <1>2, <1>3, <1>4, <1>5 DEF Apart, Sources, StepApart
<1>10. FlowFun /\ PostFree
  BY <1>2 DEF FlowFun, PostFree, Seen, Enters
<1>11. Entered
  BY <1>2 DEF Entered
<1>12. Reach
  BY <1>2, <1>4, <1>5, <1>7 DEF Reach, Closed, Start
<1> QED BY <1>6, <1>8, <1>9, <1>10, <1>11, <1>12 DEF Source

\* Every step keeps Source.
LEMMA SourceNext == Ranged /\ Source /\ [Next]_vars => Source'
<1> SUFFICES ASSUME Ranged, Source, [Next]_vars PROVE Source'
  OBVIOUS
<1>0. Typed /\ Typed'
  BY RangedNext DEF Ranged
<1>1. CASE \E isDef \in BOOLEAN : Statement(isDef)
  BY <1>0, <1>1, SourceStatement
<1>2. CASE Suspend
  BY <1>0, <1>2, SourceSuspend
<1>3. CASE Ret
  BY <1>0, <1>3, SourceRet
<1>4. CASE Break
  <2>1. PICK j \in {"break", "continue"} : BreakOrContinue(j, Cur.breakBlock)
    BY <1>4 DEF Break
  <2> QED BY <1>0, <2>1, SourceJump
<1>5. CASE Continue
  <2>1. PICK j \in {"break", "continue"} : BreakOrContinue(j, Cur.continueBlock)
    BY <1>5 DEF Continue
  <2> QED BY <1>0, <2>1, SourceJump
<1>6. CASE OpenIf
  BY <1>0, <1>6, SourceOpenIf
<1>7. CASE CloseIf
  <2>1. PICK b \in Nat, x \in {"if", "open"} : Pop(b, x)
    <3>1. N + 1 \in Nat
      BY <1>0, BlockIs
    <3> QED BY <1>7, <3>1 DEF CloseIf, N
  <2>2. Depth > 1 /\ points' = points /\ flow' = flow /\ exits' = exits \union Cur.saved
    BY <1>7 DEF CloseIf
  <2> QED BY <1>0, <2>1, <2>2, SourcePop
<1>8. CASE OpenIfElse
  BY <1>0, <1>8, SourceOpenIfElse
<1>9. CASE Else
  BY <1>0, <1>9, SourceElse
<1>10. CASE CloseIfElse
  <2>1. PICK b \in Nat, x \in {"if", "open"} : Pop(b, x)
    <3>1. Cur.end \in Nat
      BY <1>0, CurIs DEF Scope
    <3> QED BY <1>10, <3>1 DEF CloseIfElse
  <2>2. Depth > 1 /\ points' = points /\ flow' = flow /\ exits' = exits \union Cur.saved
    BY <1>10 DEF CloseIfElse
  <2> QED BY <1>0, <2>1, <2>2, SourcePop
<1>11. CASE \E form \in Forms : OpenFor(form)
  BY <1>0, <1>11, SourceOpenFor
<1>12. CASE CloseFor
  BY <1>0, <1>12, SourceCloseFor
<1>13. CASE Finish
  BY <1>0, <1>13, SourceFinish
<1>14. CASE Ended \/ UNCHANGED vars
  BY <1>14, SourceKept DEF Ended, vars
<1> QED BY <1>1, <1>2, <1>3, <1>4, <1>5, <1>6, <1>7, <1>8, <1>9, <1>10, <1>11, <1>12, <1>13, <1>14 DEF Next

-----------------------------------------------------------------------------
(* What a step does to the blocks. *)

\* Blocks outside T stay.
OnlyAt(T) == \A x \in 1..N : x \notin T => blocks'[x] = blocks[x]
\* block b after the step
Made(b, is, tm, to) == blocks'[b].insts = is /\ blocks'[b].term = tm /\ blocks'[b].to = to
Fresh(b) == Made(b, <<>>, "none", <<>>)
\* a block without terminator is made to go to e
Shut(b, e) ==
    /\ blocks'[b].insts = I(b)
    /\ Term(b) = "none" => blocks'[b].term = "br" /\ blocks'[b].to = <<e>>
    /\ Term(b) # "none" => blocks'[b] = blocks[b]

\* The types in the form that the proofs use.
LEMMA BaseIs == ASSUME Ranged PROVE Typed /\ N \in Nat /\ blocks \in Seq(Block) /\ Len(blocks) = N /\ Cur.block \in 1..N /\ points \in Nat /\ Depth \in Nat /\ Depth \in 1..Depth
  BY BlockIs, CurFits, CurIs, SMTT(30) DEF Ranged, N, Typed

\* r is bs with another block b
Put(bs, r, b, is, tm, to) ==
    /\ r \in Seq(Block) /\ Len(r) = Len(bs) /\ r[b].insts = is /\ r[b].term = tm /\ r[b].to = to
    /\ \A x \in 1..Len(bs) : x # b => r[x] = bs[x]

\* Emit as Put.
LEMMA PutEmit ==
    ASSUME NEW bs \in Seq(Block), NEW b \in 1..Len(bs), NEW p \in Nat, NEW r, r = Emit(bs, b, p)
    PROVE  Put(bs, r, b, Append(bs[b].insts, p), bs[b].term, bs[b].to)
  BY EmitIs DEF Put

\* NewBr as Put.
LEMMA PutBr ==
    ASSUME NEW bs \in Seq(Block), NEW b \in 1..Len(bs), NEW x \in Nat, NEW r, r = NewBr(bs, b, x)
    PROVE  Put(bs, r, b, bs[b].insts, "br", <<x>>)
  BY BrIs DEF Put

\* NewYield as Put.
LEMMA PutYield ==
    ASSUME NEW bs \in Seq(Block), NEW b \in 1..Len(bs), NEW x \in Nat, NEW r, r = NewYield(bs, b, x)
    PROVE  Put(bs, r, b, bs[b].insts, "yield", <<x>>)
  BY YieldIs DEF Put

\* NewCondBr as Put.
LEMMA PutCond ==
    ASSUME NEW bs \in Seq(Block), NEW b \in 1..Len(bs), NEW x \in Nat, NEW y \in Nat, NEW r, r = NewCondBr(bs, b, x, y)
    PROVE  Put(bs, r, b, bs[b].insts, "cond", <<x, y>>)
  BY CondBrIs DEF Put

\* NewRet as Put.
LEMMA PutRet ==
    ASSUME NEW bs \in Seq(Block), NEW b \in 1..Len(bs), NEW r, r = NewRet(bs, b)
    PROVE  Put(bs, r, b, bs[b].insts, "ret", <<>>)
  BY RetIs DEF Put

\* What a simple statement does to the blocks.
LEMMA StatementBlocks ==
    ASSUME Ranged, NEW isDef \in BOOLEAN, Statement(isDef), NEW c, c = Cur.block, NEW p, p = points + 1
    PROVE  N' = N /\ OnlyAt({c}) /\ Made(c, Append(I(c), p), Term(c), Tos(c))
<1>1. c \in 1..Len(blocks) /\ p \in Nat /\ blocks \in Seq(Block) /\ Len(blocks) = N
  BY BaseIs
<1>2. blocks' = Emit(blocks, c, p)
  BY DEF Statement
<1> QED BY <1>1, <1>2, PutEmit DEF Put, OnlyAt, Made, I, Term, Tos, N

\* What yield or await does to the blocks.
LEMMA SuspendBlocks ==
    ASSUME Ranged, Suspend, NEW c, c = Cur.block, NEW p, p = points + 1, NEW k, k = N + 1
    PROVE  N' = k /\ OnlyAt({c}) /\ Made(c, Append(I(c), p), "yield", <<k>>) /\ Fresh(k)
<1>1. c \in 1..N /\ p \in Nat /\ blocks \in Seq(Block) /\ Len(blocks) = N /\ k \in Nat /\ N \in Nat
  BY BaseIs
<1>2. PICK b0 : b0 = Append(blocks, NewBlock)
  OBVIOUS
<1>3. b0 \in Seq(Block) /\ Len(b0) = k /\ b0[k] = NewBlock /\ (\A x \in 1..N : b0[x] = blocks[x]) /\ c \in 1..k /\ c # k
  BY <1>1, <1>2, AddIs
<1>4. PICK b1 : b1 = Emit(b0, c, p)
  OBVIOUS
<1>5. /\ b1 \in Seq(Block) /\ Len(b1) = k
      /\ b1[c].insts = Append(b0[c].insts, p) /\ \A x \in 1..k : x # c => b1[x] = b0[x]
  <2>1. Put(b0, b1, c, Append(b0[c].insts, p), b0[c].term, b0[c].to)
    BY <1>1, <1>3, <1>4, PutEmit
  <2> QED BY <1>1, <1>3, <1>4, <2>1 DEF Put
<1>6. blocks' = NewYield(b1, c, k)
  BY <1>1, <1>2, <1>4 DEF Suspend
<1>7. /\ Len(blocks') = k /\ blocks'[c].insts = b1[c].insts /\ blocks'[c].term = "yield" /\ blocks'[c].to = <<k>>
      /\ \A x \in 1..k : x # c => blocks'[x] = b1[x]
  <2>1. Put(b1, blocks', c, b1[c].insts, "yield", <<k>>)
    BY <1>1, <1>3, <1>5, <1>6, PutYield
  <2> QED BY <1>1, <1>3, <1>5, <1>6, <2>1 DEF Put
<1>8. blocks'[k] = NewBlock
  BY <1>1, <1>3, <1>5, <1>7
<1>9. \A x \in 1..N : x # c => blocks'[x] = blocks[x]
  BY <1>1, <1>3, <1>5, <1>7
<1> QED BY <1>1, <1>3, <1>5, <1>7, <1>8, <1>9, NewIs DEF OnlyAt, Made, Fresh, I, N

\* What return does to the blocks.
LEMMA RetBlocks ==
    ASSUME Ranged, Ret, NEW c, c = Cur.block, NEW k, k = N + 1
    PROVE  /\ OnlyAt({c}) /\ Made(c, I(c), "ret", <<>>)
           /\ mode # "async" => N' = N
           /\ mode = "async" => N' = k /\ Made(k, <<>>, "ret", <<>>)
<1>1. c \in 1..N /\ blocks \in Seq(Block) /\ Len(blocks) = N /\ k \in Nat /\ N \in Nat
  BY BaseIs
<1>2. CASE mode # "async"
  <2>1. blocks' = NewRet(blocks, c)
    BY <1>2 DEF Ret
  <2>2. Put(blocks, blocks', c, blocks[c].insts, "ret", <<>>)
    BY <1>1, <2>1, PutRet
  <2> QED BY <1>1, <1>2, <2>2 DEF Put, OnlyAt, Made, I, N
<1>3. CASE mode = "async"
  <2>2. PICK b0 : b0 = Append(blocks, NewBlock)
    OBVIOUS
  <2>3. b0 \in Seq(Block) /\ Len(b0) = k /\ b0[k] = NewBlock /\ (\A x \in 1..N : b0[x] = blocks[x]) /\ c \in 1..k /\ c # k /\ k \in 1..k
    BY <1>1, <2>2, AddIs
  <2>4. PICK b1 : b1 = NewRet(b0, c)
    OBVIOUS
  <2>5. /\ b1 \in Seq(Block) /\ Len(b1) = k
        /\ b1[c].insts = b0[c].insts /\ b1[c].term = "ret" /\ b1[c].to = <<>> /\ \A x \in 1..k : x # c => b1[x] = b0[x]
    <3>1. Put(b0, b1, c, b0[c].insts, "ret", <<>>)
      BY <1>1, <2>3, <2>4, PutRet
    <3> QED BY <1>1, <2>3, <2>4, <3>1 DEF Put
  <2>6. blocks' = NewRet(b1, k)
    BY <1>1, <1>3, <2>2, <2>4 DEF Ret
  <2>7. /\ Len(blocks') = k /\ blocks'[k].insts = b1[k].insts /\ blocks'[k].term = "ret" /\ blocks'[k].to = <<>>
        /\ \A x \in 1..k : x # k => blocks'[x] = b1[x]
    <3>1. Put(b1, blocks', k, b1[k].insts, "ret", <<>>)
      BY <1>1, <2>3, <2>5, <2>6, PutRet
    <3> QED BY <1>1, <2>3, <2>5, <2>6, <3>1 DEF Put
  <2>8. b1[k].insts = <<>>
    BY <2>3, <2>5, NewIs
  <2>9. \A x \in 1..N : x # k /\ x \in 1..k /\ b0[x] = blocks[x]
    BY <1>1, <2>3
  <2> QED BY <1>1, <1>3, <2>3, <2>5, <2>7, <2>8, <2>9 DEF OnlyAt, Made, I, N
<1> QED BY <1>2, <1>3

\* What break or continue does to the blocks.
LEMMA JumpBlocks ==
    ASSUME Ranged, NEW j, NEW x, BreakOrContinue(j, x), x # Nil, x \in Nat, NEW c, c = Cur.block
    PROVE  N' = N /\ OnlyAt({c}) /\ Made(c, I(c), "br", <<x>>)
<1>1. c \in 1..Len(blocks) /\ blocks \in Seq(Block) /\ Len(blocks) = N
  BY BaseIs
<1>2. blocks' = NewBr(blocks, c, x)
  BY DEF BreakOrContinue
<1> QED BY <1>1, <1>2, PutBr DEF Put, OnlyAt, Made, I, N

\* What opening an if does to the blocks.
LEMMA OpenIfBlocks ==
    ASSUME Ranged, OpenIf, NEW k, k = N + 1
    PROVE  N' = k /\ OnlyAt({}) /\ Fresh(k)
<1>1. blocks \in Seq(Block) /\ Len(blocks) = N
  BY BaseIs
<1>2. blocks' = Append(blocks, NewBlock)
  BY DEF OpenIf
<1> QED BY <1>1, <1>2, AddIs, NewIs DEF OnlyAt, Made, Fresh, N

\* What opening an if/else does to the blocks.
LEMMA OpenIfElseBlocks ==
    ASSUME Ranged, OpenIfElse, NEW c, c = Cur.block, NEW p, p = points + 1, NEW k1, k1 = N + 1, NEW k2, k2 = N + 2, NEW k3, k3 = N + 3
    PROVE  N' = k3 /\ OnlyAt({c}) /\ Made(c, Append(I(c), p), "cond", <<k1, k2>>) /\ Fresh(k1) /\ Fresh(k2) /\ Fresh(k3)
<1>1. c \in 1..N /\ p \in Nat /\ blocks \in Seq(Block) /\ Len(blocks) = N /\ k1 \in Nat /\ k2 \in Nat /\ k3 \in Nat /\ N \in Nat
  BY BaseIs
<1>2. PICK b0 : b0 = Thrice(blocks)
  OBVIOUS
<1>3. /\ b0 \in Seq(Block) /\ Len(b0) = k3 /\ b0[k1] = NewBlock /\ b0[k2] = NewBlock /\ b0[k3] = NewBlock
      /\ \A x \in 1..N : b0[x] = blocks[x]
  BY <1>1, <1>2, Add3Is
<1>11. c \in 1..k3 /\ k1 \in 1..k3 /\ k2 \in 1..k3 /\ k3 \in 1..k3 /\ c # k1 /\ c # k2 /\ c # k3 /\ \A x \in 1..N : x \in 1..k3
  BY <1>1
<1>4. PICK b1 : b1 = Emit(b0, c, p)
  OBVIOUS
<1>5. /\ b1 \in Seq(Block) /\ Len(b1) = k3
      /\ b1[c].insts = Append(b0[c].insts, p) /\ \A x \in 1..k3 : x # c => b1[x] = b0[x]
  <2>1. Put(b0, b1, c, Append(b0[c].insts, p), b0[c].term, b0[c].to)
    BY <1>1, <1>3, <1>11, <1>4, PutEmit
  <2> QED BY <1>1, <1>3, <1>11, <1>4, <2>1 DEF Put
<1>6. blocks' = NewCondBr(b1, c, k1, k2)
  <2>1. (Len(blocks) + 1) + 1 = k2
    BY <1>1
  <2> QED BY <1>1, <1>2, <1>4, <2>1 DEF OpenIfElse, Thrice
<1>7. /\ Len(blocks') = k3 /\ blocks'[c].insts = b1[c].insts /\ blocks'[c].term = "cond" /\ blocks'[c].to = <<k1, k2>>
      /\ \A x \in 1..k3 : x # c => blocks'[x] = b1[x]
  <2>1. Put(b1, blocks', c, b1[c].insts, "cond", <<k1, k2>>)
    BY <1>1, <1>5, <1>6, <1>11, PutCond
  <2> QED BY <1>1, <1>5, <1>6, <1>11, <2>1 DEF Put
<1>8. blocks'[k1] = NewBlock /\ blocks'[k2] = NewBlock /\ blocks'[k3] = NewBlock
  BY <1>3, <1>5, <1>7, <1>11
<1>9. \A x \in 1..N : x # c => blocks'[x] = blocks[x]
  BY <1>3, <1>5, <1>7, <1>11
<1> QED BY <1>1, <1>3, <1>5, <1>7, <1>8, <1>9, NewIs DEF OnlyAt, Made, Fresh, I, N

\* a loop has been opened behind block c
ForMade(form, c, p, q, k1, k2, k3) ==
    /\ N' = k3 /\ OnlyAt({c}) /\ Fresh(k1) /\ Fresh(k3)
    /\ "def" \notin form /\ "cond" \notin form => Made(c, I(c), "br", <<k2>>) /\ Made(k2, <<p>>, "none", <<>>)
    /\ "def" \in form /\ "cond" \notin form => Made(c, Append(I(c), p), "br", <<k2>>) /\ Made(k2, <<q>>, "none", <<>>)
    /\ "def" \notin form /\ "cond" \in form => Made(c, Append(I(c), p), "cond", <<k2, k3>>) /\ Fresh(k2)
    /\ "def" \in form /\ "cond" \in form => Made(c, Append(Append(I(c), p), q), "cond", <<k2, k3>>) /\ Fresh(k2)

\* What opening a loop does to the blocks.
LEMMA OpenForBlocks ==
    ASSUME Ranged, NEW form \in Forms, OpenFor(form), NEW c, c = Cur.block, NEW p, p = points + 1, NEW q, q = points + 2,
           NEW k1, k1 = N + 1, NEW k2, k2 = N + 2, NEW k3, k3 = N + 3
    PROVE  ForMade(form, c, p, q, k1, k2, k3)
<1>0. SUFFICES
           /\ N' = k3 /\ OnlyAt({c}) /\ Fresh(k1) /\ Fresh(k3)
           /\ "def" \notin form /\ "cond" \notin form => Made(c, I(c), "br", <<k2>>) /\ Made(k2, <<p>>, "none", <<>>)
           /\ "def" \in form /\ "cond" \notin form => Made(c, Append(I(c), p), "br", <<k2>>) /\ Made(k2, <<q>>, "none", <<>>)
           /\ "def" \notin form /\ "cond" \in form => Made(c, Append(I(c), p), "cond", <<k2, k3>>) /\ Fresh(k2)
           /\ "def" \in form /\ "cond" \in form => Made(c, Append(Append(I(c), p), q), "cond", <<k2, k3>>) /\ Fresh(k2)
  BY DEF ForMade
<1>1. c \in 1..N /\ p \in Nat /\ q \in Nat /\ blocks \in Seq(Block) /\ Len(blocks) = N /\ k1 \in Nat /\ k2 \in Nat /\ k3 \in Nat /\ N \in Nat
  BY BaseIs
<1>2. PICK b0 : b0 = Thrice(blocks)
  OBVIOUS
<1>3. /\ b0 \in Seq(Block) /\ Len(b0) = k3 /\ b0[k1] = NewBlock /\ b0[k2] = NewBlock /\ b0[k3] = NewBlock
      /\ \A x \in 1..N : b0[x] = blocks[x]
  BY <1>1, <1>2, Add3Is
<1>11. /\ c \in 1..k3 /\ k1 \in 1..k3 /\ k2 \in 1..k3 /\ k3 \in 1..k3 /\ c # k1 /\ c # k2 /\ c # k3 /\ k2 # k1 /\ k2 # k3
       /\ \A x \in 1..N : x \in 1..k3 /\ x # k2
  BY <1>1
<1>12. (Len(blocks) + 1) + 1 = k2 /\ (Len(blocks) + 1) + 2 = k3
  BY <1>1
<1>13. CASE "def" \notin form /\ "cond" \notin form
  <2>1. PICK b1 : b1 = NewBr(b0, c, k2)
    OBVIOUS
  <2>2. /\ b1 \in Seq(Block) /\ Len(b1) = k3 /\ b1[c].insts = b0[c].insts /\ b1[c].term = "br" /\ b1[c].to = <<k2>>
        /\ \A x \in 1..k3 : x # c => b1[x] = b0[x]
    <3>1. Put(b0, b1, c, b0[c].insts, "br", <<k2>>)
      BY <1>1, <1>3, <1>11, <2>1, PutBr
    <3> QED BY <1>1, <1>3, <1>11, <2>1, <3>1 DEF Put
  <2>3. blocks' = Emit(b1, k2, p)
    BY <1>1, <1>2, <1>12, <1>13, <2>1 DEF OpenFor, Thrice
  <2>4. /\ Len(blocks') = k3 /\ blocks'[k2].insts = Append(b1[k2].insts, p) /\ blocks'[k2].term = b1[k2].term /\ blocks'[k2].to = b1[k2].to
        /\ \A x \in 1..k3 : x # k2 => blocks'[x] = b1[x]
    <3>1. Put(b1, blocks', k2, Append(b1[k2].insts, p), b1[k2].term, b1[k2].to)
      BY <1>1, <1>11, <2>2, <2>3, PutEmit
    <3> QED BY <1>1, <1>11, <2>2, <2>3, <3>1 DEF Put
  <2>5. b1[k2] = NewBlock /\ Append(<<>>, p) = <<p>>
    BY <1>3, <1>11, <2>2
  <2>6. Made(k2, <<p>>, "none", <<>>)
    BY <2>4, <2>5, NewIs DEF Made
  <2>7. Fresh(k1) /\ Fresh(k3)
    BY <1>3, <1>11, <2>2, <2>4, NewIs DEF Fresh, Made
  <2>8. OnlyAt({c})
    BY <1>3, <1>11, <2>2, <2>4 DEF OnlyAt
  <2>9. Made(c, I(c), "br", <<k2>>)
    BY <1>1, <1>3, <1>11, <2>2, <2>4 DEF Made, I
  <2> QED BY <1>13, <2>4, <2>6, <2>7, <2>8, <2>9 DEF N
<1>16. CASE "def" \in form /\ "cond" \notin form
  <2>0. PICK b2 : b2 = Emit(b0, c, p)
    OBVIOUS
  <2>10. /\ b2 \in Seq(Block) /\ Len(b2) = k3 /\ b2[c].insts = Append(b0[c].insts, p)
         /\ \A x \in 1..k3 : x # c => b2[x] = b0[x]
    <3>1. Put(b0, b2, c, Append(b0[c].insts, p), b0[c].term, b0[c].to)
      BY <1>1, <1>3, <1>11, <2>0, PutEmit
    <3> QED BY <1>1, <1>3, <1>11, <2>0, <3>1 DEF Put
  <2>1. PICK b1 : b1 = NewBr(b2, c, k2)
    OBVIOUS
  <2>2. /\ b1 \in Seq(Block) /\ Len(b1) = k3 /\ b1[c].insts = b2[c].insts /\ b1[c].term = "br" /\ b1[c].to = <<k2>>
        /\ \A x \in 1..k3 : x # c => b1[x] = b2[x]
    <3>1. Put(b2, b1, c, b2[c].insts, "br", <<k2>>)
      BY <1>1, <1>11, <2>1, <2>10, PutBr
    <3> QED BY <1>1, <1>11, <2>1, <2>10, <3>1 DEF Put
  <2>3. blocks' = Emit(b1, k2, q)
    BY <1>1, <1>2, <1>12, <1>16, <2>0, <2>1 DEF OpenFor, Thrice
  <2>4. /\ Len(blocks') = k3 /\ blocks'[k2].insts = Append(b1[k2].insts, q) /\ blocks'[k2].term = b1[k2].term /\ blocks'[k2].to = b1[k2].to
        /\ \A x \in 1..k3 : x # k2 => blocks'[x] = b1[x]
    <3>1. Put(b1, blocks', k2, Append(b1[k2].insts, q), b1[k2].term, b1[k2].to)
      BY <1>1, <1>11, <2>2, <2>3, PutEmit
    <3> QED BY <1>1, <1>11, <2>2, <2>3, <3>1 DEF Put
  <2>5. b1[k2] = NewBlock /\ Append(<<>>, q) = <<q>>
    BY <1>3, <1>11, <2>2, <2>10
  <2>6. Made(k2, <<q>>, "none", <<>>)
    BY <2>4, <2>5, NewIs DEF Made
  <2>7. Fresh(k1) /\ Fresh(k3)
    BY <1>3, <1>11, <2>2, <2>4, <2>10, NewIs DEF Fresh, Made
  <2>8. OnlyAt({c})
    BY <1>3, <1>11, <2>2, <2>4, <2>10 DEF OnlyAt
  <2>9. Made(c, Append(I(c), p), "br", <<k2>>)
    BY <1>1, <1>3, <1>11, <2>2, <2>4, <2>10 DEF Made, I
  <2> QED BY <1>16, <2>4, <2>6, <2>7, <2>8, <2>9 DEF N
<1>14. CASE "def" \notin form /\ "cond" \in form
  <2>1. PICK b1 : b1 = Emit(b0, c, p)
    OBVIOUS
  <2>2. /\ b1 \in Seq(Block) /\ Len(b1) = k3 /\ b1[c].insts = Append(b0[c].insts, p)
        /\ \A x \in 1..k3 : x # c => b1[x] = b0[x]
    <3>1. Put(b0, b1, c, Append(b0[c].insts, p), b0[c].term, b0[c].to)
      BY <1>1, <1>3, <1>11, <2>1, PutEmit
    <3> QED BY <1>1, <1>3, <1>11, <2>1, <3>1 DEF Put
  <2>3. blocks' = NewCondBr(b1, c, k2, k3)
    BY <1>1, <1>2, <1>12, <1>14, <2>1 DEF OpenFor, Thrice
  <2>4. /\ Len(blocks') = k3 /\ blocks'[c].insts = b1[c].insts /\ blocks'[c].term = "cond" /\ blocks'[c].to = <<k2, k3>>
        /\ \A x \in 1..k3 : x # c => blocks'[x] = b1[x]
    <3>1. Put(b1, blocks', c, b1[c].insts, "cond", <<k2, k3>>)
      BY <1>1, <1>11, <2>2, <2>3, PutCond
    <3> QED BY <1>1, <1>11, <2>2, <2>3, <3>1 DEF Put
  <2>7. Fresh(k1) /\ Fresh(k2) /\ Fresh(k3)
    BY <1>3, <1>11, <2>2, <2>4, NewIs DEF Fresh, Made
  <2>8. OnlyAt({c})
    BY <1>3, <1>11, <2>2, <2>4 DEF OnlyAt
  <2>9. Made(c, Append(I(c), p), "cond", <<k2, k3>>)
    BY <1>1, <1>3, <1>11, <2>2, <2>4 DEF Made, I
  <2> QED BY <1>14, <2>4, <2>7, <2>8, <2>9 DEF N
<1>15. CASE "def" \in form /\ "cond" \in form
  <2>1. PICK b1 : b1 = Emit(b0, c, p)
    OBVIOUS
  <2>2. /\ b1 \in Seq(Block) /\ Len(b1) = k3 /\ b1[c].insts = Append(b0[c].insts, p)
        /\ \A x \in 1..k3 : x # c => b1[x] = b0[x]
    <3>1. Put(b0, b1, c, Append(b0[c].insts, p), b0[c].term, b0[c].to)
      BY <1>1, <1>3, <1>11, <2>1, PutEmit
    <3> QED BY <1>1, <1>3, <1>11, <2>1, <3>1 DEF Put
  <2>5. PICK b2 : b2 = Emit(b1, c, q)
    OBVIOUS
  <2>6. /\ b2 \in Seq(Block) /\ Len(b2) = k3 /\ b2[c].insts = Append(b1[c].insts, q)
        /\ \A x \in 1..k3 : x # c => b2[x] = b1[x]
    <3>1. Put(b1, b2, c, Append(b1[c].insts, q), b1[c].term, b1[c].to)
      BY <1>1, <1>11, <2>2, <2>5, PutEmit
    <3> QED BY <1>1, <1>11, <2>2, <2>5, <3>1 DEF Put
  <2>3. blocks' = NewCondBr(b2, c, k2, k3)
    BY <1>1, <1>2, <1>12, <1>15, <2>1, <2>5 DEF OpenFor, Thrice
  <2>4. /\ Len(blocks') = k3 /\ blocks'[c].insts = b2[c].insts /\ blocks'[c].term = "cond" /\ blocks'[c].to = <<k2, k3>>
        /\ \A x \in 1..k3 : x # c => blocks'[x] = b2[x]
    <3>1. Put(b2, blocks', c, b2[c].insts, "cond", <<k2, k3>>)
      BY <1>1, <1>11, <2>6, <2>3, PutCond
    <3> QED BY <1>1, <1>11, <2>6, <2>3, <3>1 DEF Put
  <2>7. Fresh(k1) /\ Fresh(k2) /\ Fresh(k3)
    BY <1>3, <1>11, <2>2, <2>6, <2>4, NewIs DEF Fresh, Made
  <2>8. OnlyAt({c})
    BY <1>3, <1>11, <2>2, <2>4, <2>6 DEF OnlyAt
  <2>9. Made(c, Append(Append(I(c), p), q), "cond", <<k2, k3>>)
    BY <1>1, <1>3, <1>11, <2>2, <2>6, <2>4 DEF Made, I
  <2> QED BY <1>15, <2>4, <2>7, <2>8, <2>9 DEF N
<1> QED BY <1>13, <1>14, <1>15, <1>16

\* A list of two.
LEMMA PairIs == ASSUME NEW x, NEW y PROVE Append(<<x>>, y) = <<x, y>>
<1>1. <<x>> \in Seq({x, y}) /\ <<x, y>> \in Seq({x, y})
  OBVIOUS
<1>2. Append(<<x>>, y) \in Seq({x, y}) /\ Len(Append(<<x>>,y)) = 2 /\ Append(<<x>>,y)[1] = x /\ Append(<<x>>,y)[2] = y
  BY <1>1
<1>3. Len(<<x, y>>) = 2
  OBVIOUS
<1>4. \A i \in 1..2 : Append(<<x>>, y)[i] = <<x, y>>[i]
  <2> SUFFICES ASSUME NEW i \in 1..2 PROVE Append(<<x>>, y)[i] = <<x, y>>[i]
   OBVIOUS
  <2>1. i = 1 \/ i = 2 OBVIOUS
  <2> QED BY <1>2, <2>1
<1> QED BY <1>1, <1>2, <1>3, <1>4, SeqEqual

\* r is bs, but block b goes to e if it went nowhere
Ajar(bs, r, b, e) ==
    /\ r \in Seq(Block) /\ Len(r) = Len(bs) /\ r[b].insts = bs[b].insts
    /\ bs[b].term = "none" => r[b].term = "br" /\ r[b].to = <<e>>
    /\ bs[b].term # "none" => r[b] = bs[b]
    /\ \A x \in 1..Len(bs) : x # b => r[x] = bs[x]

\* BrIfOpen as Ajar.
LEMMA PutOpen ==
    ASSUME NEW bs \in Seq(Block), NEW b \in 1..Len(bs), NEW x \in Nat, NEW r, r = BrIfOpen(bs, b, x)
    PROVE  Ajar(bs, r, b, x)
  BY OpenIs DEF Ajar

\* the block behind an if or if/else: in a branch it goes back to the enclosing scope
Behind(bs, r, b) ==
    /\ r \in Seq(Block) /\ Len(r) = Len(bs) /\ r[b].insts = bs[b].insts
    /\ Depth = 2 => r[b] = bs[b]
    /\ Depth > 2 => r[b].term = "br" /\ r[b].to = <<stack[Depth - 2].block>>
    /\ \A x \in 1..Len(bs) : x # b => r[x] = bs[x]

\* BrToParent as Behind.
LEMMA BehindIs ==
    ASSUME Ranged, Depth > 1, NEW bs \in Seq(Block), NEW b \in 1..Len(bs), NEW r, r = BrToParent(bs, b)
    PROVE  Behind(bs, r, b)
<1>1. Depth \in Nat
  BY BaseIs
<1>2. CASE Depth = 2
  <2>1. r = bs
    BY <1>2 DEF BrToParent, ParentBlock
  <2> QED BY <1>2, <2>1 DEF Behind
<1>3. CASE Depth > 2
  <2>1. PICK x : x = stack[Depth - 2].block
    OBVIOUS
  <2>2. Depth - 2 \in 1..Depth /\ (Depth - 1) - 1 = Depth - 2 /\ Depth - 1 # 1
    BY <1>1, <1>3
  <2>3. x \in 1..N /\ N \in Nat
    BY <2>1, <2>2, ScopeFits, BaseIs DEF Fits
  <2>4. x \in Nat /\ x # 0
    BY <2>3
  <2>5. r = NewBr(bs, b, x)
    BY <2>1, <2>2, <2>4 DEF BrToParent, ParentBlock, Nil
  <2>6. Put(bs, r, b, bs[b].insts, "br", <<x>>)
    BY <2>4, <2>5, PutBr
  <2> QED BY <1>3, <2>1, <2>6 DEF Put, Behind
<1> QED BY <1>1, <1>2, <1>3

\* an if has been closed: b goes on in its branch a or behind it in k
IfClosed(a, b, k) ==
    /\ N' = k /\ OnlyAt({a, b}) /\ Made(b, Append(I(b), Cur.point), "cond", <<a, k>>) /\ Shut(a, k)
    /\ Depth = 2 => Fresh(k)
    /\ Depth > 2 => Made(k, <<>>, "br", <<stack[Depth - 2].block>>)

\* What closing an if does to the blocks.
LEMMA CloseIfBlocks ==
    ASSUME Ranged, CloseIf, NEW b, b = Parent.block, NEW a, a = Cur.first, a # b, NEW k, k = N + 1
    PROVE  IfClosed(a, b, k)
<1> SUFFICES
           /\ N' = k /\ OnlyAt({a, b}) /\ Made(b, Append(I(b), Cur.point), "cond", <<a, k>>) /\ Shut(a, k)
           /\ Depth = 2 => Fresh(k)
           /\ Depth > 2 => Made(k, <<>>, "br", <<stack[Depth - 2].block>>)
  BY DEF IfClosed
<1>0. Depth > 1
  BY DEF CloseIf
<1>1. /\ a \in 1..N /\ b \in 1..N /\ blocks \in Seq(Block) /\ Len(blocks) = N /\ k \in Nat /\ N \in Nat /\ Cur.point \in Nat
      /\ \A x \in 1..N : x \in 1..k /\ x # k
  <2>1. Depth - 1 \in 1..Depth
    BY <1>0, BaseIs
  <2>2. b \in 1..N
    BY <2>1, ScopeFits DEF Fits, Parent
  <2>3. Cur.point \in Nat
    BY BaseIs, CurIs DEF Scope
  <2> QED BY <2>2, <2>3, BaseIs, CurFits
<1>2. PICK b0 : b0 = Append(blocks, NewBlock)
  OBVIOUS
<1>3. b0 \in Seq(Block) /\ Len(b0) = k /\ b0[k] = NewBlock /\ (\A x \in 1..N : b0[x] = blocks[x]) /\ k \in 1..k
  BY <1>1, <1>2, AddIs
<1>4. PICK b1 : b1 = Emit(b0, b, Cur.point)
  OBVIOUS
<1>5. Put(b0, b1, b, Append(b0[b].insts, Cur.point), b0[b].term, b0[b].to)
  BY <1>1, <1>3, <1>4, PutEmit
<1>6. PICK b2 : b2 = NewCondBr(b1, b, a, k)
  OBVIOUS
<1>7. b1 \in Seq(Block) /\ Len(b1) = k
  BY <1>3, <1>5 DEF Put
<1>8. Put(b1, b2, b, b1[b].insts, "cond", <<a, k>>)
  <2>1. a \in Nat /\ b \in 1..Len(b1)
    BY <1>1, <1>7
  <2> QED BY <1>1, <1>6, <1>7, <2>1, PutCond
<1>9. b2 \in Seq(Block) /\ Len(b2) = k
  BY <1>7, <1>8 DEF Put
<1>10. PICK b3 : b3 = BrIfOpen(b2, a, k)
  OBVIOUS
<1>11. Ajar(b2, b3, a, k)
  BY <1>1, <1>9, <1>10, PutOpen
<1>12. b3 \in Seq(Block) /\ Len(b3) = k
  BY <1>9, <1>11 DEF Ajar
<1>13. blocks' = BrToParent(b3, k)
  BY <1>1, <1>2, <1>4, <1>6, <1>10 DEF CloseIf
<1>14. Behind(b3, blocks', k)
  BY <1>0, <1>3, <1>12, <1>13, BehindIs
<1>15. \A x \in 1..k : x # a /\ x # b => b3[x] = b0[x]
  BY <1>3, <1>5, <1>7, <1>8, <1>9, <1>11 DEF Put, Ajar
<1>16. \A x \in 1..N : blocks'[x] = b3[x]
  BY <1>1, <1>12, <1>14 DEF Behind
<1>17. OnlyAt({a, b})
  BY <1>1, <1>3, <1>15, <1>16 DEF OnlyAt
<1>18. b2[b].insts = Append(I(b), Cur.point) /\ b2[b].term = "cond" /\ b2[b].to = <<a, k>>
  BY <1>1, <1>3, <1>5, <1>8 DEF Put, I
<1>19. b3[b] = b2[b]
  BY <1>1, <1>9, <1>11 DEF Ajar
<1>20. Made(b, Append(I(b), Cur.point), "cond", <<a, k>>)
  BY <1>1, <1>16, <1>18, <1>19 DEF Made
<1>21. b2[a] = blocks[a]
  BY <1>1, <1>3, <1>5, <1>7, <1>8 DEF Put
<1>22. Shut(a, k)
  BY <1>1, <1>11, <1>16, <1>21 DEF Ajar, Shut, I, Term
<1>23. b3[k] = NewBlock
  BY <1>1, <1>3, <1>15
<1>24. Depth = 2 => Fresh(k)
  BY <1>14, <1>23, NewIs DEF Behind, Fresh, Made
<1>25. Depth > 2 => Made(k, <<>>, "br", <<stack[Depth - 2].block>>)
  BY <1>14, <1>23, NewIs DEF Behind, Made
<1>26. N' = k
  BY <1>12, <1>14 DEF Behind, N
<1> QED BY <1>17, <1>20, <1>22, <1>24, <1>25, <1>26

\* What closing an if/else does to the blocks.
LEMMA CloseIfElseBlocks ==
    ASSUME Ranged, CloseIfElse, NEW e, e = Cur.end, NEW a, a = Cur.cond, NEW f, f = Cur.first, a # f, e # a, e # f
    PROVE  /\ N' = N /\ OnlyAt({a, f, e}) /\ Shut(a, e) /\ Shut(f, e) /\ blocks'[e].insts = I(e)
           /\ Depth = 2 => blocks'[e] = blocks[e]
           /\ Depth > 2 => blocks'[e].term = "br" /\ blocks'[e].to = <<stack[Depth - 2].block>>
<1>0. Depth > 1 /\ Cur.kind = "else"
  BY DEF CloseIfElse
<1>1. a \in 1..N /\ f \in 1..N /\ e \in 1..N /\ blocks \in Seq(Block) /\ Len(blocks) = N /\ N \in Nat /\ e \in Nat
  <2>1. Fits(Cur, N)
    BY BaseIs, ScopeFits DEF Cur
  <2> QED BY <1>0, <2>1, BaseIs DEF Fits
<1>2. PICK b1 : b1 = BrIfOpen(blocks, a, e)
  OBVIOUS
<1>3. Ajar(blocks, b1, a, e)
  BY <1>1, <1>2, PutOpen
<1>4. b1 \in Seq(Block) /\ Len(b1) = N
  BY <1>1, <1>3 DEF Ajar
<1>5. PICK b2 : b2 = BrIfOpen(b1, f, e)
  OBVIOUS
<1>6. Ajar(b1, b2, f, e)
  BY <1>1, <1>4, <1>5, PutOpen
<1>7. b2 \in Seq(Block) /\ Len(b2) = N
  BY <1>4, <1>6 DEF Ajar
<1>8. blocks' = BrToParent(b2, e)
  BY <1>2, <1>5 DEF CloseIfElse
<1>9. Behind(b2, blocks', e)
  BY <1>0, <1>1, <1>7, <1>8, BehindIs
<1>10. blocks'[a] = b1[a]
  BY <1>1, <1>4, <1>6, <1>7, <1>9 DEF Ajar, Behind
<1>11. blocks'[f] = b2[f] /\ b1[f] = blocks[f]
  BY <1>1, <1>3, <1>7, <1>9 DEF Ajar, Behind
<1>12. Shut(a, e)
  BY <1>3, <1>10 DEF Ajar, Shut, I, Term
<1>13. Shut(f, e)
  BY <1>6, <1>11 DEF Ajar, Shut, I, Term
<1>14. b2[e] = blocks[e]
  BY <1>1, <1>3, <1>4, <1>6 DEF Ajar
<1>15. OnlyAt({a, f, e})
  BY <1>1, <1>3, <1>4, <1>6, <1>7, <1>9 DEF OnlyAt, Ajar, Behind
<1>16. N' = N
  BY <1>7, <1>9 DEF Behind, N
<1>17. blocks'[e].insts = I(e) /\ (Depth = 2 => blocks'[e] = blocks[e])
       /\ (Depth > 2 => blocks'[e].term = "br" /\ blocks'[e].to = <<stack[Depth - 2].block>>)
  BY <1>9, <1>14 DEF Behind, I
<1> QED BY <1>12, <1>13, <1>15, <1>16, <1>17

\* What closing a loop does to the blocks.
LEMMA CloseForBlocks ==
    ASSUME Ranged, CloseFor, NEW a, a = Cur.cond, NEW c, c = Cur.block, a # c, I(a) = <<>>, Cur.form \in Forms
    PROVE  /\ N' = N /\ OnlyAt({a, c}) /\ Made(c, I(c), "br", <<a>>)
           /\ "step" \in Cur.form /\ "cond" \in Cur.form => Made(a, <<Cur.post, Cur.point>>, "cond", <<Cur.first, Cur.end>>)
           /\ "step" \notin Cur.form /\ "cond" \in Cur.form => Made(a, <<Cur.point>>, "cond", <<Cur.first, Cur.end>>)
           /\ "step" \in Cur.form /\ "cond" \notin Cur.form => Made(a, <<Cur.post>>, "br", <<Cur.first>>)
           /\ "step" \notin Cur.form /\ "cond" \notin Cur.form => Made(a, <<>>, "br", <<Cur.first>>)
<1>0. Depth > 1 /\ Cur.kind = "body"
  BY DEF CloseFor
<1>1. /\ a \in 1..N /\ c \in 1..N /\ blocks \in Seq(Block) /\ Len(blocks) = N /\ N \in Nat /\ a \in Nat
      /\ Cur.first \in Nat /\ Cur.end \in Nat /\ Cur.point \in Nat /\ Cur.post \in Nat
  <2>1. Fits(Cur, N)
    BY BaseIs, ScopeFits DEF Cur
  <2>2. Cur.first \in Nat /\ Cur.end \in Nat /\ Cur.point \in Nat /\ Cur.post \in Nat
    BY BaseIs, CurIs DEF Scope
  <2> QED BY <1>0, <2>1, <2>2, BaseIs DEF Fits
<1>2. PICK r : r = CondBlock(blocks, Cur)
  OBVIOUS
<1>3. /\ r \in Seq(Block) /\ Len(r) = N /\ \A x \in 1..N : x # a => r[x] = blocks[x]
      /\ "step" \in Cur.form /\ "cond" \in Cur.form => r[a].insts = <<Cur.post, Cur.point>> /\ r[a].term = "cond" /\ r[a].to = <<Cur.first, Cur.end>>
      /\ "step" \notin Cur.form /\ "cond" \in Cur.form => r[a].insts = <<Cur.point>> /\ r[a].term = "cond" /\ r[a].to = <<Cur.first, Cur.end>>
      /\ "step" \in Cur.form /\ "cond" \notin Cur.form => r[a].insts = <<Cur.post>> /\ r[a].term = "br" /\ r[a].to = <<Cur.first>>
      /\ "step" \notin Cur.form /\ "cond" \notin Cur.form => r[a].insts = <<>> /\ r[a].term = "br" /\ r[a].to = <<Cur.first>>
  <2>0. blocks[a].insts = <<>>
    BY DEF I
  <2>1. CASE "step" \notin Cur.form /\ "cond" \notin Cur.form
    <3>1. r = NewBr(blocks, a, Cur.first)
      BY <1>2, <2>1 DEF CondBlock
    <3>2. Put(blocks, r, a, blocks[a].insts, "br", <<Cur.first>>)
      BY <1>1, <3>1, PutBr
    <3> QED BY <1>1, <2>0, <2>1, <3>2 DEF Put
  <2>4. CASE "step" \in Cur.form /\ "cond" \notin Cur.form
    <3>1. PICK b1 : b1 = Emit(blocks, a, Cur.post)
      OBVIOUS
    <3>2. Put(blocks, b1, a, Append(blocks[a].insts, Cur.post), blocks[a].term, blocks[a].to)
      BY <1>1, <3>1, PutEmit
    <3>3. b1 \in Seq(Block) /\ Len(b1) = N
      BY <1>1, <3>2 DEF Put
    <3>4. r = NewBr(b1, a, Cur.first)
      BY <1>2, <2>4, <3>1 DEF CondBlock
    <3>5. Put(b1, r, a, b1[a].insts, "br", <<Cur.first>>)
      BY <1>1, <3>3, <3>4, PutBr
    <3>6. Append(<<>>, Cur.post) = <<Cur.post>>
      OBVIOUS
    <3> QED BY <1>1, <2>0, <2>4, <3>2, <3>3, <3>5, <3>6 DEF Put
  <2>2. CASE "step" \notin Cur.form /\ "cond" \in Cur.form
    <3>1. PICK b1 : b1 = Emit(blocks, a, Cur.point)
      OBVIOUS
    <3>2. Put(blocks, b1, a, Append(blocks[a].insts, Cur.point), blocks[a].term, blocks[a].to)
      BY <1>1, <3>1, PutEmit
    <3>3. b1 \in Seq(Block) /\ Len(b1) = N
      BY <1>1, <3>2 DEF Put
    <3>4. r = NewCondBr(b1, a, Cur.first, Cur.end)
      BY <1>2, <2>2, <3>1 DEF CondBlock
    <3>5. Put(b1, r, a, b1[a].insts, "cond", <<Cur.first, Cur.end>>)
      BY <1>1, <3>3, <3>4, PutCond
    <3>6. Append(<<>>, Cur.point) = <<Cur.point>>
      OBVIOUS
    <3> QED BY <1>1, <2>0, <2>2, <3>2, <3>3, <3>5, <3>6 DEF Put
  <2>3. CASE "step" \in Cur.form /\ "cond" \in Cur.form
    <3>0. PICK b0 : b0 = Emit(blocks, a, Cur.post)
      OBVIOUS
    <3>7. Put(blocks, b0, a, Append(blocks[a].insts, Cur.post), blocks[a].term, blocks[a].to)
      BY <1>1, <3>0, PutEmit
    <3>8. b0 \in Seq(Block) /\ Len(b0) = N
      BY <1>1, <3>7 DEF Put
    <3>1. PICK b1 : b1 = Emit(b0, a, Cur.point)
      OBVIOUS
    <3>2. Put(b0, b1, a, Append(b0[a].insts, Cur.point), b0[a].term, b0[a].to)
      BY <1>1, <3>1, <3>8, PutEmit
    <3>3. b1 \in Seq(Block) /\ Len(b1) = N
      BY <3>8, <3>2 DEF Put
    <3>4. r = NewCondBr(b1, a, Cur.first, Cur.end)
      BY <1>2, <2>3, <3>0, <3>1 DEF CondBlock
    <3>5. Put(b1, r, a, b1[a].insts, "cond", <<Cur.first, Cur.end>>)
      BY <1>1, <3>3, <3>4, PutCond
    <3>6. Append(Append(<<>>, Cur.post), Cur.point) = <<Cur.post, Cur.point>>
      <4>1. Append(<<>>, Cur.post) = <<Cur.post>>
        OBVIOUS
      <4> QED BY <4>1, PairIs
    <3> QED BY <1>1, <2>0, <2>3, <3>2, <3>3, <3>5, <3>6, <3>7, <3>8, ZenonT(30) DEF Put
  <2> QED BY <2>1, <2>2, <2>3, <2>4
<1>4. blocks' = NewBr(r, c, a)
  BY <1>2 DEF CloseFor
<1>5. Put(r, blocks', c, r[c].insts, "br", <<a>>)
  BY <1>1, <1>3, <1>4, PutBr
<1>6. r[c] = blocks[c] /\ blocks'[a] = r[a] /\ Len(blocks') = N
  BY <1>1, <1>3, <1>5 DEF Put
<1>7. OnlyAt({a, c})
  BY <1>1, <1>3, <1>5 DEF OnlyAt, Put
<1>8. Made(c, I(c), "br", <<a>>)
  BY <1>5, <1>6 DEF Made, Put, I
<1> QED BY <1>3, <1>6, <1>7, <1>8 DEF Made, N

\* What the end of the function does to the blocks.
LEMMA FinishBlocks ==
    ASSUME Ranged, Finish, NEW c, c = Cur.block
    PROVE  /\ N' = N /\ OnlyAt({c})
           /\ mode = "func" => blocks' = blocks
           /\ mode # "func" => Made(c, I(c), "ret", <<>>)
<1>1. c \in 1..N /\ blocks \in Seq(Block) /\ Len(blocks) = N
  BY BaseIs
<1>2. CASE mode = "func"
  BY <1>1, <1>2 DEF Finish, OnlyAt, N
<1>3. CASE mode # "func"
  <2>1. blocks' = NewRet(blocks, c)
    BY <1>3 DEF Finish
  <2>2. Put(blocks, blocks', c, blocks[c].insts, "ret", <<>>)
    BY <1>1, <2>1, PutRet
  <2> QED BY <1>1, <1>3, <2>2 DEF Put, OnlyAt, Made, I, N
<1> QED BY <1>2, <1>3

-----------------------------------------------------------------------------
(* The blocks that the scopes still work on. *)

\* scopes whose structure has a block beside the one they begin with
HasCond(s) == s.kind \in {"then", "else", "body"}
\* the blocks that scope s still works on
Live(s) == {s.block, s.first} \union (IF HasCond(s) THEN {s.cond} ELSE {})
\* Block b may still get points, or has got nothing.
PendIn(bs, b) == bs[b].term \in {"none", "br", "ret"}
BlankIn(bs, b) == bs[b].insts = <<>> /\ bs[b].term = "none"
\* The block beside s is not its own.
Keen(s) == HasCond(s) => s.cond # s.block /\ s.cond # s.first
\* The blocks of scope s, which stands in a scope that goes on in block b: the one behind the structure is
\* still empty, and so is the one beside it until its turn comes.
Shaped(bs, s, b) ==
    /\ PendIn(bs, s.block)
    /\ HasCond(s) => s.end = b /\ BlankIn(bs, b)
    /\ s.kind \in {"then", "body"} => BlankIn(bs, s.cond)
    /\ s.kind = "body" /\ "cond" \notin s.form => bs[s.first].insts # <<>> /\ bs[s.first].insts[1] = s.point
\* Terminators have their targets.
Proper(x) == (x.term \in {"br", "yield"} => Len(x.to) = 1) /\ (x.term = "cond" => Len(x.to) = 2)
\* the block of the scope below depth d
Under(st, d) == IF d = 1 THEN Nil ELSE st[d - 1].block
\* No block belongs to two scopes, and all are shaped as their structures want.
Struct ==
    /\ \A d \in 1..Depth : \A k \in 1..Depth : d # k => \A x \in Live(stack[d]) : x \notin Live(stack[k])
    /\ \A d \in 1..Depth : Keen(stack[d]) /\ Shaped(blocks, stack[d], Under(stack, d))
    /\ \A b \in 1..N : Proper(blocks[b])

\* Block b begins as it did.
Heads(b) == blocks[b].insts # <<>> => blocks'[b].insts # <<>> /\ blocks'[b].insts[1] = blocks[b].insts[1]
\* A step that leaves the m lower scopes alone and touches the blocks of T.
Local(m, T) ==
    /\ m \in 0..Depth /\ m <= Len(stack') /\ N <= N' /\ OnlyAt(T)
    /\ \A x \in T : \E k \in (m + 1)..Depth : x \in Live(stack[k])
    /\ \A d \in 1..m : Core(stack[d], stack'[d]) /\ stack'[d].block = stack[d].block
    /\ \A d \in (m + 1)..Len(stack') : \A x \in Live(stack'[d]) :
          x \in (N + 1)..N' \/ \E k \in (m + 1)..Depth : x \in Live(stack[k])
    /\ \A b \in 1..N : Heads(b)
    /\ \A b \in 1..N' : Proper(blocks'[b])

\* A scope that stays in its block keeps its blocks.
LEMMA LiveCore == ASSUME NEW s, NEW t, Core(s, t), t.block = s.block PROVE Live(t) = Live(s) /\ (HasCond(t) <=> HasCond(s)) /\ (Keen(t) <=> Keen(s))
  BY DEF Live, HasCond, Keen, Core

\* Those blocks exist.
LEMMA LiveFits == ASSUME Ranged PROVE \A d \in 1..Depth : \A x \in Live(stack[d]) : x \in 1..N
  BY ScopeFits DEF Fits, Live, HasCond

\* A scope that goes on stays shaped.
LEMMA ShapedLike ==
    ASSUME NEW bs, NEW cs, NEW s, NEW t, NEW b, Shaped(bs, s, b), Core(s, t), PendIn(cs, t.block),
           HasCond(s) => cs[b] = bs[b] /\ cs[s.cond] = bs[s.cond],
           bs[s.first].insts # <<>> => cs[s.first].insts # <<>> /\ cs[s.first].insts[1] = bs[s.first].insts[1]
    PROVE  Shaped(cs, t, b)
  BY DEF Shaped, HasCond, Core, BlankIn

\* The scopes below a local step keep their blocks.
LEMMA LowIs ==
    ASSUME Ranged, Struct, NEW m, NEW T, Local(m, T), NEW d \in 1..m
    PROVE  /\ d \in 1..Depth /\ Core(stack[d], stack'[d]) /\ stack'[d].block = stack[d].block /\ Live(stack'[d]) = Live(stack[d])
           /\ \A x \in Live(stack[d]) : x \in 1..N /\ x \notin T /\ blocks'[x] = blocks[x]
           /\ \A k \in (m + 1)..Depth : d # k /\ \A x \in Live(stack[d]) : x \notin Live(stack[k])
<1>1. m \in 0..Depth /\ Depth \in Nat /\ d \in 1..Depth
  BY BaseIs DEF Local
<1>2. Core(stack[d], stack'[d]) /\ stack'[d].block = stack[d].block
  BY DEF Local
<1>3. \A k \in (m + 1)..Depth : d # k /\ k \in 1..Depth
  BY <1>1
<1>4. \A k \in (m + 1)..Depth : d # k /\ \A x \in Live(stack[d]) : x \notin Live(stack[k])
  BY <1>1, <1>3 DEF Struct
<1>5. \A x \in Live(stack[d]) : x \in 1..N /\ x \notin T
  BY <1>1, <1>4, LiveFits DEF Local
<1>6. \A x \in Live(stack[d]) : blocks'[x] = blocks[x]
  BY <1>5 DEF Local, OnlyAt
<1>7. Live(stack'[d]) = Live(stack[d])
  BY <1>2, LiveCore
<1> QED BY <1>1, <1>2, <1>4, <1>5, <1>6, <1>7

\* What is left to show of a local step.
LEMMA StructStep ==
    ASSUME Ranged, Struct, NEW m, NEW T, Local(m, T), Len(stack') \in Nat, N' \in Nat,
           \A d \in (m + 1)..Len(stack') : Keen(stack'[d]) /\ Shaped(blocks', stack'[d], Under(stack', d)),
           \A d \in (m + 1)..Len(stack') : \A k \in (m + 1)..Len(stack') : d # k => \A x \in Live(stack'[d]) : x \notin Live(stack'[k])
    PROVE  Struct'
<1>1. m \in 0..Depth /\ Depth \in Nat /\ m \in Nat /\ N \in Nat /\ Depth' = Len(stack') /\ m <= Depth'
  BY BaseIs DEF Local, Depth
<1>2. \A d \in 1..Depth' : d \in 1..m \/ d \in (m + 1)..Depth'
  BY <1>1
<1>3. ASSUME NEW d \in 1..m PROVE Keen(stack'[d]) /\ Shaped(blocks', stack'[d], Under(stack', d))
  <2>1. /\ d \in 1..Depth /\ Core(stack[d], stack'[d]) /\ stack'[d].block = stack[d].block
        /\ \A x \in Live(stack[d]) : blocks'[x] = blocks[x]
    BY LowIs
  <2>2. Keen(stack[d]) /\ Shaped(blocks, stack[d], Under(stack, d))
    BY <2>1 DEF Struct
  <2>3. Keen(stack'[d])
    BY <2>1, <2>2, LiveCore
  <2>4. PendIn(blocks', stack'[d].block)
    BY <2>1, <2>2 DEF Shaped, PendIn, Live
  <2>5. stack[d].first \in Live(stack[d]) /\ (HasCond(stack[d]) => stack[d].cond \in Live(stack[d]))
    BY DEF Live
  <2>6. CASE d = 1
    <3>1. PICK b : b = Under(stack, d)
      OBVIOUS
    <3>2. Under(stack', d) = b
      BY <2>6, <3>1 DEF Under
    <3>3. ~HasCond(stack[d])
      <4>1. HasCond(stack[d]) => stack[d].end = Nil /\ stack[d].end \in 1..N
        BY <2>1, <2>2, <2>6, ScopeFits DEF Shaped, Under, HasCond, Fits
      <4> QED BY <1>1, <4>1 DEF Nil
    <3> QED BY <2>1, <2>2, <2>3, <2>4, <2>5, <3>1, <3>2, <3>3, ShapedLike
  <2>7. CASE d # 1
    <3>1. d - 1 \in 1..m /\ d \in Nat
      BY <1>1, <2>7
    <3>2. PICK b : b = stack[d - 1].block
      OBVIOUS
    <3>3. stack'[d - 1].block = b /\ blocks'[b] = blocks[b]
      <4>1. b \in Live(stack[d - 1])
        BY <3>2 DEF Live
      <4> QED BY <3>1, <3>2, <4>1, LowIs
    <3>4. Under(stack, d) = b /\ Under(stack', d) = b
      BY <2>7, <3>2, <3>3 DEF Under
    <3> QED BY <2>1, <2>2, <2>3, <2>4, <2>5, <3>3, <3>4, ShapedLike
  <2> QED BY <2>6, <2>7
<1>4. ASSUME NEW d \in 1..Depth', NEW k \in 1..Depth', d # k, NEW x \in Live(stack'[d]) PROVE x \notin Live(stack'[k])
  <2>1. ASSUME NEW i \in 1..m, NEW j \in (m + 1)..Depth', NEW y \in Live(stack'[i]) PROVE y \notin Live(stack'[j])
    <3>1. y \in Live(stack[i]) /\ y \in 1..N /\ \A l \in (m + 1)..Depth : y \notin Live(stack[l])
      <4>1. Live(stack'[i]) = Live(stack[i])
        BY LowIs
      <4>2. \A x1 \in Live(stack[i]) : x1 \in 1..N
        BY LowIs
      <4>3. \A l \in (m + 1)..Depth : \A x1 \in Live(stack[i]) : x1 \notin Live(stack[l])
        BY LowIs
      <4> QED BY <4>1, <4>2, <4>3
    <3>2. y \notin (N + 1)..N'
      BY <1>1, <3>1
    <3> QED BY <1>1, <3>1, <3>2 DEF Local
  <2>2. CASE d \in 1..m /\ k \in 1..m
    <3>1. Live(stack'[d]) = Live(stack[d]) /\ Live(stack'[k]) = Live(stack[k]) /\ d \in 1..Depth /\ k \in 1..Depth
      BY <2>2, LowIs
    <3> QED BY <1>4, <3>1 DEF Struct
  <2>3. CASE d \in 1..m /\ k \in (m + 1)..Depth'
    BY <2>1, <2>3
  <2>4. CASE d \in (m + 1)..Depth' /\ k \in 1..m
    BY <2>1, <2>4
  <2>5. CASE d \in (m + 1)..Depth' /\ k \in (m + 1)..Depth'
    BY <1>1, <1>4, <2>5
  <2> QED BY <1>2, <2>2, <2>3, <2>4, <2>5
<1>5. \A d \in 1..Depth' : Keen(stack'[d]) /\ Shaped(blocks', stack'[d], Under(stack', d))
  BY <1>1, <1>2, <1>3
<1>6. \A b \in 1..N' : Proper(blocks'[b])
  BY DEF Local
<1> QED BY <1>4, <1>5, <1>6 DEF Struct

\* The current scope.
LEMMA TopIs ==
    ASSUME Ranged, Struct, NEW c, c = Cur.block
    PROVE  /\ Cur = stack[Depth] /\ Depth \in 1..Depth /\ Depth \in Nat /\ N \in Nat /\ c \in 1..N /\ c \in Live(Cur) /\ Keen(Cur)
           /\ Shaped(blocks, Cur, Under(stack, Depth)) /\ PendIn(blocks, c)
           /\ \A x \in Live(Cur) : x \in 1..N
           /\ \A b \in 1..N : Proper(blocks[b])
           /\ I(c) \in Seq(Nat)
<1>1. Cur = stack[Depth] /\ Depth \in 1..Depth /\ Depth \in Nat /\ N \in Nat /\ c \in 1..N
  BY BaseIs DEF Cur
<1>2. c \in Live(Cur)
  BY DEF Live
<1>3. Keen(Cur) /\ Shaped(blocks, Cur, Under(stack, Depth))
  BY <1>1 DEF Struct
<1>4. \A x \in Live(Cur) : x \in 1..N
  BY <1>1, LiveFits
<1>5. I(c) \in Seq(Nat)
  BY <1>1, BaseIs, BlockIs
<1> QED BY <1>1, <1>2, <1>3, <1>4, <1>5 DEF Struct, Shaped

\* The block of the scope below.
LEMMA UnderIs ==
    ASSUME Ranged, Struct, NEW b, b = Under(stack, Depth), NEW c, c = Cur.block, HasCond(Cur) \/ Depth > 1
    PROVE  b = stack[Depth - 1].block /\ Depth > 1 /\ Depth - 1 \in 1..Depth /\ b \in 1..N /\ b # c /\ b \in Live(stack[Depth - 1]) /\ \A x \in Live(Cur) : x # b
<1>1. Cur = stack[Depth] /\ Depth \in 1..Depth /\ Depth \in Nat /\ N \in Nat /\ c \in Live(Cur)
  BY TopIs
<1>2. Depth > 1
  <2> SUFFICES ASSUME HasCond(Cur) PROVE Depth # 1
    BY <1>1
  <2>1. Cur.end = b /\ Cur.end \in 1..N
    BY <1>1, TopIs, ScopeFits DEF Shaped, HasCond, Fits
  <2> QED BY <1>1, <2>1 DEF Under, Nil
<1>3. b = stack[Depth - 1].block /\ Depth - 1 \in 1..Depth /\ Depth - 1 # Depth
  BY <1>1, <1>2 DEF Under
<1>4. b \in Live(stack[Depth - 1])
  BY <1>3 DEF Live
<1>5. \A x \in Live(Cur) : x # b
  BY <1>1, <1>3, <1>4 DEF Struct
<1>6. b \in 1..N
  BY <1>3, <1>4, LiveFits
<1> QED BY <1>1, <1>2, <1>3, <1>4, <1>5, <1>6

\* A point at the end of a block leaves its beginning.
LEMMA HeadsAppend ==
    ASSUME Ranged, NEW b \in 1..N, NEW p, blocks'[b].insts = Append(I(b), p) PROVE Heads(b)
<1>1. I(b) \in Seq(Nat)
  BY BaseIs, BlockIs
<1>2. I(b) # <<>> => Append(I(b), p) # <<>> /\ Append(I(b), p)[1] = I(b)[1]
  BY <1>1
<1> QED BY <1>2 DEF Heads, I

\* The current scope goes on, perhaps in a new block.
LEMMA StructTop ==
    ASSUME Ranged, Struct, N <= N', N' \in Nat, NEW c, c = Cur.block, OnlyAt({c}), Heads(c), Proper(blocks'[c]),
           \A b \in (N + 1)..N' : Proper(blocks'[b]),
           Len(stack') = Depth, \A d \in 1..Depth : d # Depth => Core(stack[d], stack'[d]) /\ stack'[d].block = stack[d].block,
           NEW t, t = stack'[Depth], Core(Cur, t), t.block = c \/ t.block \in (N + 1)..N', PendIn(blocks', t.block)
    PROVE  Local(Depth - 1, {c}) /\ Struct'
<1>1. /\ Cur = stack[Depth] /\ Depth \in 1..Depth /\ Depth \in Nat /\ N \in Nat /\ c \in 1..N /\ c \in Live(Cur) /\ Keen(Cur)
      /\ Shaped(blocks, Cur, Under(stack, Depth))
  BY TopIs
<1>2. PICK m, T : m = Depth - 1 /\ T = {c}
  OBVIOUS
<1>3. m \in 0..Depth /\ m <= Depth /\ (m + 1)..Depth = {Depth}
  BY <1>1, <1>2
<1>4. \A d \in 1..m : d \in 1..Depth /\ d # Depth
  BY <1>1, <1>2
<1>5. \A x \in Live(t) : x \in (N + 1)..N' \/ x \in Live(Cur)
  BY <1>1 DEF Live, Core, HasCond
<1>6. ASSUME NEW b \in 1..N PROVE Heads(b)
  BY DEF OnlyAt, Heads
<1>7. ASSUME NEW b \in 1..N' PROVE Proper(blocks'[b])
  <2>1. b \in 1..N \/ b \in (N + 1)..N'
    BY <1>1
  <2>2. b \in 1..N /\ b # c => Proper(blocks'[b])
    BY TopIs DEF OnlyAt
  <2> QED BY <2>1, <2>2
<1>8. Local(m, T)
  <2>1. OnlyAt(T) /\ m <= Len(stack') /\ N <= N' /\ m \in 0..Depth
    BY <1>2, <1>3
  <2>2. \A x \in T : \E k \in (m + 1)..Depth : x \in Live(stack[k])
    BY <1>1, <1>2, <1>3
  <2>3. \A d \in 1..m : Core(stack[d], stack'[d]) /\ stack'[d].block = stack[d].block
    BY <1>4
  <2>4. \A d \in (m + 1)..Len(stack') : \A x \in Live(stack'[d]) :
          x \in (N + 1)..N' \/ \E k \in (m + 1)..Depth : x \in Live(stack[k])
    BY <1>1, <1>3, <1>5
  <2> QED BY <1>6, <1>7, <2>1, <2>2, <2>3, <2>4 DEF Local
<1>9. Keen(t)
  <2>1. HasCond(Cur) => Cur.cond \in 1..N
    BY TopIs DEF Live
  <2>2. t.cond = Cur.cond /\ t.first = Cur.first /\ (HasCond(t) <=> HasCond(Cur))
    BY DEF Core, HasCond
  <2> QED BY <1>1, <2>1, <2>2 DEF Keen
<1>10. Shaped(blocks', t, Under(stack', Depth))
  <2>1. PICK b : b = Under(stack, Depth)
    OBVIOUS
  <2>2. Under(stack', Depth) = b
    <3>1. CASE Depth = 1
      BY <2>1, <3>1 DEF Under
    <3>2. CASE Depth # 1
      <4>1. Depth - 1 \in 1..Depth /\ Depth - 1 # Depth
        BY <1>1, <3>2
      <4> QED BY <2>1, <3>2, <4>1 DEF Under
    <3> QED BY <3>1, <3>2
  <2>3. HasCond(Cur) => blocks'[b] = blocks[b]
    BY <2>1, UnderIs DEF OnlyAt
  <2>4. HasCond(Cur) => blocks'[Cur.cond] = blocks[Cur.cond]
    <3>1. HasCond(Cur) => Cur.cond \in 1..N /\ Cur.cond # c
      BY <1>1, TopIs DEF Live, Keen
    <3> QED BY <3>1 DEF OnlyAt
  <2>5. blocks[Cur.first].insts # <<>> => blocks'[Cur.first].insts # <<>> /\ blocks'[Cur.first].insts[1] = blocks[Cur.first].insts[1]
    <3>1. Cur.first \in 1..N
      BY TopIs DEF Live
    <3> QED BY <1>6, <3>1 DEF Heads
  <2> QED BY <1>1, <2>1, <2>2, <2>3, <2>4, <2>5, ShapedLike
<1>11. \A d \in (m + 1)..Len(stack') : Keen(stack'[d]) /\ Shaped(blocks', stack'[d], Under(stack', d))
  BY <1>3, <1>9, <1>10
<1>12. \A d \in (m + 1)..Len(stack') : \A k \in (m + 1)..Len(stack') : d = k
  BY <1>3
<1> QED BY <1>1, <1>2, <1>8, <1>11, <1>12, StructStep

\* A scope t is opened above the current one, which goes on as s.
LEMMA StructPush ==
    ASSUME Ranged, Struct, N <= N', N' \in Nat, NEW c, c = Cur.block, OnlyAt({c}), Heads(c), Proper(blocks'[c]),
           \A b \in (N + 1)..N' : Proper(blocks'[b]),
           Len(stack') = Depth + 1, \A d \in 1..Depth : d # Depth => stack'[d] = stack[d],
           NEW s, s = stack'[Depth], Core(Cur, s), s.block = c \/ s.block \in (N + 1)..N', PendIn(blocks', s.block),
           NEW t, t = stack'[Depth + 1], \A x \in Live(t) : x \in (N + 1)..N' /\ x # s.block, Keen(t), Shaped(blocks', t, s.block)
    PROVE  Local(Depth - 1, {c}) /\ Struct'
<1>1. /\ Cur = stack[Depth] /\ Depth \in 1..Depth /\ Depth \in Nat /\ N \in Nat /\ c \in 1..N /\ c \in Live(Cur) /\ Keen(Cur)
      /\ Shaped(blocks, Cur, Under(stack, Depth))
  BY TopIs
<1>2. PICK m, T : m = Depth - 1 /\ T = {c}
  OBVIOUS
<1>3. m \in 0..Depth /\ m <= Depth /\ (m + 1)..Depth = {Depth} /\ (\A d \in (m + 1)..Len(stack') : d = Depth \/ d = Depth + 1)
  BY <1>1, <1>2
<1>4. \A d \in 1..m : d \in 1..Depth /\ d # Depth
  BY <1>1, <1>2
<1>5. \A x \in Live(s) : x \in (N + 1)..N' \/ x \in Live(Cur)
  BY <1>1 DEF Live, Core, HasCond
<1>6. ASSUME NEW b \in 1..N PROVE Heads(b)
  BY DEF OnlyAt, Heads
<1>7. ASSUME NEW b \in 1..N' PROVE Proper(blocks'[b])
  <2>1. b \in 1..N \/ b \in (N + 1)..N'
    BY <1>1
  <2>2. b \in 1..N /\ b # c => Proper(blocks'[b])
    BY TopIs DEF OnlyAt
  <2> QED BY <2>1, <2>2
<1>8. Local(m, T)
  <2>1. OnlyAt(T) /\ m <= Len(stack') /\ N <= N' /\ m \in 0..Depth
    <3>1. m <= Len(stack')
      BY <1>1, <1>2
    <3> QED BY <1>2, <1>3, <3>1
  <2>2. \A x \in T : \E k \in (m + 1)..Depth : x \in Live(stack[k])
    BY <1>1, <1>2, <1>3
  <2>3. \A d \in 1..m : Core(stack[d], stack'[d]) /\ stack'[d].block = stack[d].block
    BY <1>4, SelfIs
  <2>4. \A d \in (m + 1)..Len(stack') : \A x \in Live(stack'[d]) :
          x \in (N + 1)..N' \/ \E k \in (m + 1)..Depth : x \in Live(stack[k])
    BY <1>1, <1>3, <1>5
  <2> QED BY <1>6, <1>7, <2>1, <2>2, <2>3, <2>4 DEF Local
<1>9. Keen(s)
  <2>1. HasCond(Cur) => Cur.cond \in 1..N
    BY TopIs DEF Live
  <2>2. s.cond = Cur.cond /\ s.first = Cur.first /\ (HasCond(s) <=> HasCond(Cur))
    BY DEF Core, HasCond
  <2> QED BY <1>1, <2>1, <2>2 DEF Keen
<1>10. Shaped(blocks', s, Under(stack', Depth))
  <2>1. PICK b : b = Under(stack, Depth)
    OBVIOUS
  <2>2. Under(stack', Depth) = b
    <3>1. CASE Depth = 1
      BY <2>1, <3>1 DEF Under
    <3>2. CASE Depth # 1
      <4>1. Depth - 1 \in 1..Depth /\ Depth - 1 # Depth
        BY <1>1, <3>2
      <4> QED BY <2>1, <3>2, <4>1 DEF Under
    <3> QED BY <3>1, <3>2
  <2>3. HasCond(Cur) => blocks'[b] = blocks[b]
    BY <2>1, UnderIs DEF OnlyAt
  <2>4. HasCond(Cur) => blocks'[Cur.cond] = blocks[Cur.cond]
    <3>1. HasCond(Cur) => Cur.cond \in 1..N /\ Cur.cond # c
      BY <1>1, TopIs DEF Live, Keen
    <3> QED BY <3>1 DEF OnlyAt
  <2>5. blocks[Cur.first].insts # <<>> => blocks'[Cur.first].insts # <<>> /\ blocks'[Cur.first].insts[1] = blocks[Cur.first].insts[1]
    <3>1. Cur.first \in 1..N
      BY TopIs DEF Live
    <3> QED BY <1>6, <3>1 DEF Heads
  <2> QED BY <1>1, <2>1, <2>2, <2>3, <2>4, <2>5, ShapedLike
<1>13. Under(stack', Depth + 1) = s.block /\ Depth + 1 # Depth
  BY <1>1 DEF Under
<1>11. \A d \in (m + 1)..Len(stack') : Keen(stack'[d]) /\ Shaped(blocks', stack'[d], Under(stack', d))
  BY <1>3, <1>9, <1>10, <1>13
<1>14. \A x \in Live(s) : x \notin Live(t)
  <2>1. \A x \in Live(s) : x = s.block \/ x \in Live(Cur)
    BY <1>1 DEF Live, Core, HasCond
  <2>2. \A x \in Live(Cur) : x \notin (N + 1)..N'
    BY <1>1, TopIs
  <2> QED BY <2>1, <2>2
<1>12. \A d \in (m + 1)..Len(stack') : \A k \in (m + 1)..Len(stack') : d # k => \A x \in Live(stack'[d]) : x \notin Live(stack'[k])
  BY <1>3, <1>14
<1>15. Len(stack') \in Nat
  BY <1>1
<1> QED BY <1>2, <1>8, <1>11, <1>12, <1>15, StructStep

\* A simple statement keeps Struct, and touches only blocks of the scopes it works on.
LEMMA StructStatement ==
    ASSUME Ranged, Struct, NEW isDef \in BOOLEAN, Statement(isDef), NEW c, c = Cur.block
    PROVE  Local(Depth - 1, {c}) /\ Struct'
<1>0. PICK p, t : p = points + 1 /\ t = stack'[Depth]
  OBVIOUS
<1>1. N' = N /\ OnlyAt({c}) /\ Made(c, Append(I(c), p), Term(c), Tos(c))
  BY <1>0, StatementBlocks
<1>2. c \in 1..N /\ N \in Nat /\ Proper(blocks[c]) /\ PendIn(blocks, c)
  BY TopIs
<1>3. /\ Len(stack') = Depth /\ \A d \in 1..Depth : d # Depth => stack'[d] = stack[d]
      /\ Core(Cur, t) /\ t.block = c
  BY <1>0, BaseIs, StatementStack
<1>4. Heads(c) /\ Proper(blocks'[c]) /\ PendIn(blocks', t.block)
  BY <1>1, <1>2, <1>3, HeadsAppend DEF Made, Proper, PendIn, Term, Tos
<1>5. \A b \in (N + 1)..N' : Proper(blocks'[b])
  BY <1>1, <1>2
<1>6. N <= N' /\ N' \in Nat
  BY <1>1, <1>2
<1>7. \A d \in 1..Depth : d # Depth => Core(stack[d], stack'[d]) /\ stack'[d].block = stack[d].block
  BY <1>3, SelfIs
<1> QED BY <1>0, <1>1, <1>3, <1>4, <1>5, <1>6, <1>7, StructTop

\* Yield or await keeps Struct, and touches only blocks of the scopes it works on.
LEMMA StructSuspend ==
    ASSUME Ranged, Struct, Suspend, NEW c, c = Cur.block
    PROVE  Local(Depth - 1, {c}) /\ Struct'
<1>00. PICK p, k : p = points + 1 /\ k = N + 1
  OBVIOUS
<1>1. N' = k /\ OnlyAt({c}) /\ Made(c, Append(I(c), p), "yield", <<k>>) /\ Fresh(k)
  BY <1>00, SuspendBlocks
<1>01. PICK t, x : t = stack'[Depth] /\ x = "open"
  OBVIOUS
<1>0. p = points + 1 /\ t = stack'[Depth] /\ k = N + 1 /\ x = "open"
  BY <1>00, <1>01
<1>2. c \in 1..N /\ N \in Nat /\ k \in Nat /\ N <= k /\ (\A b \in (N + 1)..k : b = k) /\ k \in (N + 1)..k
  BY <1>0, TopIs
<1>8. SetCur(Moved(Cur, k, x)) /\ Typed
  BY <1>0, BaseIs DEF Suspend, Moved
<1>3. /\ Len(stack') = Depth /\ \A d \in 1..Depth : d # Depth => stack'[d] = stack[d]
      /\ Core(Cur, t) /\ t.block = k
  BY <1>0, <1>2, <1>8, MovedStack
<1>4. Heads(c) /\ Proper(blocks'[c])
  BY <1>1, <1>2, HeadsAppend DEF Made, Proper
<1>5. Proper(blocks'[k]) /\ PendIn(blocks', k)
  BY <1>1 DEF Fresh, Made, Proper, PendIn
<1>6. N <= N' /\ N' \in Nat /\ (\A b \in (N + 1)..N' : Proper(blocks'[b])) /\ t.block \in (N + 1)..N' /\ PendIn(blocks', t.block)
  BY <1>1, <1>2, <1>3, <1>5
<1>7. \A d \in 1..Depth : d # Depth => Core(stack[d], stack'[d]) /\ stack'[d].block = stack[d].block
  BY <1>3, SelfIs
<1> QED BY <1>0, <1>1, <1>3, <1>4, <1>6, <1>7, StructTop

\* Return keeps Struct, and touches only blocks of the scopes it works on.
LEMMA StructRet ==
    ASSUME Ranged, Struct, Ret, NEW c, c = Cur.block
    PROVE  Local(Depth - 1, {c}) /\ Struct'
<1>0. PICK t, k : t = stack'[Depth] /\ k = N + 1
  OBVIOUS
<1>1. /\ OnlyAt({c}) /\ Made(c, I(c), "ret", <<>>)
      /\ mode # "async" => N' = N
      /\ mode = "async" => N' = k /\ Made(k, <<>>, "ret", <<>>)
  BY <1>0, RetBlocks, SMTT(30)
<1>2. c \in 1..N /\ N \in Nat /\ k \in Nat /\ N <= k /\ (\A b \in (N + 1)..k : b = k) /\ k \in (N + 1)..k
  BY <1>0, TopIs
<1>4. Heads(c) /\ Proper(blocks'[c]) /\ PendIn(blocks', c)
  BY <1>1 DEF Made, Proper, Heads, I, PendIn
<1>5. CASE mode = "async"
  <2>1. PICK x : x = "ended"
    OBVIOUS
  <2>2. SetCur(Moved(Cur, k, x)) /\ Typed
    BY <1>0, <1>5, <2>1, BaseIs DEF Ret, Moved
  <2>3. /\ Len(stack') = Depth /\ \A d \in 1..Depth : d # Depth => stack'[d] = stack[d]
        /\ Core(Cur, t) /\ t.block = k
    BY <1>0, <1>2, <2>1, <2>2, MovedStack
  <2>5. Proper(blocks'[k]) /\ PendIn(blocks', k)
    BY <1>1, <1>5 DEF Made, Proper, PendIn
  <2>6. N <= N' /\ N' \in Nat /\ (\A b \in (N + 1)..N' : Proper(blocks'[b])) /\ t.block \in (N + 1)..N' /\ PendIn(blocks', t.block)
    BY <1>1, <1>2, <1>5, <2>3, <2>5
  <2>7. \A d \in 1..Depth : d # Depth => Core(stack[d], stack'[d]) /\ stack'[d].block = stack[d].block
    BY <2>3, SelfIs
  <2> QED BY <1>0, <1>1, <1>4, <2>3, <2>6, <2>7, StructTop
<1>6. CASE mode # "async"
  <2>1. PICK j : j = "ret"
    OBVIOUS
  <2>2. SetCur(Jump(j)) /\ Typed
    BY <1>6, <2>1, BaseIs DEF Ret
  <2>3. /\ Len(stack') = Depth /\ \A d \in 1..Depth : d # Depth => stack'[d] = stack[d]
        /\ Core(Cur, t) /\ t.block = c
    BY <1>0, <2>1, <2>2, JumpStack
  <2>6. N <= N' /\ N' \in Nat /\ (\A b \in (N + 1)..N' : Proper(blocks'[b])) /\ PendIn(blocks', t.block)
    BY <1>1, <1>2, <1>4, <1>6, <2>3
  <2>7. \A d \in 1..Depth : d # Depth => Core(stack[d], stack'[d]) /\ stack'[d].block = stack[d].block
    BY <2>3, SelfIs
  <2> QED BY <1>0, <1>1, <1>4, <2>3, <2>6, <2>7, StructTop
<1> QED BY <1>5, <1>6

\* Break or continue keeps Struct, and touches only blocks of the scopes it works on.
LEMMA StructJump ==
    ASSUME Ranged, Struct, NEW j \in {"break", "continue"}, NEW x \in 0..N, x # Nil, BreakOrContinue(j, x), NEW c, c = Cur.block
    PROVE  Local(Depth - 1, {c}) /\ Struct'
<1>0. PICK t : t = stack'[Depth]
  OBVIOUS
<1>2. c \in 1..N /\ N \in Nat /\ x \in Nat /\ Typed /\ Depth \in 1..Depth /\ Cur = stack[Depth]
  BY TopIs, BaseIs
<1>1. N' = N /\ OnlyAt({c}) /\ Made(c, I(c), "br", <<x>>)
  BY <1>2, JumpBlocks
<1>4. Heads(c) /\ Proper(blocks'[c]) /\ PendIn(blocks', c)
  BY <1>1 DEF Made, Proper, Heads, I, PendIn
<1>3. /\ Len(stack') = Depth /\ \A d \in 1..Depth : d # Depth => Core(stack[d], stack'[d]) /\ stack'[d].block = stack[d].block
      /\ Core(Cur, t) /\ t.block = c
  <2>1. CASE LoopDepths = {}
    <3>1. SetCur(Jump(j))
      BY <2>1 DEF BreakOrContinue
    <3>2. /\ Len(stack') = Depth /\ \A d \in 1..Depth : d # Depth => stack'[d] = stack[d]
          /\ Core(Cur, t) /\ t.block = c
      BY <1>0, <1>2, <3>1, JumpStack
    <3> QED BY <3>2, SelfIs
  <2>2. CASE LoopDepths # {}
    <3>1. PICK L : L = InnerLoop
      OBVIOUS
    <3>2. Len(stack') = Depth /\ \A d \in 1..Depth : Handed(j, L, d, stack[d], stack'[d])
      <4>1. Typed
        BY BaseIs
      <4> QED BY <4>1, <2>2, <3>1, LoopJumpStack
    <3> QED BY <1>0, <1>2, <3>2 DEF Handed
  <2> QED BY <2>1, <2>2
<1>6. N <= N' /\ N' \in Nat /\ (\A b \in (N + 1)..N' : Proper(blocks'[b])) /\ PendIn(blocks', t.block)
  BY <1>1, <1>2, <1>3, <1>4
<1> QED BY <1>0, <1>1, <1>3, <1>4, <1>6, StructTop

\* The end of the function keeps Struct, and touches only blocks of the scopes it works on.
LEMMA StructFinish ==
    ASSUME Ranged, Struct, Finish, NEW c, c = Cur.block
    PROVE  Local(Depth - 1, {c}) /\ Struct'
<1>0. PICK t : t = stack'[Depth]
  OBVIOUS
<1>2. c \in 1..N /\ N \in Nat /\ Depth \in 1..Depth /\ Cur = stack[Depth] /\ Proper(blocks[c]) /\ PendIn(blocks, c)
  BY TopIs
<1>1. /\ N' = N /\ OnlyAt({c})
      /\ mode = "func" => blocks' = blocks
      /\ mode # "func" => Made(c, I(c), "ret", <<>>)
  BY FinishBlocks
<1>4. Heads(c) /\ Proper(blocks'[c]) /\ PendIn(blocks', c)
  BY <1>1, <1>2 DEF Made, Proper, Heads, I, PendIn
<1>3. /\ Len(stack') = Depth /\ \A d \in 1..Depth : d # Depth => Core(stack[d], stack'[d]) /\ stack'[d].block = stack[d].block
      /\ Core(Cur, t) /\ t.block = c
  <2>1. stack' = stack
    BY DEF Finish
  <2> QED BY <1>0, <1>2, <2>1, SelfIs DEF Depth
<1>6. N <= N' /\ N' \in Nat /\ (\A b \in (N + 1)..N' : Proper(blocks'[b])) /\ PendIn(blocks', t.block)
  BY <1>1, <1>2, <1>3, <1>4
<1> QED BY <1>0, <1>1, <1>3, <1>4, <1>6, StructTop

\* Opening an if keeps Struct, and touches only blocks of the scopes it works on.
LEMMA StructOpenIf ==
    ASSUME Ranged, Struct, OpenIf, NEW c, c = Cur.block
    PROVE  Local(Depth - 1, {c}) /\ Struct'
<1>0. PICK s, t, k : s = stack'[Depth] /\ t = stack'[Depth + 1] /\ k = N + 1
  OBVIOUS
<1>1. N' = k /\ OnlyAt({}) /\ Fresh(k)
  BY <1>0, OpenIfBlocks
<1>2. /\ c \in 1..N /\ N \in Nat /\ k \in Nat /\ N <= k /\ (\A b \in (N + 1)..k : b = k) /\ k \in (N + 1)..k /\ k # c
      /\ Depth \in 1..Depth /\ Cur = stack[Depth] /\ Proper(blocks[c]) /\ PendIn(blocks, c)
  BY <1>0, TopIs
<1>3. /\ Len(stack') = Depth + 1 /\ (\A d \in 1..Depth : stack'[d] = stack[d]) /\ Opened(Cur, t, "if", k)
  BY <1>0, BaseIs, OpenIfStack
<1>4. OnlyAt({c}) /\ blocks'[c] = blocks[c]
  BY <1>1, <1>2 DEF OnlyAt
<1>5. Heads(c) /\ Proper(blocks'[c])
  BY <1>2, <1>4 DEF Heads
<1>6. N <= N' /\ N' \in Nat /\ \A b \in (N + 1)..N' : Proper(blocks'[b])
  BY <1>1, <1>2 DEF Fresh, Made, Proper
<1>7. s = Cur /\ Core(Cur, s) /\ s.block = c /\ PendIn(blocks', s.block)
  BY <1>0, <1>2, <1>3, <1>4, SelfIs DEF PendIn
<1>8. t.kind = "if" /\ t.block = k /\ t.first = k
  BY <1>3 DEF Opened
<1>9. Live(t) = {k} /\ Keen(t)
  BY <1>8 DEF Live, HasCond, Keen
<1>10. Shaped(blocks', t, s.block)
  BY <1>1, <1>8 DEF Shaped, HasCond, PendIn, Fresh, Made
<1>11. \A x \in Live(t) : x \in (N + 1)..N' /\ x # s.block
  BY <1>1, <1>2, <1>7, <1>9
<1>12. \A d \in 1..Depth : d # Depth => stack'[d] = stack[d]
  BY <1>3
<1> QED BY <1>0, <1>3, <1>4, <1>5, <1>6, <1>7, <1>9, <1>10, <1>11, <1>12, StructPush

\* Opening an if/else keeps Struct, and touches only blocks of the scopes it works on.
LEMMA StructOpenIfElse ==
    ASSUME Ranged, Struct, OpenIfElse, NEW c, c = Cur.block
    PROVE  Local(Depth - 1, {c}) /\ Struct'
<1>0. PICK s, t, p, k1, k2, k3 : s = stack'[Depth] /\ t = stack'[Depth + 1] /\ p = points + 1 /\ k1 = N + 1 /\ k2 = N + 2 /\ k3 = N + 3
  OBVIOUS
<1>1. N' = k3 /\ OnlyAt({c}) /\ Made(c, Append(I(c), p), "cond", <<k1, k2>>) /\ Fresh(k1) /\ Fresh(k2) /\ Fresh(k3)
  BY <1>0, OpenIfElseBlocks
<1>2. /\ c \in 1..N /\ N \in Nat /\ k3 \in Nat /\ N <= k3 /\ (\A b \in (N + 1)..k3 : b = k1 \/ b = k2 \/ b = k3)
      /\ k1 \in (N + 1)..k3 /\ k2 \in (N + 1)..k3 /\ k3 \in (N + 1)..k3 /\ k1 # k2 /\ k2 # k3 /\ k1 # k3
  BY <1>0, TopIs, SMTT(30)
<1>3. /\ Len(stack') = Depth + 1 /\ \A d \in 1..Depth : d # Depth => stack'[d] = stack[d]
      /\ Core(Cur, s) /\ s.block = k3
      /\ Opened(s, t, "then", k1) /\ t.cond = k2 /\ t.end = k3
  BY <1>0, BaseIs, OpenIfElseStack
<1>5. Heads(c) /\ Proper(blocks'[c])
  BY <1>1, <1>2, HeadsAppend DEF Made, Proper
<1>6. N <= N' /\ N' \in Nat /\ \A b \in (N + 1)..N' : Proper(blocks'[b])
  BY <1>1, <1>2 DEF Fresh, Made, Proper
<1>7. PendIn(blocks', s.block) /\ s.block \in (N + 1)..N'
  BY <1>1, <1>2, <1>3 DEF Fresh, Made, PendIn
<1>8. t.kind = "then" /\ t.block = k1 /\ t.first = k1
  BY <1>3 DEF Opened
<1>9. Live(t) = {k1, k2} /\ Keen(t)
  BY <1>2, <1>3, <1>8 DEF Live, HasCond, Keen
<1>10. Shaped(blocks', t, s.block)
  BY <1>1, <1>3, <1>8 DEF Shaped, HasCond, PendIn, BlankIn, Fresh, Made
<1>11. \A x \in Live(t) : x \in (N + 1)..N' /\ x # s.block
  BY <1>1, <1>2, <1>3, <1>9
<1> QED BY <1>0, <1>1, <1>3, <1>5, <1>6, <1>7, <1>9, <1>10, <1>11, StructPush

\* Opening a loop keeps Struct, and touches only blocks of the scopes it works on.
LEMMA StructOpenFor ==
    ASSUME Ranged, Struct, NEW form \in Forms, OpenFor(form), NEW c, c = Cur.block
    PROVE  Local(Depth - 1, {c}) /\ Struct'
<1>00. PICK p, q, k1, k2, k3 : p = points + 1 /\ q = points + 2 /\ k1 = N + 1 /\ k2 = N + 2 /\ k3 = N + 3
  OBVIOUS
<1>1. /\ N' = k3 /\ OnlyAt({c}) /\ Fresh(k1) /\ Fresh(k3)
      /\ "def" \notin form /\ "cond" \notin form => Made(c, I(c), "br", <<k2>>) /\ Made(k2, <<p>>, "none", <<>>)
      /\ "def" \in form /\ "cond" \notin form => Made(c, Append(I(c), p), "br", <<k2>>) /\ Made(k2, <<q>>, "none", <<>>)
      /\ "def" \notin form /\ "cond" \in form => Made(c, Append(I(c), p), "cond", <<k2, k3>>) /\ Fresh(k2)
      /\ "def" \in form /\ "cond" \in form => Made(c, Append(Append(I(c), p), q), "cond", <<k2, k3>>) /\ Fresh(k2)
  <2>1. ForMade(form, c, p, q, k1, k2, k3)
    BY <1>00, OpenForBlocks
  <2> QED BY <2>1 DEF ForMade
<1>01. PICK s, t : s = stack'[Depth] /\ t = stack'[Depth + 1]
  OBVIOUS
<1>0. s = stack'[Depth] /\ t = stack'[Depth + 1] /\ p = points + 1 /\ q = points + 2 /\ k1 = N + 1 /\ k2 = N + 2 /\ k3 = N + 3
  BY <1>00, <1>01
<1>20. c \in 1..N /\ N \in Nat /\ I(c) \in Seq(Nat) /\ points \in Nat
  BY TopIs, BaseIs
<1>2. /\ c \in 1..N /\ N \in Nat /\ k3 \in Nat /\ N <= k3 /\ (\A b \in (N + 1)..k3 : b = k1 \/ b = k2 \/ b = k3)
      /\ k1 \in (N + 1)..k3 /\ k2 \in (N + 1)..k3 /\ k3 \in (N + 1)..k3 /\ k1 # k2 /\ k2 # k3 /\ k1 # k3 /\ I(c) \in Seq(Nat) /\ points \in Nat
  BY <1>00, <1>20
<1>3. /\ Len(stack') = Depth + 1 /\ \A d \in 1..Depth : d # Depth => stack'[d] = stack[d]
      /\ Around(s) /\ Looped(form, t)
  BY <1>0, BaseIs, OpenForStack
<1>5. Heads(c) /\ Proper(blocks'[c])
  <2>1. CASE "def" \notin form /\ "cond" \notin form
    BY <1>1, <2>1 DEF Made, Proper, Heads, I
  <2>4. CASE "def" \in form /\ "cond" \notin form
    BY <1>1, <1>2, <2>4, HeadsAppend DEF Made, Proper
  <2>2. CASE "def" \notin form /\ "cond" \in form
    BY <1>1, <1>2, <2>2, HeadsAppend DEF Made, Proper
  <2>3. CASE "def" \in form /\ "cond" \in form
    <3>1. p \in Nat /\ q \in Nat
      BY <1>0, <1>2
    <3>2. I(c) # <<>> => Append(Append(I(c), p), q) # <<>> /\ Append(Append(I(c), p), q)[1] = I(c)[1]
      BY <1>2, <3>1
    <3> QED BY <1>1, <2>3, <3>2 DEF Made, Proper, Heads, I
  <2> QED BY <2>1, <2>2, <2>3, <2>4
<1>12. Proper(blocks'[k2]) /\ PendIn(blocks', k2) /\ ("cond" \notin form => blocks'[k2].insts # <<>> /\ blocks'[k2].insts[1] = t.point)
  <2>1. <<p>> # <<>> /\ <<p>>[1] = p /\ <<q>> # <<>> /\ <<q>>[1] = q
    OBVIOUS
  <2>2. t.point = IF "def" \in form THEN q ELSE p
    BY <1>0, <1>3 DEF Looped
  <2> QED BY <1>1, <2>1, <2>2 DEF Fresh, Made, Proper, PendIn
<1>6. N <= N' /\ N' \in Nat /\ \A b \in (N + 1)..N' : Proper(blocks'[b])
  BY <1>1, <1>2, <1>12 DEF Fresh, Made, Proper
<1>7. Core(Cur, s) /\ s.block = k3 /\ PendIn(blocks', s.block) /\ s.block \in (N + 1)..N'
  BY <1>0, <1>1, <1>2, <1>3 DEF Around, Fresh, Made, PendIn
<1>8. t.kind = "body" /\ t.block = k2 /\ t.first = k2 /\ t.cond = k1 /\ t.end = k3 /\ t.form = form
  BY <1>0, <1>3 DEF Looped
<1>9. Live(t) = {k1, k2} /\ Keen(t)
  BY <1>2, <1>8 DEF Live, HasCond, Keen
<1>10. Shaped(blocks', t, s.block)
  <2>1. BlankIn(blocks', k1) /\ BlankIn(blocks', k3)
    BY <1>1 DEF BlankIn, Fresh, Made
  <2> QED BY <1>7, <1>8, <1>12, <2>1 DEF Shaped, HasCond
<1>11. \A x \in Live(t) : x \in (N + 1)..N' /\ x # s.block
  BY <1>1, <1>2, <1>7, <1>9
<1> QED BY <1>0, <1>1, <1>3, <1>5, <1>6, <1>7, <1>9, <1>10, <1>11, StructPush

\* The scope below the current one.
LEMMA ParentIs ==
    ASSUME Ranged, Struct, Depth > 1, NEW b, b = Parent.block, NEW m, m = Depth - 1
    PROVE  /\ m \in Nat /\ m \in 1..Depth /\ m # Depth /\ Parent = stack[m] /\ Cur = stack[Depth] /\ Depth \in 1..Depth /\ Depth \in Nat
           /\ N \in Nat /\ b \in 1..N /\ b \in Live(Parent) /\ Keen(Parent) /\ PendIn(blocks, b) /\ Parent \in Scope
           /\ Shaped(blocks, Parent, Under(stack, m)) /\ Under(stack, Depth) = b /\ Shaped(blocks, Cur, b)
           /\ \A x \in Live(Parent) : x \in 1..N /\ x \notin Live(Cur)
           /\ \A x \in Live(Cur) : x \in 1..N /\ x \notin Live(Parent) /\ x # b
<1>1. Depth \in Nat /\ Depth \in 1..Depth /\ N \in Nat /\ Typed
  BY BaseIs
<1>2. m \in Nat /\ m \in 1..Depth /\ m # Depth /\ Parent = stack[m] /\ Cur = stack[Depth]
  BY <1>1 DEF Parent, Cur
<1>3. Parent \in Scope
  BY <1>1, <1>2, CurIs
<1>4. b \in Live(Parent)
  BY DEF Live
<1>5. /\ \A x \in Live(Parent) : x \in 1..N /\ x \notin Live(Cur)
      /\ \A x \in Live(Cur) : x \in 1..N /\ x \notin Live(Parent)
  BY <1>1, <1>2, LiveFits DEF Struct
<1>6. Keen(Parent) /\ Shaped(blocks, Parent, Under(stack, m)) /\ Shaped(blocks, Cur, Under(stack, Depth))
  BY <1>1, <1>2 DEF Struct
<1>7. Under(stack, Depth) = b
  BY <1>1, <1>2 DEF Under
<1>8. PendIn(blocks, b)
  BY <1>6 DEF Shaped
<1> QED BY <1>1, <1>2, <1>3, <1>4, <1>5, <1>6, <1>7, <1>8

\* The current scope is closed and its parent goes on as s.
LEMMA StructPop ==
    ASSUME Ranged, Struct, Depth > 1, N <= N', N' \in Nat, NEW T, OnlyAt(T), \A x \in T : x \in Live(Cur) \/ x = Parent.block,
           \A x \in T : Heads(x) /\ Proper(blocks'[x]), \A b \in (N + 1)..N' : Proper(blocks'[b]),
           Len(stack') = Depth - 1, \A d \in 1..(Depth - 2) : stack'[d] = stack[d],
           NEW s, s = stack'[Depth - 1], Core(Parent, s), s.block = Parent.block \/ s.block \in (N + 1)..N', PendIn(blocks', s.block)
    PROVE  Local(Depth - 2, T) /\ Struct'
<1>0. PICK m, b, n : m = Depth - 1 /\ b = Parent.block /\ n = Depth - 2
  OBVIOUS
<1>1. /\ m \in Nat /\ m \in 1..Depth /\ m # Depth /\ Parent = stack[m] /\ Cur = stack[Depth] /\ Depth \in 1..Depth /\ Depth \in Nat
      /\ N \in Nat /\ b \in 1..N /\ b \in Live(Parent) /\ Keen(Parent)
      /\ Shaped(blocks, Parent, Under(stack, m))
      /\ \A x \in Live(Parent) : x \in 1..N /\ x \notin Live(Cur)
  BY <1>0, ParentIs
<1>3. n \in 0..Depth /\ n <= m /\ n + 1 = m /\ (\A d \in (n + 1)..Depth : d = m \/ d = Depth) /\ m \in (n + 1)..Depth /\ Depth \in (n + 1)..Depth /\ (n + 1)..m = {m} /\ n \in Nat
  BY <1>0, <1>1
<1>4. \A d \in 1..n : d \in 1..(Depth - 2) /\ stack'[d] = stack[d]
  BY <1>0
<1>5. \A x \in Live(s) : x \in (N + 1)..N' \/ x \in Live(Parent)
  BY <1>0, <1>1 DEF Live, Core, HasCond
<1>6. ASSUME NEW x \in 1..N PROVE Heads(x)
  BY DEF OnlyAt, Heads
<1>7. ASSUME NEW x \in 1..N' PROVE Proper(blocks'[x])
  <2>1. x \in 1..N \/ x \in (N + 1)..N'
    BY <1>1
  <2>2. x \in 1..N /\ x \notin T => Proper(blocks'[x])
    BY TopIs DEF OnlyAt
  <2> QED BY <2>1, <2>2
<1>8. Local(n, T)
  <2>1. n <= Len(stack') /\ N <= N' /\ n \in 0..Depth
    BY <1>0, <1>3
  <2>2. \A x \in T : \E k \in (n + 1)..Depth : x \in Live(stack[k])
    BY <1>0, <1>1, <1>3
  <2>3. \A d \in 1..n : Core(stack[d], stack'[d]) /\ stack'[d].block = stack[d].block
    BY <1>4, SelfIs
  <2>4. \A d \in (n + 1)..Len(stack') : \A x \in Live(stack'[d]) :
          x \in (N + 1)..N' \/ \E k \in (n + 1)..Depth : x \in Live(stack[k])
    BY <1>0, <1>1, <1>3, <1>5
  <2> QED BY <1>6, <1>7, <2>1, <2>2, <2>3, <2>4 DEF Local
<1>9. Keen(s)
  <2>1. HasCond(Parent) => Parent.cond \in 1..N
    BY <1>1 DEF Live
  <2>2. s.cond = Parent.cond /\ s.first = Parent.first /\ (HasCond(s) <=> HasCond(Parent))
    BY DEF Core, HasCond
  <2> QED BY <1>0, <1>1, <2>1, <2>2 DEF Keen
<1>10. Shaped(blocks', s, Under(stack', m))
  <2>1. PICK u : u = Under(stack, m)
    OBVIOUS
  <2>2. Under(stack', m) = u /\ (m # 1 => u = stack[n].block /\ n \in 1..n)
    <3>1. CASE m = 1
      BY <2>1, <3>1 DEF Under
    <3>2. CASE m # 1
      <4>1. n \in 1..n /\ m - 1 = n
        BY <1>1, <1>3, <3>2
      <4> QED BY <1>4, <2>1, <3>2, <4>1 DEF Under
    <3> QED BY <3>1, <3>2
  <2>3. HasCond(Parent) => blocks'[u] = blocks[u]
    <3> SUFFICES ASSUME HasCond(Parent) PROVE blocks'[u] = blocks[u]
      OBVIOUS
    <3>1. Parent.end = u /\ Parent.end \in 1..N
      BY <1>1, <2>1, ScopeFits DEF Shaped, Fits, HasCond
    <3>2. m # 1
      <4>1. m = 1 => u = 0
        BY <2>1 DEF Under, Nil
      <4> QED BY <1>1, <3>1, <4>1
    <3>3. n \in 1..n /\ n \in 1..Depth
      BY <2>2, <3>2, <1>3
    <3>4. u \in Live(stack[n]) /\ \A x \in Live(stack[n]) : x \in 1..N
      BY <2>2, <3>2, <3>3, LiveFits DEF Live
    <3>5. u \notin T
      BY <1>0, <1>8, <3>3, <3>4, LowIs
    <3> QED BY <3>4, <3>5 DEF OnlyAt
  <2>4. HasCond(Parent) => blocks'[Parent.cond] = blocks[Parent.cond]
    <3>1. HasCond(Parent) => Parent.cond \in Live(Parent) /\ Parent.cond \in 1..N /\ Parent.cond # b
      BY <1>0, <1>1 DEF Live, Keen
    <3> QED BY <1>0, <1>1, <3>1 DEF OnlyAt
  <2>5. blocks[Parent.first].insts # <<>> => blocks'[Parent.first].insts # <<>> /\ blocks'[Parent.first].insts[1] = blocks[Parent.first].insts[1]
    <3>1. Parent.first \in 1..N
      BY <1>1 DEF Live
    <3> QED BY <1>6, <3>1 DEF Heads
  <2> QED BY <1>1, <2>1, <2>2, <2>3, <2>4, <2>5, ShapedLike
<1>11. \A d \in (n + 1)..Len(stack') : Keen(stack'[d]) /\ Shaped(blocks', stack'[d], Under(stack', d))
  BY <1>0, <1>3, <1>9, <1>10
<1>12. \A d \in (n + 1)..Len(stack') : \A k \in (n + 1)..Len(stack') : d = k
  BY <1>0, <1>3
<1>13. Len(stack') \in Nat
  BY <1>0, <1>1
<1>14. Struct'
  BY <1>8, <1>11, <1>12, <1>13, StructStep
<1> QED BY <1>0, <1>8, <1>14

\* Closing an if keeps Struct, and touches only blocks of the scopes it works on.
LEMMA StructCloseIf ==
    ASSUME Ranged, Struct, CloseIf, NEW b, b = Parent.block, NEW a, a = Cur.first
    PROVE  Local(Depth - 2, {a, b}) /\ Struct'
<1>00. PICK m, k : m = Depth - 1 /\ k = N + 1
  OBVIOUS
<1>01. Depth > 1
  BY DEF CloseIf
<1>1. /\ m \in Nat /\ m \in 1..Depth /\ N \in Nat /\ b \in 1..N /\ Cur = stack[Depth] /\ Depth \in 1..Depth
      /\ \A x \in Live(Cur) : x \in 1..N /\ x # b
  BY <1>00, <1>01, ParentIs
<1>2. a \in Live(Cur) /\ a \in 1..N /\ a # b /\ k \in Nat /\ N <= k /\ (\A x \in (N + 1)..k : x = k) /\ k \in (N + 1)..k
  BY <1>00, <1>1 DEF Live
<1>3. /\ N' = k /\ OnlyAt({a, b}) /\ Made(b, Append(I(b), Cur.point), "cond", <<a, k>>) /\ Shut(a, k)
      /\ Depth = 2 => Fresh(k)
      /\ Depth > 2 => Made(k, <<>>, "br", <<stack[Depth - 2].block>>)
  <2>1. IfClosed(a, b, k)
    BY <1>00, <1>2, CloseIfBlocks
  <2> QED BY <2>1 DEF IfClosed
<1>4. Heads(b) /\ Proper(blocks'[b])
  BY <1>1, <1>3, HeadsAppend DEF Made, Proper
<1>5. Heads(a) /\ Proper(blocks'[a])
  BY <1>2, <1>3, TopIs DEF Shut, Heads, I, Proper, Term
<1>6. Depth = 2 \/ Depth > 2
  BY <1>01, BaseIs
<1>7. Proper(blocks'[k]) /\ PendIn(blocks', k)
  BY <1>3, <1>6 DEF Fresh, Made, Proper, PendIn
<1>8. Pop(k, "if") /\ k \in Nat /\ Typed
  BY <1>00, <1>2, BaseIs DEF CloseIf, N
<1>9. PICK s : s = stack'[Depth - 1]
  OBVIOUS
<1>10. Len(stack') = Depth - 1 /\ (\A d \in 1..(Depth - 2) : stack'[d] = stack[d]) /\ Core(Parent, s) /\ s.block = k
  BY <1>01, <1>8, <1>9, PopStack
<1>11. PICK T : T = {a, b}
  OBVIOUS
<1>12. OnlyAt(T) /\ \A x \in T : (x \in Live(Cur) \/ x = Parent.block) /\ Heads(x) /\ Proper(blocks'[x])
  BY <1>2, <1>3, <1>4, <1>5, <1>11
<1>13. N <= N' /\ N' \in Nat /\ (\A x \in (N + 1)..N' : Proper(blocks'[x])) /\ s.block \in (N + 1)..N' /\ PendIn(blocks', s.block)
  BY <1>2, <1>3, <1>7, <1>10
<1>14. Local(Depth - 2, T) /\ Struct'
  BY <1>01, <1>9, <1>10, <1>12, <1>13, StructPop
<1> QED BY <1>11, <1>14

\* Closing an if/else keeps Struct, and touches only blocks of the scopes it works on.
LEMMA StructCloseIfElse ==
    ASSUME Ranged, Struct, CloseIfElse, NEW e, e = Cur.end, NEW a, a = Cur.cond, NEW f, f = Cur.first
    PROVE  e = Parent.block /\ a # f /\ e # a /\ e # f /\ Local(Depth - 2, {a, f, e}) /\ Struct'
<1>01. Depth > 1 /\ Cur.kind = "else" /\ HasCond(Cur)
  BY DEF CloseIfElse, HasCond
<1>00. PICK m, b : m = Depth - 1 /\ b = Parent.block
  OBVIOUS
<1>1. /\ m \in Nat /\ m \in 1..Depth /\ N \in Nat /\ b \in 1..N /\ Cur = stack[Depth] /\ Depth \in 1..Depth
      /\ (\A x \in Live(Cur) : x \in 1..N /\ x # b) /\ Shaped(blocks, Cur, b) /\ PendIn(blocks, b)
  BY <1>00, <1>01, ParentIs
<1>2. Keen(Cur) /\ N \in Nat
  BY TopIs
<1>3. e = b /\ BlankIn(blocks, b) /\ a # f /\ a \in Live(Cur) /\ f \in Live(Cur)
  BY <1>01, <1>1, <1>2 DEF Keen, Shaped, Live
<1>4. e # a /\ e # f
  BY <1>1, <1>3
<1>5. /\ N' = N /\ OnlyAt({a, f, e}) /\ Shut(a, e) /\ Shut(f, e) /\ blocks'[e].insts = I(e)
      /\ Depth = 2 => blocks'[e] = blocks[e]
      /\ Depth > 2 => blocks'[e].term = "br" /\ blocks'[e].to = <<stack[Depth - 2].block>>
  BY <1>3, <1>4, CloseIfElseBlocks
<1>6. Heads(a) /\ Proper(blocks'[a])
  BY <1>1, <1>3, <1>5, TopIs, ZenonT(30) DEF Shut, Heads, I, Proper, Term
<1>7. Heads(f) /\ Proper(blocks'[f])
  BY <1>1, <1>3, <1>5, TopIs, ZenonT(30) DEF Shut, Heads, I, Proper, Term
<1>8. Depth = 2 \/ Depth > 2
  BY <1>01, BaseIs
<1>9. Heads(e) /\ Proper(blocks'[e]) /\ PendIn(blocks', e)
  BY <1>1, <1>3, <1>5, <1>8, TopIs DEF Heads, I, Proper, PendIn
<1>10. Pop(e, "if") /\ e \in Nat /\ Typed
  BY <1>1, <1>3, BaseIs DEF CloseIfElse
<1>11. PICK s : s = stack'[Depth - 1]
  OBVIOUS
<1>12. Len(stack') = Depth - 1 /\ (\A d \in 1..(Depth - 2) : stack'[d] = stack[d]) /\ Core(Parent, s) /\ s.block = e
  BY <1>01, <1>10, <1>11, PopStack
<1>13. PICK T : T = {a, f, e}
  OBVIOUS
<1>14. OnlyAt(T) /\ \A x \in T : (x \in Live(Cur) \/ x = Parent.block) /\ Heads(x) /\ Proper(blocks'[x])
  BY <1>00, <1>3, <1>5, <1>6, <1>7, <1>9, <1>13
<1>15. N <= N' /\ N' \in Nat /\ (\A x \in (N + 1)..N' : Proper(blocks'[x])) /\ s.block = Parent.block /\ PendIn(blocks', s.block)
  BY <1>00, <1>2, <1>3, <1>5, <1>9, <1>12
<1>16. Local(Depth - 2, T) /\ Struct'
  BY <1>01, <1>11, <1>12, <1>14, <1>15, StructPop
<1> QED BY <1>00, <1>3, <1>4, <1>13, <1>16

\* Closing a loop keeps Struct, and touches only blocks of the scopes it works on.
LEMMA StructCloseFor ==
    ASSUME Ranged, Formed, Struct, CloseFor, NEW a, a = Cur.cond, NEW c, c = Cur.block
    PROVE  Cur.end = Parent.block /\ a # c /\ I(a) = <<>> /\ Cur.form \in Forms /\ Local(Depth - 2, {a, c}) /\ Struct'
<1>01. Depth > 1 /\ Cur.kind = "body" /\ HasCond(Cur)
  BY DEF CloseFor, HasCond
<1>00. PICK m, b : m = Depth - 1 /\ b = Parent.block
  OBVIOUS
<1>1. /\ m \in Nat /\ m \in 1..Depth /\ N \in Nat /\ b \in 1..N /\ Cur = stack[Depth] /\ Depth \in 1..Depth
      /\ (\A x \in Live(Cur) : x \in 1..N /\ x # b) /\ Shaped(blocks, Cur, b) /\ PendIn(blocks, b)
  BY <1>00, <1>01, ParentIs
<1>2. Keen(Cur) /\ N \in Nat
  BY TopIs
<1>3. Cur.end = b /\ BlankIn(blocks, b) /\ BlankIn(blocks, a) /\ a # c /\ a \in Live(Cur) /\ c \in Live(Cur)
  BY <1>01, <1>1, <1>2 DEF Keen, Shaped, Live
<1>4. Cur.form \in Forms /\ I(a) = <<>>
  BY <1>01, <1>1, <1>3 DEF Formed, FormedScope, BlankIn, I
<1>5. /\ N' = N /\ OnlyAt({a, c}) /\ Made(c, I(c), "br", <<a>>)
      /\ "step" \in Cur.form /\ "cond" \in Cur.form => Made(a, <<Cur.post, Cur.point>>, "cond", <<Cur.first, Cur.end>>)
      /\ "step" \notin Cur.form /\ "cond" \in Cur.form => Made(a, <<Cur.point>>, "cond", <<Cur.first, Cur.end>>)
      /\ "step" \in Cur.form /\ "cond" \notin Cur.form => Made(a, <<Cur.post>>, "br", <<Cur.first>>)
      /\ "step" \notin Cur.form /\ "cond" \notin Cur.form => Made(a, <<>>, "br", <<Cur.first>>)
  BY <1>3, <1>4, CloseForBlocks
<1>6. Heads(a) /\ Proper(blocks'[a])
  BY <1>4, <1>5 DEF Made, Heads, I, Proper
<1>7. Heads(c) /\ Proper(blocks'[c])
  BY <1>5 DEF Made, Heads, I, Proper
<1>8. blocks'[b] = blocks[b]
  BY <1>1, <1>3, <1>5 DEF OnlyAt
<1>10. Pop(b, "open") /\ b \in Nat /\ Typed
  BY <1>1, <1>3, BaseIs DEF CloseFor
<1>11. PICK s : s = stack'[Depth - 1]
  OBVIOUS
<1>12. Len(stack') = Depth - 1 /\ (\A d \in 1..(Depth - 2) : stack'[d] = stack[d]) /\ Core(Parent, s) /\ s.block = b
  BY <1>01, <1>10, <1>11, PopStack
<1>13. PICK T : T = {a, c}
  OBVIOUS
<1>14. OnlyAt(T) /\ \A x \in T : (x \in Live(Cur) \/ x = Parent.block) /\ Heads(x) /\ Proper(blocks'[x])
  BY <1>3, <1>5, <1>6, <1>7, <1>13
<1>15. N <= N' /\ N' \in Nat /\ (\A x \in (N + 1)..N' : Proper(blocks'[x])) /\ s.block = Parent.block /\ PendIn(blocks', s.block)
  BY <1>00, <1>1, <1>2, <1>5, <1>8, <1>12 DEF PendIn
<1>16. Local(Depth - 2, T) /\ Struct'
  BY <1>01, <1>11, <1>12, <1>14, <1>15, StructPop
<1> QED BY <1>00, <1>3, <1>4, <1>13, <1>16

\* Going on to the else branch keeps Struct, and touches only blocks of the scopes it works on.
LEMMA StructElse ==
    ASSUME Ranged, Struct, Else
    PROVE  Local(Depth - 1, {}) /\ Struct'
<1>01. Depth > 1 /\ Cur.kind = "then" /\ HasCond(Cur) /\ blocks' = blocks
  BY DEF Else, HasCond
<1>00. PICK m, b, t, T : m = Depth - 1 /\ b = Parent.block /\ t = stack'[Depth] /\ T = {}
  OBVIOUS
<1>1. /\ m \in Nat /\ m \in 1..Depth /\ m # Depth /\ N \in Nat /\ b \in 1..N /\ Cur = stack[Depth] /\ Depth \in 1..Depth /\ Depth \in Nat
      /\ (\A x \in Live(Cur) : x \in 1..N /\ x # b) /\ Shaped(blocks, Cur, b) /\ Parent = stack[m]
  BY <1>00, <1>01, ParentIs
<1>2. Keen(Cur) /\ \A x \in 1..N : Proper(blocks[x])
  BY TopIs
<1>3. /\ Len(stack') = Depth /\ \A d \in 1..Depth : d # Depth => stack'[d] = stack[d]
      /\ Opened(Parent, t, "else", Cur.cond)
      /\ t.cond = Cur.first /\ t.end = Cur.end
  BY <1>00, BaseIs, ElseStack
<1>4. t.kind = "else" /\ t.block = Cur.cond /\ t.first = Cur.cond /\ HasCond(t)
  BY <1>3 DEF Opened, HasCond
<1>5. Live(t) \subseteq Live(Cur) /\ Keen(t)
  BY <1>01, <1>2, <1>3, <1>4 DEF Live, Keen
<1>6. N' = N
  BY <1>01 DEF N
<1>7. Shaped(blocks', t, b)
  BY <1>01, <1>1, <1>3, <1>4 DEF Shaped, PendIn, BlankIn
<1>8. Under(stack', Depth) = b
  BY <1>00, <1>1, <1>3 DEF Under
<1>9. m \in 0..Depth /\ m <= Depth /\ (m + 1)..Depth = {Depth} /\ \A d \in 1..m : d \in 1..Depth /\ d # Depth
  BY <1>00, <1>1
<1>10. Local(m, T)
  <2>1. OnlyAt(T) /\ m <= Len(stack') /\ N <= N' /\ m \in 0..Depth /\ \A x \in T : \E k \in (m + 1)..Depth : x \in Live(stack[k])
    BY <1>00, <1>01, <1>1, <1>3, <1>6, <1>9 DEF OnlyAt
  <2>3. \A d \in 1..m : Core(stack[d], stack'[d]) /\ stack'[d].block = stack[d].block
    BY <1>3, <1>9, SelfIs
  <2>4. \A d \in (m + 1)..Len(stack') : \A x \in Live(stack'[d]) :
          x \in (N + 1)..N' \/ \E k \in (m + 1)..Depth : x \in Live(stack[k])
    BY <1>00, <1>1, <1>3, <1>5, <1>9
  <2>5. (\A x \in 1..N : Heads(x)) /\ \A x \in 1..N' : Proper(blocks'[x])
    BY <1>01, <1>2, <1>6 DEF Heads
  <2> QED BY <2>1, <2>3, <2>4, <2>5 DEF Local
<1>11. \A d \in (m + 1)..Len(stack') : Keen(stack'[d]) /\ Shaped(blocks', stack'[d], Under(stack', d))
  BY <1>00, <1>3, <1>5, <1>7, <1>8, <1>9
<1>12. \A d \in (m + 1)..Len(stack') : \A k \in (m + 1)..Len(stack') : d = k
  BY <1>3, <1>9
<1>13. Len(stack') \in Nat /\ N' \in Nat
  BY <1>1, <1>3, <1>6
<1>14. Struct'
  BY <1>10, <1>11, <1>12, <1>13, StructStep
<1> QED BY <1>00, <1>10, <1>14

\* The initial state has Struct.
LEMMA StructInit == Init => Struct
<1> SUFFICES ASSUME Init PROVE Struct
  OBVIOUS
<1>1. PICK s : s = AddChildScope("fn", 1, [breakBlock |-> Nil, continueBlock |-> Nil, stale |-> FALSE])
  OBVIOUS
<1>2. s.kind = "fn" /\ s.block = 1
  BY <1>1 DEF AddChildScope
<1>3. stack = <<s>> /\ Depth = 1 /\ stack[1] = s
  BY <1>1 DEF Init, Depth
<1>4. blocks = <<NewBlock>> /\ N = 1 /\ blocks[1] = NewBlock
  BY DEF Init, N
<1>5. Keen(s) /\ Shaped(blocks, s, Under(stack, 1)) /\ Proper(blocks[1])
  BY <1>2, <1>4, NewIs DEF Keen, HasCond, Shaped, PendIn, Proper
<1>6. 1..1 = {1}
  OBVIOUS
<1> QED BY <1>3, <1>4, <1>5, <1>6 DEF Struct

\* Every step keeps Struct.
LEMMA StructNext == Ranged /\ Formed /\ Struct /\ [Next]_vars => Struct'
<1> SUFFICES ASSUME Ranged, Formed, Struct, [Next]_vars PROVE Struct'
  OBVIOUS
<1>1. ASSUME stack' = stack, blocks' = blocks PROVE Struct'
  BY <1>1 DEF Struct, Depth, N
<1>2. ASSUME NEW j \in {"break", "continue"}, NEW x \in 0..N, BreakOrContinue(j, x) PROVE Struct'
  <2>1. CASE x = Nil
    BY <1>1, <1>2, <2>1 DEF BreakOrContinue
  <2>2. CASE x # Nil
    BY <1>2, <2>2, StructJump
  <2> QED BY <2>1, <2>2
<1>3. CASE UNCHANGED vars
  BY <1>1, <1>3 DEF vars
<1>4. ASSUME NEW isDef \in BOOLEAN, Statement(isDef) PROVE Struct'
  BY <1>4, StructStatement
<1>5. ASSUME NEW form \in Forms, OpenFor(form) PROVE Struct'
  BY <1>5, StructOpenFor
<1>6. CASE Break \/ Continue
  <2>1. Cur.breakBlock \in 0..N /\ Cur.continueBlock \in 0..N
    BY CurFits
  <2>2. CASE Break
    BY <1>2, <2>1, <2>2 DEF Break
  <2>3. CASE Continue
    BY <1>2, <2>1, <2>3 DEF Continue
  <2> QED BY <1>6, <2>2, <2>3
<1>7. CASE Suspend \/ Ret \/ OpenIf \/ OpenIfElse \/ Finish
  BY <1>7, StructSuspend, StructRet, StructOpenIf, StructOpenIfElse, StructFinish
<1>8. CASE CloseIf \/ Else \/ CloseIfElse \/ CloseFor
  BY <1>8, StructCloseIf, StructElse, StructCloseIfElse, StructCloseFor
<1>9. CASE Ended
  BY <1>1, <1>9 DEF Ended, vars
<1> QED BY <1>3, <1>4, <1>5, <1>6, <1>7, <1>8, <1>9 DEF Next

-----------------------------------------------------------------------------
(* How the current scope ends so far. *)

\* t, at depth dp above a scope in block u, with exits X
TailIs(bs, t, dp, u, X) ==
    /\ t.tail = "first" => t.block = t.first /\ bs[t.block].term = "none"
    /\ t.tail = "ended" => bs[t.block].term # "none" /\ X = {}
    /\ t.tail = "if" /\ dp > 1 => bs[t.block].term = "br" /\ bs[t.block].to = <<u>>
    /\ dp = 1 /\ t.tail = "first" => X # {}

Tails == phase = "compile" => TailIs(blocks, Cur, Depth, Under(stack, Depth), exits)

\* Tails in the next state.
LEMMA TailsTo ==
    ASSUME NEW t, NEW dp, NEW u, NEW X, Len(stack') = dp, t = stack'[dp], u = Under(stack', dp), X = exits', TailIs(blocks', t, dp, u, X)
    PROVE  Tails'
<1>1. Depth' = dp /\ Cur' = t
  BY DEF Depth, Cur
<1> QED BY <1>1 DEF Tails

\* The scopes below stay in their blocks.
LEMMA UnderSame ==
    ASSUME Ranged, \A d \in 1..Depth : d # Depth => stack'[d].block = stack[d].block
    PROVE  Under(stack', Depth) = Under(stack, Depth)
<1>1. Depth \in Nat
  BY BaseIs
<1>2. Depth # 1 => Depth - 1 \in 1..Depth /\ Depth - 1 # Depth
  BY <1>1, BaseIs
<1> QED BY <1>2 DEF Under

\* A simple statement keeps Tails.
LEMMA TailsStatement ==
    ASSUME Ranged, Struct, Tails, NEW isDef \in BOOLEAN, Statement(isDef)
    PROVE  Tails'
<1>0. PICK c, p, t : c = Cur.block /\ p = points + 1 /\ t = stack'[Depth]
  OBVIOUS
<1>1. Made(c, Append(I(c), p), Term(c), Tos(c))
  BY <1>0, StatementBlocks
<1>3. /\ Len(stack') = Depth /\ \A d \in 1..Depth : d # Depth => stack'[d] = stack[d]
      /\ Core(Cur, t) /\ t.block = c /\ t.tail = Cur.tail
  BY <1>0, BaseIs, StatementStack
<1>4. Under(stack', Depth) = Under(stack, Depth)
  BY <1>3, UnderSame
<1>5. phase = "compile" /\ (exits = {} <=> exits' = {})
  BY DEF Statement, Room, Compiling, Reached
<1>6. TailIs(blocks', t, Depth, Under(stack, Depth), exits')
  BY <1>0, <1>1, <1>3, <1>5 DEF Tails, TailIs, Made, Term, Tos, Core
<1> QED BY <1>0, <1>3, <1>4, <1>6, TailsTo

\* Yield or await keeps Tails.
LEMMA TailsSuspend ==
    ASSUME Ranged, Struct, Tails, Suspend
    PROVE  Tails'
<1>0. PICK k, x, t, u : k = N + 1 /\ x = "open" /\ t = stack'[Depth] /\ u = Under(stack', Depth)
  OBVIOUS
<1>8. SetCur(Moved(Cur, k, x)) /\ Typed /\ k \in Nat
  BY <1>0, BaseIs DEF Suspend, Moved, N
<1>3. Len(stack') = Depth /\ t.tail = x
  BY <1>0, <1>8, MovedStack
<1>6. TailIs(blocks', t, Depth, u, exits')
  BY <1>0, <1>3 DEF TailIs
<1> QED BY <1>0, <1>3, <1>6, TailsTo

\* A jump has ended the scope.
LEMMA TailsEnded ==
    ASSUME Len(stack') = Depth, NEW t, t = stack'[Depth], t.tail = "ended", exits' = {}, blocks'[t.block].term # "none"
    PROVE  Tails'
<1>0. PICK u : u = Under(stack', Depth)
  OBVIOUS
<1>6. TailIs(blocks', t, Depth, u, exits')
  BY DEF TailIs
<1> QED BY <1>0, <1>6, TailsTo

\* Return keeps Tails.
LEMMA TailsRet ==
    ASSUME Ranged, Struct, Tails, Ret
    PROVE  Tails'
<1>0. PICK c, k : c = Cur.block /\ k = N + 1
  OBVIOUS
<1>9. PICK t : t = stack'[Depth]
  OBVIOUS
<1>1. /\ OnlyAt({c}) /\ Made(c, I(c), "ret", <<>>)
      /\ mode # "async" => N' = N
      /\ mode = "async" => N' = k /\ Made(k, <<>>, "ret", <<>>)
  BY <1>0, RetBlocks
<1>2. exits' = {} /\ Typed /\ k \in Nat
  BY <1>0, BaseIs DEF Ret
<1>5. CASE mode = "async"
  <2>1. PICK x : x = "ended"
    OBVIOUS
  <2>2. SetCur(Moved(Cur, k, x))
    BY <1>0, <1>5, <2>1 DEF Ret, Moved, N
  <2>3. Len(stack') = Depth /\ t.block = k /\ t.tail = x
    BY <1>2, <1>9, <2>1, <2>2, MovedStack
  <2> QED BY <1>1, <1>2, <1>5, <1>9, <2>1, <2>3, TailsEnded DEF Made
<1>6. CASE mode # "async"
  <2>1. PICK j : j = "ret"
    OBVIOUS
  <2>2. SetCur(Jump(j))
    BY <1>6, <2>1 DEF Ret
  <2>3. Len(stack') = Depth /\ t.block = c /\ t.tail = "ended"
    BY <1>0, <1>2, <1>9, <2>1, <2>2, JumpStack
  <2> QED BY <1>1, <1>2, <1>9, <2>3, TailsEnded DEF Made
<1> QED BY <1>5, <1>6

\* Break or continue keeps Tails.
LEMMA TailsJump ==
    ASSUME Ranged, Struct, Tails, NEW j \in {"break", "continue"}, NEW x \in 0..N, BreakOrContinue(j, x)
    PROVE  Tails'
<1>1. CASE x = Nil
  <2>1. phase' = "error"
    BY <1>1 DEF BreakOrContinue
  <2> QED BY <2>1 DEF Tails
<1>2. CASE x # Nil
  <2>0. PICK c, t : c = Cur.block /\ t = stack'[Depth]
    OBVIOUS
  <2>1. x \in Nat /\ Typed /\ Depth \in 1..Depth /\ Cur = stack[Depth]
    BY BaseIs DEF Cur
  <2>2. Made(c, I(c), "br", <<x>>)
    BY <1>2, <2>0, <2>1, JumpBlocks
  <2>3. exits' = {}
    BY <1>2 DEF BreakOrContinue
  <2>4. CASE LoopDepths = {}
    <3>1. SetCur(Jump(j))
      BY <1>2, <2>4 DEF BreakOrContinue
    <3>2. Len(stack') = Depth /\ t.block = c /\ t.tail = "ended"
      BY <2>0, <2>1, <3>1, JumpStack
    <3> QED BY <2>0, <2>2, <2>3, <3>2, TailsEnded DEF Made
  <2>5. CASE LoopDepths # {}
    <3>1. PICK L : L = InnerLoop
      OBVIOUS
    <3>3. Typed
      BY BaseIs
    <3>2. Len(stack') = Depth /\ \A d \in 1..Depth : Handed(j, L, d, stack[d], stack'[d])
      BY <3>3, <1>2, <2>5, <3>1, LoopJumpStack
    <3>4. t.block = c /\ t.tail = "ended"
      BY <2>0, <2>1, <3>2 DEF Handed
    <3> QED BY <2>0, <2>2, <2>3, <3>2, <3>4, TailsEnded DEF Made
  <2> QED BY <2>4, <2>5
<1> QED BY <1>1, <1>2

\* The scope begins.
LEMMA TailsFirst ==
    ASSUME NEW dp \in Nat, dp > 1, Len(stack') = dp, NEW t, t = stack'[dp], t.tail = "first", t.block = t.first, blocks'[t.block].term = "none"
    PROVE  Tails'
<1>0. PICK u : u = Under(stack', dp)
  OBVIOUS
<1>6. TailIs(blocks', t, dp, u, exits')
  BY DEF TailIs
<1> QED BY <1>0, <1>6, TailsTo

\* Opening a structure keeps Tails.
LEMMA TailsOpen ==
    ASSUME Ranged, Struct, Tails, OpenIf \/ OpenIfElse \/ \E form \in Forms : OpenFor(form)
    PROVE  Tails'
<1>00. PICK dp, t : dp = Depth + 1 /\ t = stack'[Depth + 1]
  OBVIOUS
<1>1. dp \in Nat /\ dp > 1 /\ Typed
  BY <1>00, BaseIs
<1>2. CASE OpenIf
  <2>1. PICK k : k = N + 1
    OBVIOUS
  <2>2. Fresh(k)
    BY <1>2, <2>1, OpenIfBlocks
  <2>3. Len(stack') = Depth + 1 /\ Opened(Cur, t, "if", k)
    BY <1>00, <1>1, <1>2, <2>1, OpenIfStack
  <2> QED BY <1>00, <1>1, <2>2, <2>3, TailsFirst DEF Opened, Fresh, Made
<1>3. CASE OpenIfElse
  <2>1. PICK c, p, k1, k2, k3 : c = Cur.block /\ p = points + 1 /\ k1 = N + 1 /\ k2 = N + 2 /\ k3 = N + 3
    OBVIOUS
  <2>2. Fresh(k1)
    BY <1>3, <2>1, OpenIfElseBlocks
  <2>4. PICK s : s = stack'[Depth]
    OBVIOUS
  <2>3. Len(stack') = Depth + 1 /\ Opened(s, t, "then", N + 1)
    BY <1>00, <1>1, <1>3, <2>4, OpenIfElseStack
  <2> QED BY <1>00, <1>1, <2>1, <2>2, <2>3, TailsFirst DEF Opened, Fresh, Made
<1>4. ASSUME NEW form \in Forms, OpenFor(form) PROVE Tails'
  <2>1. PICK c, p, q, k1, k2, k3 : c = Cur.block /\ p = points + 1 /\ q = points + 2 /\ k1 = N + 1 /\ k2 = N + 2 /\ k3 = N + 3
    OBVIOUS
  <2>2. ForMade(form, c, p, q, k1, k2, k3)
    BY <1>4, <2>1, OpenForBlocks
  <2>5. blocks'[k2].term = "none"
    BY <2>2 DEF ForMade, Fresh, Made
  <2>4. PICK s : s = stack'[Depth]
    OBVIOUS
  <2>3. Len(stack') = Depth + 1 /\ Looped(form, t)
    BY <1>00, <1>1, <1>4, <2>4, OpenForStack
  <2> QED BY <1>00, <1>1, <2>1, <2>3, <2>5, TailsFirst DEF Looped
<1> QED BY <1>2, <1>3, <1>4

\* Going on to the else branch keeps Tails.
LEMMA TailsElse ==
    ASSUME Ranged, Struct, Tails, Else
    PROVE  Tails'
<1>00. PICK dp, t : dp = Depth /\ t = stack'[Depth]
  OBVIOUS
<1>1. Depth > 1 /\ Cur.kind = "then" /\ blocks' = blocks /\ Typed /\ dp \in Nat
  BY <1>00, BaseIs DEF Else
<1>2. Len(stack') = Depth /\ Opened(Parent, t, "else", Cur.cond)
  BY <1>00, <1>1, ElseStack
<1>3. BlankIn(blocks, Cur.cond)
  BY <1>1, TopIs DEF Shaped
<1> QED BY <1>00, <1>1, <1>2, <1>3, TailsFirst DEF Opened, BlankIn

\* The scope behind an if, if/else or loop.
LEMMA TailsPop ==
    ASSUME Ranged, Depth > 1, NEW b, NEW x, Len(stack') = Depth - 1, \A d \in 1..(Depth - 2) : stack'[d] = stack[d],
           NEW s, s = stack'[Depth - 1], s.block = b, s.tail = x,
           x = "open" \/ (x = "if" /\ (Depth > 2 => blocks'[b].term = "br" /\ blocks'[b].to = <<stack[Depth - 2].block>>))
    PROVE  Tails'
<1>0. PICK dp : dp = Depth - 1
  OBVIOUS
<1>1. Depth \in Nat /\ dp \in Nat /\ dp >= 1
  BY <1>0, BaseIs
<1>2. PICK u : u = Under(stack', dp)
  OBVIOUS
<1>3. dp > 1 => Depth > 2 /\ u = stack[Depth - 2].block
  <2> SUFFICES ASSUME dp > 1 PROVE Depth > 2 /\ u = stack[Depth - 2].block
    OBVIOUS
  <2>1. Depth > 2 /\ dp - 1 = Depth - 2 /\ Depth - 2 \in 1..(Depth - 2) /\ dp # 1
    BY <1>0, <1>1
  <2> QED BY <1>2, <2>1 DEF Under
<1>4. TailIs(blocks', s, dp, u, exits')
  BY <1>3 DEF TailIs
<1> QED BY <1>0, <1>2, <1>4, TailsTo

\* Closing a structure keeps Tails.
LEMMA TailsClose ==
    ASSUME Ranged, Formed, Struct, Tails, CloseIf \/ CloseIfElse \/ CloseFor
    PROVE  Tails'
<1>00. PICK s : s = stack'[Depth - 1]
  OBVIOUS
<1>0. Depth > 1 /\ Typed
  BY BaseIs DEF CloseIf, CloseIfElse, CloseFor
<1>1. CASE CloseIf
  <2>1. PICK a, b, k, x : a = Cur.first /\ b = Parent.block /\ k = N + 1 /\ x = "if"
    OBVIOUS
  <2>2. a # b
    <3>1. a \in Live(Cur)
      BY <2>1 DEF Live
    <3> QED BY <1>0, <2>1, <3>1, ParentIs
  <2>3. IfClosed(a, b, k)
    BY <1>1, <2>1, <2>2, CloseIfBlocks
  <2>4. Pop(k, x) /\ k \in Nat
    BY <1>1, <2>1, BaseIs DEF CloseIf, N
  <2>5. Len(stack') = Depth - 1 /\ (\A d \in 1..(Depth - 2) : stack'[d] = stack[d]) /\ s.block = k /\ s.tail = x
    BY <1>00, <1>0, <2>1, <2>4, PopStack
  <2> QED BY <1>00, <1>0, <2>1, <2>3, <2>5, TailsPop DEF IfClosed, Made
<1>2. CASE CloseIfElse
  <2>1. PICK e, a, f, x : e = Cur.end /\ a = Cur.cond /\ f = Cur.first /\ x = "if"
    OBVIOUS
  <2>2. e = Parent.block /\ a # f /\ e # a /\ e # f
    BY <1>2, <2>1, StructCloseIfElse
  <2>3. Depth > 2 => blocks'[e].term = "br" /\ blocks'[e].to = <<stack[Depth - 2].block>>
    BY <1>2, <2>1, <2>2, CloseIfElseBlocks, ZenonT(30)
  <2>4. Pop(e, x) /\ e \in Nat
    <3>1. e \in 1..N /\ N \in Nat
      BY <1>0, <2>2, ParentIs
    <3> QED BY <1>2, <2>1, <3>1 DEF CloseIfElse
  <2>5. Len(stack') = Depth - 1 /\ (\A d \in 1..(Depth - 2) : stack'[d] = stack[d]) /\ s.block = e /\ s.tail = x
    BY <1>00, <1>0, <2>1, <2>4, PopStack
  <2> QED BY <1>00, <1>0, <2>1, <2>3, <2>5, TailsPop
<1>3. CASE CloseFor
  <2>1. PICK a, c, e, x : a = Cur.cond /\ c = Cur.block /\ e = Cur.end /\ x = "open"
    OBVIOUS
  <2>2. e = Parent.block
    BY <1>3, <2>1, StructCloseFor
  <2>4. Pop(e, x) /\ e \in Nat
    <3>1. e \in 1..N /\ N \in Nat
      BY <1>0, <2>2, ParentIs
    <3> QED BY <1>3, <2>1, <3>1 DEF CloseFor
  <2>5. Len(stack') = Depth - 1 /\ (\A d \in 1..(Depth - 2) : stack'[d] = stack[d]) /\ s.block = e /\ s.tail = x
    BY <1>00, <1>0, <2>1, <2>4, PopStack
  <2> QED BY <1>00, <1>0, <2>1, <2>5, TailsPop
<1> QED BY <1>1, <1>2, <1>3

\* The initial state has Tails.
LEMMA TailsInit == Init => Tails
<1> SUFFICES ASSUME Init PROVE Tails
  OBVIOUS
<1>1. PICK s : s = AddChildScope("fn", 1, [breakBlock |-> Nil, continueBlock |-> Nil, stale |-> FALSE])
  OBVIOUS
<1>2. s.tail = "first" /\ s.block = 1 /\ s.first = 1
  BY <1>1 DEF AddChildScope
<1>3. stack = <<s>> /\ Depth = 1 /\ Cur = s
  BY <1>1 DEF Init, Depth, Cur
<1>4. blocks = <<NewBlock>> /\ blocks[1] = NewBlock /\ exits # {}
  BY DEF Init
<1> QED BY <1>2, <1>3, <1>4, NewIs DEF Tails, TailIs

\* Every step keeps Tails.
LEMMA TailsNext == Ranged /\ Formed /\ Struct /\ Tails /\ [Next]_vars => Tails'
<1> SUFFICES ASSUME Ranged, Formed, Struct, Tails, [Next]_vars PROVE Tails'
  OBVIOUS
<1>1. CASE UNCHANGED vars \/ Ended
  <2>1. phase' = phase /\ blocks' = blocks /\ stack' = stack /\ exits' = exits
    BY <1>1 DEF vars, Ended
  <2> QED BY <2>1 DEF Tails, Depth, Cur
<1>2. CASE Finish
  <2>1. phase' = "done"
    BY <1>2 DEF Finish
  <2> QED BY <2>1 DEF Tails
<1>3. CASE Break \/ Continue
  <2>1. Cur.breakBlock \in 0..N /\ Cur.continueBlock \in 0..N
    BY CurFits
  <2>2. CASE Break
    BY <2>1, <2>2, TailsJump DEF Break
  <2>3. CASE Continue
    BY <2>1, <2>3, TailsJump DEF Continue
  <2> QED BY <1>3, <2>2, <2>3
<1>4. CASE \E isDef \in BOOLEAN : Statement(isDef)
  BY <1>4, TailsStatement
<1>5. CASE Suspend \/ Ret \/ Else
  BY <1>5, TailsSuspend, TailsRet, TailsElse
<1>6. CASE OpenIf \/ OpenIfElse \/ \E form \in Forms : OpenFor(form)
  BY <1>6, TailsOpen
<1>7. CASE CloseIf \/ CloseIfElse \/ CloseFor
  BY <1>7, TailsClose
<1> QED BY <1>1, <1>2, <1>3, <1>4, <1>5, <1>6, <1>7 DEF Next

-----------------------------------------------------------------------------
(* While the source keeps to the forms that are handled, nothing follows a jump. *)

QuietIs(st, dp, md, F) ==
    /\ \A d \in 1..dp : d # dp => st[d].jumped = "no"
    /\ st[dp].jumped # "no" => st[dp].tail = "ended" /\ (dp = 1 => md = "func")
    /\ ~Enters(F, Stray)

Quiet == phase = "compile" /\ ~odd => QuietIs(stack, Depth, mode, flow)

\* Quiet in the next state.
LEMMA QuietTo ==
    ASSUME NEW dp, Len(stack') = dp, ~odd' => QuietIs(stack', dp, mode', flow')
    PROVE  Quiet'
<1>1. Depth' = dp
  BY DEF Depth
<1> QED BY <1>1 DEF Quiet

\* New flow to a point is not stray.
LEMMA ToThird == ASSUME NEW p, p # Stray, ~Enters(flow, Stray), flow' = flow \union To(p) PROVE ~Enters(flow', Stray)
<1>1. \A f \in To(p) : f[3] = p
  BY DEF To
<1> QED BY <1>1 DEF Enters

\* Points are not Stray.
LEMMA PointIs == ASSUME Typed PROVE points + 1 # Stray /\ points + 2 # Stray /\ points + 1 \in Nat /\ Exit # Stray
<1>1. points \in Nat
  BY DEF Typed
<1> QED BY <1>1 DEF Stray, Exit

\* A simple statement keeps Quiet.
LEMMA QuietStatement ==
    ASSUME Ranged, Quiet, NEW isDef \in BOOLEAN, Statement(isDef)
    PROVE  Quiet'
<1>0. PICK t, p : t = stack'[Depth] /\ p = points + 1
  OBVIOUS
<1>1. Typed /\ Depth \in 1..Depth
  BY BaseIs
<1>2. Len(stack') = Depth /\ (\A d \in 1..Depth : d # Depth => stack'[d] = stack[d]) /\ t.jumped = Cur.jumped
  BY <1>0, <1>1, StatementStack
<1>3. phase = "compile" /\ flow' = flow \union To(p) /\ (~odd' => ~odd /\ Cur.jumped = "no") /\ mode' = mode
  BY <1>0 DEF Statement, Room, Compiling, Dead
<1>4. ~Enters(flow, Stray) => ~Enters(flow', Stray)
  BY <1>0, <1>1, <1>3, ToThird, PointIs
<1>5. ~odd' => QuietIs(stack', Depth, mode', flow')
  BY <1>0, <1>2, <1>3, <1>4 DEF Quiet, QuietIs
<1> QED BY <1>2, <1>5, QuietTo

\* Yield or await keeps Quiet.
LEMMA QuietSuspend ==
    ASSUME Ranged, Quiet, Suspend
    PROVE  Quiet'
<1>0. PICK t, p, k, x : t = stack'[Depth] /\ p = points + 1 /\ k = N + 1 /\ x = "open"
  OBVIOUS
<1>1. Typed /\ Depth \in 1..Depth /\ k \in Nat
  BY <1>0, BaseIs
<1>8. SetCur(Moved(Cur, k, x))
  BY <1>0 DEF Suspend, Moved, N
<1>2. Len(stack') = Depth /\ (\A d \in 1..Depth : d # Depth => stack'[d] = stack[d]) /\ t.jumped = Cur.jumped
  BY <1>0, <1>1, <1>8, MovedStack
<1>3. phase = "compile" /\ flow' = flow \union To(p) /\ (~odd' => ~odd /\ Cur.jumped = "no") /\ mode' = mode
  BY <1>0 DEF Suspend, Room, Compiling, Dead
<1>4. ~Enters(flow, Stray) => ~Enters(flow', Stray)
  BY <1>0, <1>1, <1>3, ToThird, PointIs
<1>5. ~odd' => QuietIs(stack', Depth, mode', flow')
  BY <1>0, <1>2, <1>3, <1>4 DEF Quiet, QuietIs
<1> QED BY <1>2, <1>5, QuietTo

\* Return keeps Quiet.
LEMMA QuietRet ==
    ASSUME Ranged, Quiet, Ret
    PROVE  Quiet'
<1>0. PICK t, p, k : t = stack'[Depth] /\ p = Exit /\ k = N + 1
  OBVIOUS
<1>1. Typed /\ Depth \in 1..Depth /\ k \in Nat /\ Cur = stack[Depth]
  BY <1>0, BaseIs DEF Cur
<1>3. phase = "compile" /\ flow' = flow \union To(p) /\ odd' = odd /\ mode' = mode /\ mode # "gen" /\ Cur.tail # "ended"
  BY <1>0 DEF Ret, Room, Compiling
<1>4. ~Enters(flow, Stray) => ~Enters(flow', Stray)
  BY <1>0, <1>1, <1>3, ToThird, PointIs
<1>5. CASE mode = "async"
  <2>1. PICK x : x = "ended"
    OBVIOUS
  <2>2. SetCur(Moved(Cur, k, x))
    BY <1>0, <1>5, <2>1 DEF Ret, Moved, N
  <2>3. Len(stack') = Depth /\ (\A d \in 1..Depth : d # Depth => stack'[d] = stack[d]) /\ t.jumped = Cur.jumped
    BY <1>0, <1>1, <2>1, <2>2, MovedStack
  <2>5. ~odd' => QuietIs(stack', Depth, mode', flow')
    BY <1>0, <1>1, <1>3, <1>4, <2>3 DEF Quiet, QuietIs
  <2> QED BY <2>3, <2>5, QuietTo
<1>6. CASE mode # "async"
  <2>1. PICK j : j = "ret"
    OBVIOUS
  <2>2. SetCur(Jump(j))
    BY <1>6, <2>1 DEF Ret
  <2>3. Len(stack') = Depth /\ (\A d \in 1..Depth : d # Depth => stack'[d] = stack[d]) /\ t.tail = "ended"
    BY <1>0, <1>1, <2>1, <2>2, JumpStack
  <2>4. mode = "func"
    BY <1>1, <1>3, <1>6 DEF Typed
  <2>5. ~odd' => QuietIs(stack', Depth, mode', flow')
    BY <1>0, <1>3, <1>4, <2>3, <2>4 DEF Quiet, QuietIs
  <2> QED BY <2>3, <2>5, QuietTo
<1> QED BY <1>5, <1>6

\* Break or continue keeps Quiet.
LEMMA QuietJump ==
    ASSUME Ranged, Formed, Quiet, NEW j \in {"break", "continue"}, NEW x, BreakOrContinue(j, x)
    PROVE  Quiet'
<1>1. CASE x = Nil
  <2>1. phase' = "error"
    BY <1>1 DEF BreakOrContinue
  <2> QED BY <2>1 DEF Quiet
<1>2. CASE x # Nil
  <2>0. PICK t : t = stack'[Depth]
    OBVIOUS
  <2>1. Typed /\ Depth \in 1..Depth /\ Cur = stack[Depth] /\ phase = "compile" /\ Cur.tail # "ended" /\ mode' = mode
    BY BaseIs DEF Cur, BreakOrContinue, Room, Compiling
  <2>4. CASE LoopDepths = {}
    <3>1. SetCur(Jump(j)) /\ odd' = (odd \/ Reached) /\ flow' = flow \union To(Stray)
      BY <1>2, <2>4 DEF BreakOrContinue
    <3>2. Len(stack') = Depth /\ (\A d \in 1..Depth : d # Depth => stack'[d] = stack[d]) /\ t.jumped = IF Reached THEN j ELSE Cur.jumped
      BY <2>0, <2>1, <3>1, JumpStack
    <3>3. ~Reached => flow' = flow
      BY <3>1 DEF To, Reached
    <3>4. ~odd' => QuietIs(stack', Depth, mode', flow')
      BY <2>0, <2>1, <3>1, <3>2, <3>3 DEF Quiet, QuietIs
    <3> QED BY <3>2, <3>4, QuietTo
  <2>5. CASE LoopDepths # {}
    <3>1. PICK L : L = InnerLoop
      OBVIOUS
    <3>3. Typed
      BY BaseIs
    <3>2. Len(stack') = Depth /\ \A d \in 1..Depth : Handed(j, L, d, stack[d], stack'[d])
      BY <3>3, <1>2, <2>5, <3>1, LoopJumpStack
    <3>5. flow' = flow /\ (~odd' => ~odd)
      BY <1>2, <2>5 DEF BreakOrContinue
    <3>6. t.tail = "ended" /\ \A d \in 1..Depth : d # Depth => stack'[d].jumped = stack[d].jumped
      BY <2>0, <2>1, <3>2 DEF Handed
    <3>7. Depth # 1
      <4>1. InnerLoop \in 1..Depth /\ stack[InnerLoop].kind = "body"
        BY <2>5, <3>3, InnerIs
      <4>2. Depth = 1 => stack[1].kind = "fn" /\ InnerLoop = 1
        BY <2>1, <4>1 DEF Formed, FormedScope
      <4> QED BY <4>1, <4>2
    <3>8. ~odd' => QuietIs(stack', Depth, mode', flow')
      BY <2>0, <2>1, <3>5, <3>6, <3>7 DEF Quiet, QuietIs
    <3> QED BY <3>2, <3>8, QuietTo
  <2> QED BY <2>4, <2>5
<1> QED BY <1>1, <1>2

\* Opening a scope keeps Quiet.
LEMMA QuietPush ==
    ASSUME Ranged, Quiet, phase = "compile", Len(stack') = Depth + 1, \A d \in 1..Depth : d # Depth => stack'[d] = stack[d],
           stack'[Depth].jumped = Cur.jumped, stack'[Depth + 1].jumped = "no",
           ~odd' => ~odd /\ Cur.jumped = "no" /\ (~Enters(flow, Stray) => ~Enters(flow', Stray))
    PROVE  Quiet'
<1>1. Depth \in 1..Depth /\ Cur = stack[Depth] /\ Depth \in Nat
  BY BaseIs DEF Cur
<1>2. \A d \in 1..(Depth + 1) : d # Depth + 1 => d \in 1..Depth
  BY <1>1
<1>3. ~odd' => QuietIs(stack', Depth + 1, mode', flow')
  BY <1>1, <1>2 DEF Quiet, QuietIs
<1> QED BY <1>3, QuietTo

\* The flow when a loop is opened.
LEMMA OpenForFlow ==
    ASSUME Typed, NEW form \in Forms, OpenFor(form), NEW q, q = points + 1, NEW c, c = IF "def" \in form THEN points + 2 ELSE points + 1
    PROVE  /\ "def" \in form /\ Reached => flow' = flow \union To(q) \union {<<q, "next", c>>}
           /\ "def" \in form /\ ~Reached => flow' = flow
           /\ "def" \notin form => flow' = flow \union To(c)
<1>1. points \in Nat
  BY DEF Typed
<1>2. CASE "def" \in form /\ Reached
  <2>1. c - 1 = q
    BY <1>1, <1>2
  <2>2. flow' = flow \union (To(c - 1) \union {<<c - 1, "next", c>>})
    BY <1>2 DEF OpenFor
  <2>3. flow' = flow \union (To(q) \union {<<q, "next", c>>})
    BY <2>1, <2>2
  <2> QED BY <1>2, <2>3
<1>3. CASE "def" \in form /\ ~Reached
  <2>1. flow' = flow \union To(c)
    BY <1>3 DEF OpenFor
  <2> QED BY <1>3, <2>1 DEF To, Reached
<1>4. CASE "def" \notin form
  BY <1>4 DEF OpenFor
<1> QED BY <1>2, <1>3, <1>4

\* Opening a structure keeps Quiet.
LEMMA QuietOpen ==
    ASSUME Ranged, Quiet, OpenIf \/ OpenIfElse \/ \E form \in Forms : OpenFor(form)
    PROVE  Quiet'
<1>0. PICK s, t : s = stack'[Depth] /\ t = stack'[Depth + 1]
  OBVIOUS
<1>1. Typed /\ Depth \in 1..Depth /\ Cur = stack[Depth]
  BY BaseIs DEF Cur
<1>9. PICK p : p = points + 1
  OBVIOUS
<1>2. CASE OpenIf
  <2>1. Len(stack') = Depth + 1 /\ (\A d \in 1..Depth : stack'[d] = stack[d]) /\ t.jumped = "no"
    BY <1>0, <1>1, <1>2, OpenIfStack DEF Opened
  <2>2. phase = "compile" /\ flow' = flow \union To(p) /\ (~odd' => ~odd /\ Cur.jumped = "no")
    BY <1>2, <1>9 DEF OpenIf, Room, Compiling, Dead
  <2>3. ~Enters(flow, Stray) => ~Enters(flow', Stray)
    BY <1>1, <1>9, <2>2, ToThird, PointIs
  <2> QED BY <1>0, <1>1, <2>1, <2>2, <2>3, QuietPush
<1>3. CASE OpenIfElse
  <2>1. Len(stack') = Depth + 1 /\ (\A d \in 1..Depth : d # Depth => stack'[d] = stack[d]) /\ s.jumped = Cur.jumped /\ t.jumped = "no"
    BY <1>0, <1>1, <1>3, OpenIfElseStack DEF Opened
  <2>2. phase = "compile" /\ flow' = flow \union To(p) /\ (~odd' => ~odd /\ Cur.jumped = "no")
    BY <1>3, <1>9 DEF OpenIfElse, Room, Compiling, Dead
  <2>3. ~Enters(flow, Stray) => ~Enters(flow', Stray)
    BY <1>1, <1>9, <2>2, ToThird, PointIs
  <2> QED BY <1>0, <2>1, <2>2, <2>3, QuietPush
<1>4. ASSUME NEW form \in Forms, OpenFor(form) PROVE Quiet'
  <2>1. Len(stack') = Depth + 1 /\ (\A d \in 1..Depth : d # Depth => stack'[d] = stack[d]) /\ Around(s) /\ Looped(form, t)
    BY <1>0, <1>1, <1>4, OpenForStack
  <2>2. s.jumped = Cur.jumped /\ t.jumped = "no"
    BY <2>1 DEF Around, Looped
  <2>3. phase = "compile" /\ (~odd' => ~odd /\ Cur.jumped = "no")
    BY <1>4 DEF OpenFor, Room, Compiling, Dead
  <2>4. ~Enters(flow, Stray) => ~Enters(flow', Stray)
    <3>1. points \in Nat
      BY <1>1 DEF Typed
    <3>4. PICK c : c = IF "def" \in form THEN points + 2 ELSE points + 1
      OBVIOUS
    <3>5. c # Stray /\ p # Stray
      BY <1>1, <1>9, <3>4, PointIs
    <3>2. CASE "def" \in form
      <4>1. CASE Reached
        <5>1. flow' = flow \union To(p) \union {<<p, "next", c>>}
          BY <1>1, <1>4, <1>9, <3>2, <3>4, <4>1, OpenForFlow
        <5>2. \A f \in To(p) : f[3] = p
          BY DEF To
        <5> QED BY <3>5, <5>1, <5>2 DEF Enters
      <4>2. CASE ~Reached
        <5>1. flow' = flow
          BY <1>1, <1>4, <1>9, <3>2, <3>4, <4>2, OpenForFlow
        <5> QED BY <5>1
      <4> QED BY <4>1, <4>2
    <3>3. CASE "def" \notin form
      <4>1. flow' = flow \union To(p)
        BY <1>4, <1>9, <3>3 DEF OpenFor
      <4> QED BY <1>1, <1>9, <4>1, ToThird, PointIs
    <3> QED BY <3>2, <3>3
  <2> QED BY <1>0, <2>1, <2>2, <2>3, <2>4, QuietPush
<1> QED BY <1>2, <1>3, <1>4

\* Going on to the else branch keeps Quiet.
LEMMA QuietElse == ASSUME Ranged, Quiet, Else PROVE Quiet'
<1>0. PICK t : t = stack'[Depth]
  OBVIOUS
<1>1. Typed /\ phase = "compile" /\ flow' = flow /\ (~odd' => ~odd)
  BY BaseIs DEF Else, Compiling
<1>2. Len(stack') = Depth /\ (\A d \in 1..Depth : d # Depth => stack'[d] = stack[d]) /\ t.jumped = "no"
  BY <1>0, <1>1, ElseStack DEF Opened
<1>3. ~odd' => QuietIs(stack', Depth, mode', flow')
  BY <1>0, <1>1, <1>2 DEF Quiet, QuietIs
<1> QED BY <1>2, <1>3, QuietTo

\* Taking the current scope off the stack keeps Quiet.
LEMMA QuietPop ==
    ASSUME Ranged, Quiet, phase = "compile", Depth > 1, NEW b \in Nat, NEW x \in {"if", "open"}, Pop(b, x), ~odd' => ~odd,
           ~Enters(flow, Stray) => ~Enters(flow', Stray)
    PROVE  Quiet'
<1>0. PICK s, m : s = stack'[Depth - 1] /\ m = Depth - 1
  OBVIOUS
<1>1. Depth \in Nat /\ Typed
  BY BaseIs
<1>2. Len(stack') = Depth - 1 /\ (\A d \in 1..(Depth - 2) : stack'[d] = stack[d]) /\ s.jumped = Parent.jumped
  BY <1>0, <1>1, PopStack
<1>3. m \in 1..Depth /\ m # Depth /\ Parent = stack[m] /\ \A d \in 1..m : d # m => d \in 1..(Depth - 2) /\ d \in 1..Depth /\ d # Depth
  BY <1>0, <1>1 DEF Parent
<1>4. ~odd' => QuietIs(stack', m, mode', flow')
  BY <1>0, <1>2, <1>3 DEF Quiet, QuietIs
<1> QED BY <1>0, <1>2, <1>4, QuietTo

\* Closing a structure keeps Quiet.
LEMMA QuietClose ==
    ASSUME Ranged, Formed, Struct, Quiet, CloseIf \/ CloseIfElse \/ CloseFor
    PROVE  Quiet'
<1>0. Depth > 1 /\ phase = "compile" /\ Typed
  BY BaseIs DEF CloseIf, CloseIfElse, CloseFor, Compiling
<1>1. CASE CloseIf
  <2>1. PICK k : k = N + 1
    OBVIOUS
  <2>2. Pop(k, "if") /\ k \in Nat
    BY <1>1, <2>1, BaseIs DEF CloseIf, N
  <2>3. (~odd' => ~odd) /\ flow' = flow
    BY <1>1 DEF CloseIf
  <2> QED BY <1>0, <2>2, <2>3, QuietPop
<1>2. CASE CloseIfElse
  <2>1. PICK k : k = Cur.end
    OBVIOUS
  <2>2. Pop(k, "if") /\ k \in Nat /\ (~odd' => ~odd) /\ flow' = flow
    BY <1>0, <1>2, <2>1, CurIs DEF CloseIfElse, Scope
  <2> QED BY <1>0, <2>2, QuietPop
<1>3. CASE CloseFor
  <2>1. PICK k : k = Cur.end
    OBVIOUS
  <2>2. Pop(k, "open") /\ k \in Nat /\ (~odd' => ~odd)
    BY <1>0, <1>3, <2>1, CurIs DEF CloseFor, Scope
  <2>3. LoopBack /\ Cur.point \in Nat /\ Cur.post \in Nat
    BY <1>0, <1>3, LoopBackIs, CurIs DEF Scope
  <2>4. \A f \in flow' : f \in flow \/ f[3] \in Nat
    <3>1. PICK y : y = BackTo
      OBVIOUS
    <3>2. y \in Nat
      BY <2>3, <3>1 DEF BackTo
    <3>3. \A f \in flow' : f \in flow \/ f = <<f[1], f[2], y>> \/ f = <<Cur.post, "next", Cur.point>>
      BY <2>3, <3>1 DEF LoopBack, Turns
    <3> QED BY <2>3, <3>2, <3>3
  <2>5. ~Enters(flow, Stray) => ~Enters(flow', Stray)
    BY <2>4 DEF Enters, Stray
  <2> QED BY <1>0, <2>2, <2>5, QuietPop
<1> QED BY <1>1, <1>2, <1>3

\* The initial state has Quiet.
LEMMA QuietInit == Init => Quiet
<1> SUFFICES ASSUME Init PROVE Quiet
  OBVIOUS
<1>1. PICK s : s = AddChildScope("fn", 1, [breakBlock |-> Nil, continueBlock |-> Nil, stale |-> FALSE])
  OBVIOUS
<1>2. s.jumped = "no"
  BY <1>1 DEF AddChildScope
<1>3. stack = <<s>> /\ Depth = 1 /\ stack[1] = s /\ flow = {}
  BY <1>1 DEF Init, Depth
<1> QED BY <1>2, <1>3 DEF Quiet, QuietIs, Enters

\* Every step keeps Quiet.
LEMMA QuietNext == Ranged /\ Formed /\ Struct /\ Quiet /\ [Next]_vars => Quiet'
<1> SUFFICES ASSUME Ranged, Formed, Struct, Quiet, [Next]_vars PROVE Quiet'
  OBVIOUS
<1>1. CASE UNCHANGED vars \/ Ended
  <2>1. phase' = phase /\ odd' = odd /\ stack' = stack /\ mode' = mode /\ flow' = flow
    BY <1>1 DEF vars, Ended
  <2> QED BY <2>1 DEF Quiet, Depth
<1>2. CASE Finish
  <2>1. phase' = "done"
    BY <1>2 DEF Finish
  <2> QED BY <2>1 DEF Quiet
<1>3. CASE Break \/ Continue
  BY <1>3, QuietJump DEF Break, Continue
<1>4. CASE \E isDef \in BOOLEAN : Statement(isDef)
  BY <1>4, QuietStatement
<1>5. CASE Suspend \/ Ret \/ Else
  BY <1>5, QuietSuspend, QuietRet, QuietElse
<1>6. CASE OpenIf \/ OpenIfElse \/ \E form \in Forms : OpenFor(form)
  BY <1>6, QuietOpen
<1>7. CASE CloseIf \/ CloseIfElse \/ CloseFor
  BY <1>7, QuietClose
<1> QED BY <1>1, <1>2, <1>3, <1>4, <1>5, <1>6, <1>7 DEF Next

-----------------------------------------------------------------------------
(* break and continue aim at the loop they stand in, unless the target is stale. *)

Aimed(st, d) ==
    \A L \in 1..d : st[L].kind = "body" /\ (\A k \in (L + 1)..d : st[k].kind # "body") /\ ~st[d].stale =>
        st[d].breakBlock = st[L].end /\ st[d].continueBlock = st[L].cond

Targets == \A d \in 1..Depth : Aimed(stack, d)

\* A scope that goes on is aimed as it was.
LEMMA AimedLike ==
    ASSUME NEW st, NEW r, NEW d \in Nat, d >= 1, \A k \in 1..d : Core(st[k], r[k]), Jumps(st[d], r[d]), Aimed(st, d)
    PROVE  Aimed(r, d)
<1> SUFFICES ASSUME NEW L \in 1..d, r[L].kind = "body", \A k \in (L + 1)..d : r[k].kind # "body", ~r[d].stale
             PROVE  r[d].breakBlock = r[L].end /\ r[d].continueBlock = r[L].cond
  BY DEF Aimed
<1>1. \A k \in (L + 1)..d : k \in 1..d
  OBVIOUS
<1>2. \A k \in (L + 1)..d : st[k].kind # "body"
  BY <1>1 DEF Core
<1>3. st[L].kind = "body" /\ ~st[d].stale /\ r[L].end = st[L].end /\ r[L].cond = st[L].cond
  BY DEF Core, Jumps
<1>4. st[d].breakBlock = st[L].end /\ st[d].continueBlock = st[L].cond
  BY <1>2, <1>3 DEF Aimed
<1> QED BY <1>3, <1>4 DEF Jumps

\* A scope inside is aimed as the one around it.
LEMMA AimedChild ==
    ASSUME NEW st, NEW r, NEW d \in Nat, NEW n \in Nat, n = d + 1, \A k \in 1..d : Core(st[k], r[k]),
           d >= 1, Jumps(st[d], r[n]), r[n].kind # "body", Aimed(st, d)
    PROVE  Aimed(r, n)
<1> SUFFICES ASSUME NEW L \in 1..n, r[L].kind = "body", \A k \in (L + 1)..n : r[k].kind # "body", ~r[n].stale
             PROVE  r[n].breakBlock = r[L].end /\ r[n].continueBlock = r[L].cond
  BY DEF Aimed
<1>0. L # n
  OBVIOUS
<1>1. L \in 1..d /\ \A k \in (L + 1)..d : k \in 1..d /\ k \in (L + 1)..n
  BY <1>0
<1>2. \A k \in (L + 1)..d : st[k].kind # "body"
  BY <1>1 DEF Core
<1>3. st[L].kind = "body" /\ ~st[d].stale /\ r[L].end = st[L].end /\ r[L].cond = st[L].cond
  BY <1>1 DEF Core, Jumps
<1>4. st[d].breakBlock = st[L].end /\ st[d].continueBlock = st[L].cond
  BY <1>1, <1>2, <1>3 DEF Aimed
<1> QED BY <1>3, <1>4 DEF Jumps

\* Simple statements, jumps and the end of the function keep what a scope is and where it jumps to.
LEMMA TopKeeps ==
    ASSUME Ranged, \/ \E isDef \in BOOLEAN : Statement(isDef)
                   \/ Suspend \/ Ret \/ Break \/ Continue \/ Finish
    PROVE  Len(stack') = Depth /\ \A d \in 1..Depth : Core(stack[d], stack'[d]) /\ Jumps(stack[d], stack'[d])
<1>0. Typed /\ Depth \in 1..Depth /\ Cur = stack[Depth] /\ N \in Nat
  BY BaseIs DEF Cur
<1>00. PICK t : t = stack'[Depth]
  OBVIOUS
<1>1. ASSUME Len(stack') = Depth, \A d \in 1..Depth : d # Depth => stack'[d] = stack[d], Core(Cur, t), Jumps(Cur, t)
      PROVE  Len(stack') = Depth /\ \A d \in 1..Depth : Core(stack[d], stack'[d]) /\ Jumps(stack[d], stack'[d])
  BY <1>0, <1>00, <1>1, SelfIs
<1>2. ASSUME NEW isDef \in BOOLEAN, Statement(isDef) PROVE Len(stack') = Depth /\ \A d \in 1..Depth : Core(stack[d], stack'[d]) /\ Jumps(stack[d], stack'[d])
  <2>1. /\ Len(stack') = Depth /\ \A d \in 1..Depth : d # Depth => stack'[d] = stack[d]
        /\ Core(Cur, t) /\ Jumps(Cur, t)
    BY <1>0, <1>00, <1>2, StatementStack
  <2> QED BY <1>1, <2>1
<1>3. ASSUME NEW k \in Nat, NEW x, x \in {"open", "ended"}, SetCur(Moved(Cur, k, x)) PROVE Len(stack') = Depth /\ \A d \in 1..Depth : Core(stack[d], stack'[d]) /\ Jumps(stack[d], stack'[d])
  <2>1. /\ Len(stack') = Depth /\ \A d \in 1..Depth : d # Depth => stack'[d] = stack[d]
        /\ Core(Cur, t) /\ Jumps(Cur, t)
    BY <1>0, <1>00, <1>3, MovedStack
  <2> QED BY <1>1, <2>1
<1>4. ASSUME NEW j \in {"ret", "break", "continue"}, SetCur(Jump(j)) PROVE Len(stack') = Depth /\ \A d \in 1..Depth : Core(stack[d], stack'[d]) /\ Jumps(stack[d], stack'[d])
  <2>1. /\ Len(stack') = Depth /\ \A d \in 1..Depth : d # Depth => stack'[d] = stack[d]
        /\ Core(Cur, t) /\ Jumps(Cur, t)
    BY <1>0, <1>00, <1>4, JumpStack
  <2> QED BY <1>1, <2>1
<1>5. ASSUME stack' = stack PROVE Len(stack') = Depth /\ \A d \in 1..Depth : Core(stack[d], stack'[d]) /\ Jumps(stack[d], stack'[d])
  BY <1>5, SelfIs DEF Depth
<1>6. CASE Suspend
  <2>1. PICK k, x : k = N + 1 /\ x = "open"
    OBVIOUS
  <2>2. SetCur(Moved(Cur, k, x)) /\ k \in Nat
    BY <1>0, <1>6, <2>1 DEF Suspend, Moved, N
  <2> QED BY <1>3, <2>1, <2>2
<1>7. CASE Ret
  <2>1. PICK k, x : k = N + 1 /\ x = "ended"
    OBVIOUS
  <2>2. mode = "async" => SetCur(Moved(Cur, k, x)) /\ k \in Nat
    BY <1>0, <1>7, <2>1 DEF Ret, Moved, N
  <2>3. mode # "async" => SetCur(Jump("ret"))
    BY <1>7 DEF Ret
  <2> QED BY <1>3, <1>4, <2>1, <2>2, <2>3
<1>8. ASSUME NEW j \in {"break", "continue"}, NEW x, BreakOrContinue(j, x) PROVE Len(stack') = Depth /\ \A d \in 1..Depth : Core(stack[d], stack'[d]) /\ Jumps(stack[d], stack'[d])
  <2>1. CASE x = Nil
    BY <1>5, <1>8, <2>1 DEF BreakOrContinue
  <2>2. CASE x # Nil /\ LoopDepths = {}
    <3>1. SetCur(Jump(j))
      BY <1>8, <2>2 DEF BreakOrContinue
    <3> QED BY <1>4, <3>1
  <2>3. CASE x # Nil /\ LoopDepths # {}
    <3>1. PICK L : L = InnerLoop
      OBVIOUS
    <3>3. Typed
      BY BaseIs
    <3>2. Len(stack') = Depth /\ \A d \in 1..Depth : Handed(j, L, d, stack[d], stack'[d])
      BY <3>3, <1>8, <2>3, <3>1, LoopJumpStack
    <3> QED BY <3>2 DEF Handed
  <2> QED BY <2>1, <2>2, <2>3
<1>9. CASE Break \/ Continue
  BY <1>8, <1>9 DEF Break, Continue
<1>10. CASE Finish
  <2>1. stack' = stack
    BY <1>10 DEF Finish
  <2> QED BY <1>5, <2>1
<1> QED BY <1>2, <1>6, <1>7, <1>9, <1>10

\* Opening a structure keeps Targets.
LEMMA TargetsOpen ==
    ASSUME Ranged, Targets, OpenIf \/ OpenIfElse \/ \E form \in Forms : OpenFor(form)
    PROVE  Targets'
<1>0. PICK n, s, t : n = Depth + 1 /\ s = stack'[Depth] /\ t = stack'[Depth + 1]
  OBVIOUS
<1>1. Typed /\ Depth \in 1..Depth /\ Cur = stack[Depth] /\ Depth \in Nat /\ n \in Nat
  BY <1>0, BaseIs DEF Cur
<1>2. ASSUME Len(stack') = Depth + 1, \A d \in 1..Depth : Core(stack[d], stack'[d]) /\ Jumps(stack[d], stack'[d]),
             Jumps(Cur, t), t.kind # "body"
      PROVE  Targets'
  <2>1. ASSUME NEW d \in 1..Depth PROVE Aimed(stack', d)
    <3>1. d \in Nat /\ d >= 1 /\ \A k \in 1..d : k \in 1..Depth
      BY <1>1
    <3> QED BY <1>2, <3>1, AimedLike DEF Targets
  <2>2. Aimed(stack', n)
    <3>1. Aimed(stack, Depth)
      BY <1>1 DEF Targets
    <3>2. n = Depth + 1 /\ Depth >= 1 /\ Jumps(stack[Depth], stack'[n]) /\ stack'[n].kind # "body"
      BY <1>0, <1>1, <1>2
    <3>3. \A k \in 1..Depth : Core(stack[k], stack'[k])
      BY <1>2
    <3> QED BY <1>1, <3>1, <3>2, <3>3, AimedChild
  <2>3. \A d \in 1..Depth' : d \in 1..Depth \/ d = n
    BY <1>0, <1>1, <1>2 DEF Depth
  <2> QED BY <2>1, <2>2, <2>3 DEF Targets
<1>3. CASE OpenIf
  <2>1. Len(stack') = Depth + 1 /\ (\A d \in 1..Depth : stack'[d] = stack[d]) /\ Jumps(Cur, t) /\ t.kind = "if"
    BY <1>0, <1>1, <1>3, OpenIfStack DEF Opened
  <2> QED BY <1>2, <2>1, SelfIs
<1>4. CASE OpenIfElse
  <2>1. /\ Len(stack') = Depth + 1 /\ (\A d \in 1..Depth : d # Depth => stack'[d] = stack[d]) /\ Core(Cur, s) /\ Jumps(Cur, s)
        /\ Jumps(s, t) /\ t.kind = "then"
    BY <1>0, <1>1, <1>4, OpenIfElseStack DEF Opened
  <2>2. Jumps(Cur, t)
    BY <2>1 DEF Jumps
  <2>3. \A d \in 1..Depth : Core(stack[d], stack'[d]) /\ Jumps(stack[d], stack'[d])
    BY <1>0, <1>1, <2>1, SelfIs
  <2> QED BY <1>2, <2>1, <2>2, <2>3
<1>5. ASSUME NEW form \in Forms, OpenFor(form) PROVE Targets'
  <2>1. Len(stack') = Depth + 1 /\ (\A d \in 1..Depth : d # Depth => stack'[d] = stack[d]) /\ Around(s) /\ Looped(form, t)
    BY <1>0, <1>1, <1>5, OpenForStack
  <2>2. ASSUME NEW d \in 1..Depth, d # Depth PROVE Aimed(stack', d)
    <3>1. d \in Nat /\ d >= 1 /\ \A k \in 1..d : k \in 1..Depth /\ k # Depth
      BY <1>1, <2>2
    <3>2. \A k \in 1..d : Core(stack[k], stack'[k])
      BY <2>1, <3>1, SelfIs
    <3>3. Jumps(stack[d], stack'[d])
      BY <2>1, <2>2, SelfIs
    <3> QED BY <3>1, <3>2, <3>3, AimedLike DEF Targets
  <2>3. Aimed(stack', Depth)
    BY <1>0, <2>1 DEF Aimed, Around
  <2>4. Aimed(stack', n)
    <3>1. t.kind = "body" /\ t.end = t.breakBlock /\ t.cond = t.continueBlock
      BY <2>1 DEF Looped
    <3>2. ASSUME NEW L \in 1..n, L # n PROVE n \in (L + 1)..n
      BY <1>1, <3>2
    <3> QED BY <1>0, <3>1, <3>2 DEF Aimed
  <2>5. \A d \in 1..Depth' : (d \in 1..Depth /\ d # Depth) \/ d = Depth \/ d = n
    BY <1>0, <1>1, <2>1 DEF Depth
  <2> QED BY <2>2, <2>3, <2>4, <2>5 DEF Targets
<1> QED BY <1>3, <1>4, <1>5

\* Going on to the else branch keeps Targets.
LEMMA TargetsElse == ASSUME Ranged, Targets, Else PROVE Targets'
<1>0. PICK n, m, t : n = Depth /\ m = Depth - 1 /\ t = stack'[Depth]
  OBVIOUS
<1>1. Depth > 1 /\ Typed /\ Depth \in Nat /\ m \in Nat /\ m >= 1 /\ n = m + 1 /\ m \in 1..Depth /\ m # Depth /\ Parent = stack[m]
  BY <1>0, BaseIs DEF Else, Parent
<1>2. Len(stack') = Depth /\ (\A d \in 1..Depth : d # Depth => stack'[d] = stack[d]) /\ Jumps(Parent, t) /\ t.kind = "else"
  BY <1>0, <1>1, ElseStack DEF Opened
<1>3. ASSUME NEW d \in 1..Depth, d # Depth PROVE Aimed(stack', d)
  <2>1. d \in Nat /\ d >= 1 /\ \A k \in 1..d : k \in 1..Depth /\ k # Depth
    BY <1>1, <1>3
  <2>2. \A k \in 1..d : Core(stack[k], stack'[k])
    BY <1>2, <2>1, SelfIs
  <2>3. Jumps(stack[d], stack'[d])
    BY <1>2, <1>3, SelfIs
  <2> QED BY <2>1, <2>2, <2>3, AimedLike DEF Targets
<1>4. \A k \in 1..m : Core(stack[k], stack'[k])
  <2>1. \A k \in 1..m : k \in 1..Depth /\ k # Depth
    BY <1>0, <1>1
  <2> QED BY <1>2, <2>1, SelfIs
<1>5. Aimed(stack', n)
  BY <1>0, <1>1, <1>2, <1>4, AimedChild DEF Targets
<1>6. \A d \in 1..Depth' : (d \in 1..Depth /\ d # Depth) \/ d = n
  BY <1>0, <1>1, <1>2 DEF Depth
<1> QED BY <1>3, <1>5, <1>6 DEF Targets

\* Taking the current scope off the stack keeps Targets.
LEMMA TargetsPop ==
    ASSUME Ranged, Targets, Depth > 1, NEW b \in Nat, NEW x \in {"if", "open"}, Pop(b, x)
    PROVE  Targets'
<1>0. PICK s, m : s = stack'[Depth - 1] /\ m = Depth - 1
  OBVIOUS
<1>1. Depth \in Nat /\ Typed /\ m \in Nat /\ m \in 1..Depth /\ Parent = stack[m]
  BY <1>0, BaseIs DEF Parent
<1>2. Len(stack') = Depth - 1 /\ (\A d \in 1..(Depth - 2) : stack'[d] = stack[d]) /\ Core(Parent, s) /\ Jumps(Parent, s)
  BY <1>0, <1>1, PopStack
<1>3. \A d \in 1..m : d \in 1..(Depth - 2) \/ d = m
  BY <1>0, <1>1
<1>4. \A d \in 1..m : Core(stack[d], stack'[d]) /\ Jumps(stack[d], stack'[d])
  BY <1>0, <1>1, <1>2, <1>3, SelfIs
<1>5. ASSUME NEW d \in 1..m PROVE Aimed(stack', d)
  <2>1. d \in Nat /\ d >= 1 /\ d \in 1..Depth /\ \A k \in 1..d : k \in 1..m
    BY <1>0, <1>1
  <2> QED BY <1>4, <2>1, AimedLike DEF Targets
<1>6. Depth' = m
  BY <1>0, <1>2 DEF Depth
<1> QED BY <1>5, <1>6 DEF Targets

\* The initial state has Targets.
LEMMA TargetsInit == Init => Targets
<1> SUFFICES ASSUME Init PROVE Targets
  OBVIOUS
<1>1. PICK s : s = AddChildScope("fn", 1, [breakBlock |-> Nil, continueBlock |-> Nil, stale |-> FALSE])
  OBVIOUS
<1>2. s.kind = "fn"
  BY <1>1 DEF AddChildScope
<1>3. stack = <<s>> /\ Depth = 1 /\ stack[1] = s
  BY <1>1 DEF Init, Depth
<1> QED BY <1>2, <1>3 DEF Targets, Aimed

\* Every step keeps Targets.
LEMMA TargetsNext == Ranged /\ Formed /\ Struct /\ Targets /\ [Next]_vars => Targets'
<1> SUFFICES ASSUME Ranged, Formed, Struct, Targets, [Next]_vars PROVE Targets'
  OBVIOUS
<1>1. CASE UNCHANGED vars \/ Ended
  <2>1. stack' = stack
    BY <1>1 DEF vars, Ended
  <2> QED BY <2>1 DEF Targets, Depth
<1>2. ASSUME Len(stack') = Depth /\ \A d \in 1..Depth : Core(stack[d], stack'[d]) /\ Jumps(stack[d], stack'[d])
      PROVE  Targets'
  <2>1. Depth' = Depth /\ Depth \in Nat
    BY <1>2, BaseIs DEF Depth
  <2>2. ASSUME NEW d \in 1..Depth PROVE Aimed(stack', d)
    <3>1. d \in Nat /\ d >= 1 /\ \A k \in 1..d : k \in 1..Depth
      BY <2>1
    <3> QED BY <1>2, <3>1, AimedLike DEF Targets
  <2> QED BY <2>1, <2>2 DEF Targets
<1>3. CASE (\E isDef \in BOOLEAN : Statement(isDef)) \/ Suspend \/ Ret \/ Break \/ Continue \/ Finish
  BY <1>2, <1>3, TopKeeps
<1>4. CASE Else
  BY <1>4, TargetsElse
<1>6. CASE OpenIf \/ OpenIfElse \/ \E form \in Forms : OpenFor(form)
  BY <1>6, TargetsOpen
<1>7. CASE CloseIf \/ CloseIfElse \/ CloseFor
  <2>1. PICK k, e : k = N + 1 /\ e = Cur.end
    OBVIOUS
  <2>2. k \in Nat /\ e \in Nat /\ Depth > 1
    <3>1. Cur.end \in Nat
      BY BaseIs, CurIs DEF Scope
    <3>2. N \in Nat
      BY BaseIs
    <3>3. Depth > 1
      BY <1>7 DEF CloseIf, CloseIfElse, CloseFor
    <3> QED BY <2>1, <3>1, <3>2, <3>3
  <2>3. CASE CloseIf
    <3>1. Pop(k, "if")
      BY <2>1, <2>3 DEF CloseIf, N
    <3> QED BY <2>2, <3>1, TargetsPop
  <2>4. CASE CloseIfElse
    <3>1. Pop(e, "if")
      BY <2>1, <2>4 DEF CloseIfElse
    <3> QED BY <2>2, <3>1, TargetsPop
  <2>5. CASE CloseFor
    <3>1. Pop(e, "open")
      BY <2>1, <2>5 DEF CloseFor
    <3> QED BY <2>2, <3>1, TargetsPop
  <2> QED BY <1>7, <2>3, <2>4, <2>5
<1> QED BY <1>1, <1>3, <1>4, <1>6, <1>7 DEF Next

-----------------------------------------------------------------------------
(* Where the points are. *)

\* p is a point that may stand in a block: the step of a loop does so when the loop is closed
UsedIn(st, n, p) == p \in 1..n /\ \A d \in 1..Len(st) : p # st[d].post

\* Blocks hold points that were handed out, and no step of a loop that is still open.
Emitted ==
    /\ \A b \in 1..N : \A i \in 1..Len(I(b)) : UsedIn(stack, points, I(b)[i])
    /\ \A d \in 2..Depth : UsedIn(stack, points, stack[d].point)

\* position i of block x has an exit labelled l
OffersAt(x, i, l) ==
    IF i < Len(x.insts) THEN l = "next"
    ELSE \/ l = "next" /\ x.term \in {"none", "br", "ret"}
         \/ l \in {"true", "false"} /\ x.term = "cond"
         \/ l = "resume" /\ x.term = "yield"
\* point p of some block has an exit labelled l
OffersIn(bs, p, l) == \E b \in 1..Len(bs) : \E i \in 1..Len(bs[b].insts) : bs[b].insts[i] = p /\ OffersAt(bs[b], i, l)
\* the condition of an open if is put into its block when the if is closed
ByIf(st, p, l) == \E d \in 2..Len(st) : st[d].kind = "if" /\ st[d].point = p /\ l \in {"true", "false"}
Offered(bs, st, p, l) == (p = Start /\ l = "next") \/ OffersIn(bs, p, l) \/ ByIf(st, p, l)

\* Every exit of the source is one of a block, or will be.
Sourced ==
    /\ \A e \in exits : Offered(blocks, stack, e[1], e[2])
    /\ \A f \in flow : Offered(blocks, stack, f[1], f[2])
    /\ \A d \in 1..Depth : \A e \in Dangling(stack[d]) \union Other(stack[d]) : Offered(blocks, stack, e[1], e[2])

\* what a step may do to a block
Longer(b) == Len(blocks'[b].insts) \in Nat /\ Len(I(b)) <= Len(blocks'[b].insts) /\ \A i \in 1..Len(I(b)) : blocks'[b].insts[i] = I(b)[i]
\* Block b keeps its exits.
OfferKept(b) ==
    \/ blocks'[b] = blocks[b]
    \/ Longer(b) /\ PendIn(blocks, b) /\ (Len(blocks'[b].insts) = Len(I(b)) => PendIn(blocks', b))
\* Block b gets no points but those of S.
Extra(b, S) ==
    \A i \in 1..Len(blocks'[b].insts) :
        (b \in 1..N /\ i \in 1..Len(I(b)) /\ blocks'[b].insts[i] = I(b)[i]) \/ blocks'[b].insts[i] \in S
\* The blocks keep their exits and get the points of S.
Adds(S) == N <= N' /\ N' \in Nat /\ (\A b \in 1..N : OfferKept(b)) /\ \A b \in 1..N' : Extra(b, S)

\* The points of a block.
LEMMA InstsIs == ASSUME Ranged, NEW b \in 1..N PROVE I(b) \in Seq(Nat) /\ Len(I(b)) \in Nat /\ N \in Nat
  BY BaseIs, BlockIs, LenProperties

\* A sequence with one more member.
LEMMA AppendIs ==
    ASSUME NEW q \in Seq(Nat), NEW p, NEW n, n = Len(q)
    PROVE  /\ n \in Nat /\ Len(Append(q, p)) = n + 1 /\ Append(q, p)[n + 1] = p /\ \A i \in 1..n : Append(q, p)[i] = q[i]
           /\ \A i \in 1..(n + 1) : i \in 1..n \/ i = n + 1
  OBVIOUS

\* A block gets a point.
LEMMA MadeAppend ==
    ASSUME Ranged, NEW b \in 1..N, NEW p, blocks'[b].insts = Append(I(b), p), PendIn(blocks, b)
    PROVE  OfferKept(b) /\ Extra(b, {p})
<1>1. I(b) \in Seq(Nat)
  BY InstsIs
<1>2. PICK n : n = Len(I(b))
  OBVIOUS
<1>3. /\ n \in Nat /\ Len(Append(I(b), p)) = n + 1 /\ Append(I(b), p)[n + 1] = p /\ \A i \in 1..n : Append(I(b), p)[i] = I(b)[i]
      /\ \A i \in 1..(n + 1) : i \in 1..n \/ i = n + 1
  BY <1>1, <1>2, AppendIs
<1>4. n <= n + 1 /\ n # n + 1 /\ n + 1 \in Nat
  BY <1>3
<1>5. OfferKept(b)
  BY <1>2, <1>3, <1>4 DEF OfferKept, Longer
<1>6. Extra(b, {p})
  BY <1>2, <1>3 DEF Extra
<1> QED BY <1>5, <1>6

\* A block gets two points.
LEMMA MadeAppend2 ==
    ASSUME Ranged, NEW b \in 1..N, NEW p \in Nat, NEW q, blocks'[b].insts = Append(Append(I(b), p), q), PendIn(blocks, b)
    PROVE  OfferKept(b) /\ Extra(b, {p, q})
<1>1. I(b) \in Seq(Nat) /\ Append(I(b), p) \in Seq(Nat)
  BY InstsIs, AppendProperties
<1>2. PICK n, r : n = Len(I(b)) /\ r = Append(I(b), p)
  OBVIOUS
<1>3. /\ n \in Nat /\ Len(r) = n + 1 /\ r[n + 1] = p /\ \A i \in 1..n : r[i] = I(b)[i]
      /\ \A i \in 1..(n + 1) : i \in 1..n \/ i = n + 1
  BY <1>1, <1>2, AppendIs
<1>4. PICK k : k = Len(r)
  OBVIOUS
<1>5. /\ k \in Nat /\ Len(Append(r, q)) = k + 1 /\ Append(r, q)[k + 1] = q /\ \A i \in 1..k : Append(r, q)[i] = r[i]
      /\ \A i \in 1..(k + 1) : i \in 1..k \/ i = k + 1
  BY <1>1, <1>2, <1>4, AppendIs
<1>6. k = n + 1 /\ k + 1 \in Nat /\ n <= k + 1 /\ n # k + 1 /\ \A i \in 1..n : i \in 1..k
  BY <1>3, <1>4
<1>7. blocks'[b].insts = Append(r, q)
  BY <1>2
<1>8. OfferKept(b)
  BY <1>2, <1>3, <1>5, <1>6, <1>7 DEF OfferKept, Longer
<1>9. Extra(b, {p, q})
  BY <1>2, <1>3, <1>5, <1>6, <1>7 DEF Extra
<1> QED BY <1>8, <1>9

\* A block gets no point.
LEMMA MadeSame ==
    ASSUME Ranged, NEW b \in 1..N, NEW S, blocks'[b].insts = I(b), blocks'[b] = blocks[b] \/ (PendIn(blocks, b) /\ PendIn(blocks', b))
    PROVE  OfferKept(b) /\ Extra(b, S)
<1>1. Len(I(b)) \in Nat
  BY InstsIs
<1>2. Extra(b, S)
  BY <1>1 DEF Extra
<1>3. OfferKept(b)
  BY <1>1 DEF OfferKept, Longer
<1> QED BY <1>2, <1>3

\* A block is ended if nothing has ended it.
LEMMA MadeShut ==
    ASSUME Ranged, NEW b \in 1..N, NEW S, NEW e, Shut(b, e)
    PROVE  OfferKept(b) /\ Extra(b, S)
<1>1. blocks'[b].insts = I(b) /\ (blocks'[b] = blocks[b] \/ (PendIn(blocks, b) /\ PendIn(blocks', b)))
  BY DEF Shut, PendIn, Term
<1> QED BY <1>1, MadeSame

\* A block has no points.
LEMMA MadeEmpty == ASSUME NEW b, NEW S, blocks'[b].insts = <<>> PROVE Extra(b, S)
  BY DEF Extra

\* Blocks that are left alone.
LEMMA MadeUntouched == ASSUME Ranged, NEW T, OnlyAt(T), NEW S PROVE \A b \in 1..N : b \notin T => OfferKept(b) /\ Extra(b, S)
  BY DEF OnlyAt, OfferKept, Extra, I

\* Adds from the blocks that a step touches.
LEMMA AddsIs ==
    ASSUME Ranged, NEW T, OnlyAt(T), NEW S, N <= N', N' \in Nat,
           \A b \in 1..N : b \in T => OfferKept(b) /\ Extra(b, S), \A b \in (N + 1)..N' : Extra(b, S)
    PROVE  Adds(S)
<1>1. N \in Nat
  BY BaseIs
<1>2. \A b \in 1..N' : b \in 1..N \/ b \in (N + 1)..N'
  BY <1>1
<1>3. \A b \in 1..N : OfferKept(b) /\ Extra(b, S)
  BY MadeUntouched
<1> QED BY <1>2, <1>3 DEF Adds

\* Exits of blocks stay.
LEMMA OffersStay == ASSUME Ranged, N <= N', N' \in Nat, \A b \in 1..N : OfferKept(b), NEW p, NEW l, OffersIn(blocks, p, l) PROVE OffersIn(blocks', p, l)
<1>1. PICK b \in 1..N : \E i \in 1..Len(I(b)) : I(b)[i] = p /\ OffersAt(blocks[b], i, l)
  BY DEF OffersIn, N, I
<1>2. PICK i \in 1..Len(I(b)) : I(b)[i] = p /\ OffersAt(blocks[b], i, l)
  BY <1>1
<1>3. b \in 1..N' /\ Len(I(b)) \in Nat /\ N \in Nat
  BY InstsIs
<1>4. CASE blocks'[b] = blocks[b]
  BY <1>2, <1>3, <1>4 DEF OffersIn, N, I
<1>5. CASE blocks'[b] # blocks[b]
  <2>1. Longer(b) /\ PendIn(blocks, b) /\ (Len(blocks'[b].insts) = Len(I(b)) => PendIn(blocks', b))
    BY <1>5 DEF OfferKept
  <2>2. l = "next"
    BY <1>2, <2>1 DEF OffersAt, PendIn, I
  <2>5. PICK k \in Nat : k = Len(blocks'[b].insts)
    BY <2>1 DEF Longer
  <2>3. i \in 1..Len(blocks'[b].insts) /\ blocks'[b].insts[i] = p
    BY <1>2, <1>3, <2>1, <2>5 DEF Longer
  <2>4. OffersAt(blocks'[b], i, l)
    BY <1>2, <1>3, <2>1, <2>2, <2>5 DEF OffersAt, PendIn, I, Longer
  <2> QED BY <1>3, <2>3, <2>4 DEF OffersIn, N
<1> QED BY <1>4, <1>5

\* The last point of a block has the exits of its terminator.
LEMMA OfferLast ==
    ASSUME NEW b \in 1..N', NEW n \in Nat, n >= 1, Len(blocks'[b].insts) = n, NEW p, blocks'[b].insts[n] = p,
           NEW l, \/ l = "next" /\ PendIn(blocks', b)
                  \/ l \in {"true", "false"} /\ blocks'[b].term = "cond"
                  \/ l = "resume" /\ blocks'[b].term = "yield"
    PROVE  OffersIn(blocks', p, l)
<1>1. OffersAt(blocks'[b], n, l)
  BY DEF OffersAt, PendIn
<1>2. n \in 1..Len(blocks'[b].insts)
  OBVIOUS
<1> QED BY <1>1, <1>2 DEF OffersIn, N

\* So has a point that is put at the end.
LEMMA OfferAppend ==
    ASSUME Ranged, NEW b \in 1..N, N <= N', N' \in Nat, NEW p, blocks'[b].insts = Append(I(b), p),
           NEW l, \/ l = "next" /\ PendIn(blocks', b)
                  \/ l \in {"true", "false"} /\ blocks'[b].term = "cond"
                  \/ l = "resume" /\ blocks'[b].term = "yield"
    PROVE  OffersIn(blocks', p, l)
<1>1. I(b) \in Seq(Nat)
  BY InstsIs
<1>2. PICK n : n = Len(I(b))
  OBVIOUS
<1>3. n \in Nat /\ Len(Append(I(b), p)) = n + 1 /\ Append(I(b), p)[n + 1] = p
  BY <1>1, <1>2, AppendIs
<1>4. PICK k \in Nat : k = n + 1
  BY <1>3
<1>5. k >= 1 /\ Len(blocks'[b].insts) = k /\ blocks'[b].insts[k] = p
  BY <1>3, <1>4
<1>6. b \in 1..N'
  BY InstsIs
<1> QED BY <1>5, <1>6, OfferLast

\* The points that a simple statement puts into blocks, and the exits they have there.
LEMMA AddsStatement ==
    ASSUME Ranged, Struct, NEW isDef \in BOOLEAN, Statement(isDef), NEW p, p = points + 1
    PROVE  Adds({p}) /\ OffersIn(blocks', p, "next")
<1>0. PICK c, S, T : c = Cur.block /\ S = {p} /\ T = {c}
  OBVIOUS
<1>1. N' = N /\ OnlyAt({c}) /\ Made(c, Append(I(c), p), Term(c), Tos(c))
  BY <1>0, StatementBlocks
<1>2. c \in 1..N /\ N \in Nat /\ PendIn(blocks, c)
  BY <1>0, TopIs
<1>3. blocks'[c].insts = Append(I(c), p) /\ PendIn(blocks', c)
  BY <1>1, <1>2 DEF Made, PendIn, Term
<1>4. OfferKept(c) /\ Extra(c, S)
  BY <1>0, <1>2, <1>3, MadeAppend
<1>5. Adds(S)
  <2>1. OnlyAt(T) /\ N <= N' /\ N' \in Nat /\ (\A b \in 1..N : b \in T => OfferKept(b) /\ Extra(b, S)) /\ (\A b \in (N + 1)..N' : Extra(b, S))
    BY <1>0, <1>1, <1>2, <1>4
  <2> QED BY <2>1, AddsIs
<1>6. OffersIn(blocks', p, "next")
  BY <1>1, <1>2, <1>3, OfferAppend
<1> QED BY <1>0, <1>5, <1>6

\* The points that yield or await puts into blocks, and the exits they have there.
LEMMA AddsSuspend ==
    ASSUME Ranged, Struct, Suspend, NEW p, p = points + 1
    PROVE  Adds({p}) /\ OffersIn(blocks', p, "resume")
<1>0. PICK c, k : c = Cur.block /\ k = N + 1
  OBVIOUS
<1>1. N' = k /\ OnlyAt({c}) /\ Made(c, Append(I(c), p), "yield", <<k>>) /\ Fresh(k)
  BY <1>0, SuspendBlocks
<1>01. PICK S, T : S = {p} /\ T = {c}
  OBVIOUS
<1>2. c \in 1..N /\ N \in Nat /\ PendIn(blocks, c)
  BY <1>0, TopIs
<1>3. blocks'[c].insts = Append(I(c), p) /\ blocks'[c].term = "yield"
  BY <1>1 DEF Made
<1>4. OfferKept(c) /\ Extra(c, S)
  BY <1>01, <1>2, <1>3, MadeAppend
<1>7. N <= N' /\ N' \in Nat /\ \A b \in (N + 1)..N' : b = k
  BY <1>0, <1>1, <1>2
<1>8. Extra(k, S)
  BY <1>1, MadeEmpty DEF Fresh, Made
<1>5. Adds(S)
  <2>1. OnlyAt(T) /\ (\A b \in 1..N : b \in T => OfferKept(b) /\ Extra(b, S)) /\ (\A b \in (N + 1)..N' : Extra(b, S))
    BY <1>01, <1>1, <1>4, <1>7, <1>8
  <2> QED BY <1>7, <2>1, AddsIs
<1>6. OffersIn(blocks', p, "resume")
  BY <1>2, <1>3, <1>7, OfferAppend
<1> QED BY <1>01, <1>5, <1>6

\* The points that return puts into blocks, and the exits they have there.
LEMMA AddsRet == ASSUME Ranged, Struct, Ret PROVE Adds({})
<1>0. PICK c, k : c = Cur.block /\ k = N + 1
  OBVIOUS
<1>1. /\ OnlyAt({c}) /\ Made(c, I(c), "ret", <<>>)
      /\ mode # "async" => N' = N
      /\ mode = "async" => N' = k /\ Made(k, <<>>, "ret", <<>>)
  BY <1>0, RetBlocks
<1>01. PICK S, T : S = {} /\ T = {c}
  OBVIOUS
<1>2. c \in 1..N /\ N \in Nat /\ PendIn(blocks, c)
  BY <1>0, TopIs
<1>4. OfferKept(c) /\ Extra(c, S)
  BY <1>1, <1>2, MadeSame DEF Made, PendIn
<1>7. N <= N' /\ N' \in Nat /\ \A b \in (N + 1)..N' : b = k /\ mode = "async"
  BY <1>0, <1>1, <1>2
<1>8. mode = "async" => Extra(k, S)
  BY <1>1, MadeEmpty DEF Made
<1>5. Adds(S)
  <2>1. OnlyAt(T) /\ (\A b \in 1..N : b \in T => OfferKept(b) /\ Extra(b, S)) /\ (\A b \in (N + 1)..N' : Extra(b, S))
    BY <1>01, <1>1, <1>4, <1>7, <1>8
  <2> QED BY <1>7, <2>1, AddsIs
<1> QED BY <1>01, <1>5

\* The points that break or continue puts into blocks, and the exits they have there.
LEMMA AddsJump ==
    ASSUME Ranged, Struct, NEW j \in {"break", "continue"}, NEW x \in 0..N, x # Nil, BreakOrContinue(j, x)
    PROVE  Adds({})
<1>0. PICK c, S, T : c = Cur.block /\ S = {} /\ T = {c}
  OBVIOUS
<1>2. c \in 1..N /\ N \in Nat /\ PendIn(blocks, c) /\ x \in Nat
  BY <1>0, TopIs
<1>1. N' = N /\ OnlyAt({c}) /\ Made(c, I(c), "br", <<x>>)
  BY <1>0, <1>2, JumpBlocks
<1>4. OfferKept(c) /\ Extra(c, S)
  BY <1>1, <1>2, MadeSame DEF Made, PendIn
<1>5. Adds(S)
  <2>1. OnlyAt(T) /\ N <= N' /\ N' \in Nat /\ (\A b \in 1..N : b \in T => OfferKept(b) /\ Extra(b, S)) /\ (\A b \in (N + 1)..N' : Extra(b, S))
    BY <1>0, <1>1, <1>2, <1>4
  <2> QED BY <2>1, AddsIs
<1> QED BY <1>0, <1>5

\* The points that the end of the function puts into blocks, and the exits they have there.
LEMMA AddsFinish == ASSUME Ranged, Struct, Finish PROVE Adds({})
<1>0. PICK c, S, T : c = Cur.block /\ S = {} /\ T = {c}
  OBVIOUS
<1>2. c \in 1..N /\ N \in Nat /\ PendIn(blocks, c)
  BY <1>0, TopIs
<1>1. /\ N' = N /\ OnlyAt({c})
      /\ mode = "func" => blocks' = blocks
      /\ mode # "func" => Made(c, I(c), "ret", <<>>)
  BY <1>0, FinishBlocks
<1>4. OfferKept(c) /\ Extra(c, S)
  BY <1>1, <1>2, MadeSame DEF Made, PendIn, I
<1>5. Adds(S)
  <2>1. OnlyAt(T) /\ N <= N' /\ N' \in Nat /\ (\A b \in 1..N : b \in T => OfferKept(b) /\ Extra(b, S)) /\ (\A b \in (N + 1)..N' : Extra(b, S))
    BY <1>0, <1>1, <1>2, <1>4
  <2> QED BY <2>1, AddsIs
<1> QED BY <1>0, <1>5

\* The points that opening an if puts into blocks, and the exits they have there.
LEMMA AddsOpenIf == ASSUME Ranged, Struct, OpenIf PROVE Adds({})
<1>0. PICK k : k = N + 1
  OBVIOUS
<1>1. N' = k /\ OnlyAt({}) /\ Fresh(k)
  BY <1>0, OpenIfBlocks
<1>01. PICK S, T : S = {} /\ T = {}
  OBVIOUS
<1>2. N \in Nat
  BY BaseIs
<1>7. N <= N' /\ N' \in Nat /\ \A b \in (N + 1)..N' : b = k
  BY <1>0, <1>1, <1>2
<1>8. Extra(k, S)
  BY <1>1, MadeEmpty DEF Fresh, Made
<1>5. Adds(S)
  <2>1. OnlyAt(T) /\ (\A b \in 1..N : b \in T => OfferKept(b) /\ Extra(b, S)) /\ (\A b \in (N + 1)..N' : Extra(b, S))
    BY <1>01, <1>1, <1>7, <1>8
  <2> QED BY <1>7, <2>1, AddsIs
<1> QED BY <1>01, <1>5

\* The points that opening an if/else puts into blocks, and the exits they have there.
LEMMA AddsOpenIfElse ==
    ASSUME Ranged, Struct, OpenIfElse, NEW p, p = points + 1
    PROVE  Adds({p}) /\ OffersIn(blocks', p, "true") /\ OffersIn(blocks', p, "false")
<1>0. PICK c, k1, k2, k3 : c = Cur.block /\ k1 = N + 1 /\ k2 = N + 2 /\ k3 = N + 3
  OBVIOUS
<1>1. N' = k3 /\ OnlyAt({c}) /\ Made(c, Append(I(c), p), "cond", <<k1, k2>>) /\ Fresh(k1) /\ Fresh(k2) /\ Fresh(k3)
  BY <1>0, OpenIfElseBlocks
<1>01. PICK S, T : S = {p} /\ T = {c}
  OBVIOUS
<1>2. c \in 1..N /\ N \in Nat /\ PendIn(blocks, c)
  BY <1>0, TopIs
<1>3. blocks'[c].insts = Append(I(c), p) /\ blocks'[c].term = "cond"
  BY <1>1 DEF Made
<1>4. OfferKept(c) /\ Extra(c, S)
  BY <1>01, <1>2, <1>3, MadeAppend
<1>7. N <= N' /\ N' \in Nat /\ \A b \in (N + 1)..N' : b = k1 \/ b = k2 \/ b = k3
  BY <1>0, <1>1, <1>2
<1>8. Extra(k1, S) /\ Extra(k2, S) /\ Extra(k3, S)
  BY <1>1, MadeEmpty DEF Fresh, Made
<1>5. Adds(S)
  <2>1. OnlyAt(T) /\ (\A b \in 1..N : b \in T => OfferKept(b) /\ Extra(b, S)) /\ (\A b \in (N + 1)..N' : Extra(b, S))
    BY <1>01, <1>1, <1>4, <1>7, <1>8
  <2> QED BY <1>7, <2>1, AddsIs
<1>6. OffersIn(blocks', p, "true") /\ OffersIn(blocks', p, "false")
  BY <1>2, <1>3, <1>7, OfferAppend
<1> QED BY <1>01, <1>5, <1>6

\* The points that opening a loop puts into blocks, and the exits they have there.
LEMMA AddsOpenFor ==
    ASSUME Ranged, Struct, NEW form \in Forms, OpenFor(form), NEW p, p = points + 1, NEW q, q = points + 2
    PROVE  /\ "def" \notin form /\ "cond" \notin form => Adds({p}) /\ OffersIn(blocks', p, "next")
           /\ "def" \in form /\ "cond" \notin form => Adds({p, q}) /\ OffersIn(blocks', p, "next") /\ OffersIn(blocks', q, "next")
           /\ "def" \notin form /\ "cond" \in form => Adds({p}) /\ OffersIn(blocks', p, "true") /\ OffersIn(blocks', p, "false")
           /\ "def" \in form /\ "cond" \in form => Adds({p, q}) /\ OffersIn(blocks', p, "next") /\ OffersIn(blocks', q, "true") /\ OffersIn(blocks', q, "false")
<1>0. PICK c, k1, k2, k3 : c = Cur.block /\ k1 = N + 1 /\ k2 = N + 2 /\ k3 = N + 3
  OBVIOUS
<1>1. ForMade(form, c, p, q, k1, k2, k3)
  BY <1>0, OpenForBlocks
<1>2. c \in 1..N /\ N \in Nat /\ PendIn(blocks, c)
  BY <1>0, TopIs
<1>20. points \in Nat
  BY BaseIs
<1>3. N' = k3 /\ OnlyAt({c}) /\ Fresh(k1) /\ Fresh(k3)
  BY <1>1 DEF ForMade
<1>7. N <= N' /\ N' \in Nat /\ (\A b \in (N + 1)..N' : b = k1 \/ b = k2 \/ b = k3) /\ k2 \in 1..N' /\ k2 # c /\ k2 \notin 1..N
  BY <1>0, <1>2, <1>3
<1>8. ASSUME NEW S, OfferKept(c), Extra(c, S), Extra(k2, S) PROVE Adds(S)
  <2>0. PICK T : T = {c}
    OBVIOUS
  <2>1. Extra(k1, S) /\ Extra(k3, S)
    BY <1>3, MadeEmpty DEF Fresh, Made
  <2>2. OnlyAt(T) /\ (\A b \in 1..N : b \in T => OfferKept(b) /\ Extra(b, S)) /\ (\A b \in (N + 1)..N' : Extra(b, S))
    BY <2>0, <1>3, <1>7, <1>8, <2>1
  <2> QED BY <1>7, <2>2, AddsIs
<1>4. CASE "def" \notin form /\ "cond" \notin form
  <2>1. Made(c, I(c), "br", <<k2>>) /\ Made(k2, <<p>>, "none", <<>>)
    BY <1>1, <1>4 DEF ForMade
  <2>2. OfferKept(c) /\ Extra(c, {p})
    BY <1>2, <2>1, MadeSame DEF Made, PendIn
  <2>3. blocks'[k2].insts = <<p>> /\ Len(<<p>>) = 1 /\ <<p>>[1] = p /\ 1..1 = {1}
    BY <2>1 DEF Made
  <2>4. Extra(k2, {p})
    BY <2>3 DEF Extra
  <2>5. OffersIn(blocks', p, "next")
    <3>1. PendIn(blocks', k2)
      BY <2>1 DEF Made, PendIn
    <3>2. PICK n \in Nat : n = 1
      OBVIOUS
    <3>3. n >= 1 /\ Len(blocks'[k2].insts) = n /\ blocks'[k2].insts[n] = p
      BY <2>3, <3>2
    <3> QED BY <1>7, <3>1, <3>3, OfferLast
  <2> QED BY <1>4, <1>8, <2>2, <2>4, <2>5
<1>9. CASE "def" \in form /\ "cond" \notin form
  <2>1. Made(c, Append(I(c), p), "br", <<k2>>) /\ Made(k2, <<q>>, "none", <<>>)
    BY <1>1, <1>9 DEF ForMade
  <2>2. blocks'[c].insts = Append(I(c), p) /\ PendIn(blocks', c)
    BY <2>1 DEF Made, PendIn
  <2>3. OfferKept(c) /\ Extra(c, {p})
    BY <1>2, <2>2, MadeAppend
  <2>4. blocks'[k2].insts = <<q>> /\ Len(<<q>>) = 1 /\ <<q>>[1] = q /\ 1..1 = {1}
    BY <2>1 DEF Made
  <2>5. Extra(c, {p, q}) /\ Extra(k2, {p, q})
    BY <2>3, <2>4 DEF Extra
  <2>6. OffersIn(blocks', p, "next")
    BY <1>2, <1>7, <2>2, OfferAppend
  <2>7. OffersIn(blocks', q, "next")
    <3>1. PendIn(blocks', k2)
      BY <2>1 DEF Made, PendIn
    <3>2. PICK n \in Nat : n = 1
      OBVIOUS
    <3>3. n >= 1 /\ Len(blocks'[k2].insts) = n /\ blocks'[k2].insts[n] = q
      BY <2>4, <3>2
    <3> QED BY <1>7, <3>1, <3>3, OfferLast
  <2> QED BY <1>8, <1>9, <2>3, <2>5, <2>6, <2>7
<1>5. CASE "def" \notin form /\ "cond" \in form
  <2>1. Made(c, Append(I(c), p), "cond", <<k2, k3>>) /\ Fresh(k2)
    BY <1>1, <1>5 DEF ForMade
  <2>2. blocks'[c].insts = Append(I(c), p) /\ blocks'[c].term = "cond"
    BY <2>1 DEF Made
  <2>3. OfferKept(c) /\ Extra(c, {p})
    BY <1>2, <2>2, MadeAppend
  <2>4. Extra(k2, {p})
    BY <2>1, MadeEmpty DEF Fresh, Made
  <2>5. OffersIn(blocks', p, "true") /\ OffersIn(blocks', p, "false")
    BY <1>2, <1>7, <2>2, OfferAppend
  <2> QED BY <1>5, <1>8, <2>3, <2>4, <2>5
<1>6. CASE "def" \in form /\ "cond" \in form
  <2>1. Made(c, Append(Append(I(c), p), q), "cond", <<k2, k3>>) /\ Fresh(k2)
    BY <1>1, <1>6 DEF ForMade
  <2>2. blocks'[c].insts = Append(Append(I(c), p), q) /\ blocks'[c].term = "cond"
    BY <2>1 DEF Made
  <2>0. p \in Nat
    BY <1>20
  <2>3. OfferKept(c) /\ Extra(c, {p, q})
    BY <1>2, <2>0, <2>2, MadeAppend2
  <2>4. Extra(k2, {p, q})
    BY <2>1, MadeEmpty DEF Fresh, Made
  <2>6. I(c) \in Seq(Nat) /\ Append(I(c), p) \in Seq(Nat)
    BY <1>2, <2>0, InstsIs, AppendProperties
  <2>7. PICK r, n, k : r = Append(I(c), p) /\ n = Len(I(c)) /\ k = Len(r)
    OBVIOUS
  <2>8. n \in Nat /\ Len(r) = n + 1 /\ r[n + 1] = p
    BY <2>6, <2>7, AppendIs
  <2>9. k \in Nat /\ Len(Append(r, q)) = k + 1 /\ Append(r, q)[k + 1] = q /\ \A i \in 1..k : Append(r, q)[i] = r[i]
    BY <2>6, <2>7, AppendIs
  <2>10. PICK z \in Nat : z = k + 1
    BY <2>9
  <2>11. /\ z >= 1 /\ Len(blocks'[c].insts) = z /\ blocks'[c].insts[z] = q
         /\ k \in 1..z /\ k < z /\ blocks'[c].insts[k] = p /\ c \in 1..N'
    BY <1>2, <1>7, <2>2, <2>7, <2>8, <2>9, <2>10
  <2>12. OffersIn(blocks', q, "true") /\ OffersIn(blocks', q, "false")
    BY <2>2, <2>11, OfferLast
  <2>13. OffersIn(blocks', p, "next")
    BY <2>11 DEF OffersIn, OffersAt, N
  <2> QED BY <1>6, <1>8, <2>3, <2>4, <2>12, <2>13
<1> QED BY <1>4, <1>5, <1>6, <1>9

\* The points that closing an if puts into blocks, and the exits they have there.
LEMMA AddsCloseIf ==
    ASSUME Ranged, Struct, CloseIf, NEW p, p = Cur.point
    PROVE  Adds({p}) /\ OffersIn(blocks', p, "true") /\ OffersIn(blocks', p, "false")
<1>0. PICK b, a, k : b = Parent.block /\ a = Cur.first /\ k = N + 1
  OBVIOUS
<1>1. Depth > 1 /\ a \in Live(Cur)
  BY <1>0 DEF CloseIf, Live
<1>2. b \in 1..N /\ N \in Nat /\ PendIn(blocks, b) /\ a \in 1..N /\ a # b
  BY <1>0, <1>1, ParentIs
<1>3. IfClosed(a, b, k)
  BY <1>0, <1>2, CloseIfBlocks
<1>4. N' = k /\ OnlyAt({a, b}) /\ blocks'[b].insts = Append(I(b), p) /\ blocks'[b].term = "cond" /\ Shut(a, k) /\ (Depth = 2 \/ Depth > 2 => blocks'[k].insts = <<>>)
  BY <1>3 DEF IfClosed, Made, Fresh
<1>5. Depth = 2 \/ Depth > 2
  BY <1>1, BaseIs
<1>01. PICK S, T : S = {p} /\ T = {a, b}
  OBVIOUS
<1>6. OfferKept(b) /\ Extra(b, S)
  BY <1>01, <1>2, <1>4, MadeAppend
<1>8. OfferKept(a) /\ Extra(a, S)
  BY <1>2, <1>4, MadeShut
<1>9. Extra(k, S)
  BY <1>4, <1>5, MadeEmpty
<1>7. N <= N' /\ N' \in Nat /\ \A x \in (N + 1)..N' : x = k
  BY <1>0, <1>2, <1>4
<1>10. Adds(S)
  <2>1. OnlyAt(T) /\ (\A x \in 1..N : x \in T => OfferKept(x) /\ Extra(x, S)) /\ (\A x \in (N + 1)..N' : Extra(x, S))
    BY <1>01, <1>4, <1>6, <1>7, <1>8, <1>9
  <2> QED BY <1>7, <2>1, AddsIs
<1>11. OffersIn(blocks', p, "true") /\ OffersIn(blocks', p, "false")
  BY <1>2, <1>4, <1>7, OfferAppend
<1> QED BY <1>01, <1>10, <1>11

\* The points that closing an if/else puts into blocks, and the exits they have there.
LEMMA AddsCloseIfElse == ASSUME Ranged, Struct, CloseIfElse PROVE Adds({})
<1>0. PICK e, a, f : e = Cur.end /\ a = Cur.cond /\ f = Cur.first
  OBVIOUS
<1>1. e = Parent.block /\ a # f /\ e # a /\ e # f
  BY <1>0, StructCloseIfElse
<1>2. /\ N' = N /\ OnlyAt({a, f, e}) /\ Shut(a, e) /\ Shut(f, e) /\ blocks'[e].insts = I(e)
      /\ Depth = 2 => blocks'[e] = blocks[e]
      /\ Depth > 2 => blocks'[e].term = "br" /\ blocks'[e].to = <<stack[Depth - 2].block>>
  BY <1>0, <1>1, CloseIfElseBlocks
<1>3. Depth > 1 /\ a \in Live(Cur) /\ f \in Live(Cur)
  BY <1>0 DEF CloseIfElse, Live, HasCond
<1>4. e \in 1..N /\ N \in Nat /\ PendIn(blocks, e) /\ a \in 1..N /\ f \in 1..N
  BY <1>1, <1>3, ParentIs
<1>5. Depth = 2 \/ Depth > 2
  BY <1>3, BaseIs
<1>01. PICK S, T : S = {} /\ T = {a, f, e}
  OBVIOUS
<1>6. OfferKept(a) /\ Extra(a, S) /\ OfferKept(f) /\ Extra(f, S)
  BY <1>2, <1>4, MadeShut
<1>7. OfferKept(e) /\ Extra(e, S)
  BY <1>2, <1>4, <1>5, MadeSame DEF PendIn
<1>8. Adds(S)
  <2>1. OnlyAt(T) /\ N <= N' /\ N' \in Nat /\ (\A x \in 1..N : x \in T => OfferKept(x) /\ Extra(x, S)) /\ (\A x \in (N + 1)..N' : Extra(x, S))
    BY <1>01, <1>2, <1>4, <1>6, <1>7
  <2> QED BY <2>1, AddsIs
<1> QED BY <1>01, <1>8

\* The points that closing a loop puts into blocks, and the exits they have there.
LEMMA AddsCloseFor ==
    ASSUME Ranged, Formed, Struct, CloseFor, NEW p, p = Cur.point, NEW q, q = Cur.post
    PROVE  /\ "step" \in Cur.form /\ "cond" \in Cur.form => Adds({q, p}) /\ OffersIn(blocks', q, "next")
           /\ "step" \notin Cur.form /\ "cond" \in Cur.form => Adds({p})
           /\ "step" \in Cur.form /\ "cond" \notin Cur.form => Adds({q}) /\ OffersIn(blocks', q, "next")
           /\ "step" \notin Cur.form /\ "cond" \notin Cur.form => Adds({})
           /\ Cur.form \in Forms
<1>0. PICK a, c : a = Cur.cond /\ c = Cur.block
  OBVIOUS
<1>1. a # c /\ I(a) = <<>> /\ Cur.form \in Forms
  BY <1>0, StructCloseFor
<1>2. /\ N' = N /\ OnlyAt({a, c}) /\ Made(c, I(c), "br", <<a>>)
      /\ "step" \in Cur.form /\ "cond" \in Cur.form => Made(a, <<Cur.post, Cur.point>>, "cond", <<Cur.first, Cur.end>>)
      /\ "step" \notin Cur.form /\ "cond" \in Cur.form => Made(a, <<Cur.point>>, "cond", <<Cur.first, Cur.end>>)
      /\ "step" \in Cur.form /\ "cond" \notin Cur.form => Made(a, <<Cur.post>>, "br", <<Cur.first>>)
      /\ "step" \notin Cur.form /\ "cond" \notin Cur.form => Made(a, <<>>, "br", <<Cur.first>>)
  BY <1>0, <1>1, CloseForBlocks
<1>3. Cur.kind = "body" /\ HasCond(Cur) /\ a \in Live(Cur) /\ Cur.point \in Nat
  <2>1. Cur.kind = "body"
    BY DEF CloseFor
  <2>2. Cur.point \in Nat
    BY BaseIs, CurIs DEF Scope
  <2> QED BY <1>0, <2>1, <2>2 DEF HasCond, Live
<1>4. c \in 1..N /\ N \in Nat /\ PendIn(blocks, c) /\ a \in 1..N /\ BlankIn(blocks, a)
  BY <1>0, <1>3, TopIs DEF Shaped
<1>5. PendIn(blocks, a) /\ N' \in Nat /\ N <= N' /\ a \in 1..N' /\ Len(I(a)) = 0
  BY <1>1, <1>2, <1>4 DEF BlankIn, PendIn
<1>6. ASSUME NEW S, OfferKept(a), Extra(a, S) PROVE Adds(S)
  <2>0. PICK T : T = {a, c}
    OBVIOUS
  <2>1. OfferKept(c) /\ Extra(c, S)
    BY <1>2, <1>4, MadeSame DEF Made, PendIn
  <2>2. OnlyAt(T) /\ N <= N' /\ N' \in Nat /\ (\A x \in 1..N : x \in T => OfferKept(x) /\ Extra(x, S)) /\ (\A x \in (N + 1)..N' : Extra(x, S))
    BY <2>0, <1>2, <1>4, <1>6, <2>1
  <2> QED BY <2>2, AddsIs
<1>7. CASE "step" \in Cur.form /\ "cond" \in Cur.form
  <2>1. blocks'[a].insts = <<q, p>> /\ Len(<<q, p>>) = 2 /\ <<q, p>>[1] = q /\ <<q, p>>[2] = p /\ 1..2 = {1, 2}
    BY <1>2, <1>7 DEF Made
  <2>2. Extra(a, {q, p})
    BY <2>1 DEF Extra
  <2>3. OfferKept(a)
    BY <1>5, <2>1 DEF OfferKept, Longer
  <2>4. OffersIn(blocks', q, "next")
    <3>1. 1 \in 1..Len(blocks'[a].insts) /\ blocks'[a].insts[1] = q /\ 1 < Len(blocks'[a].insts)
      BY <2>1
    <3> QED BY <1>5, <3>1 DEF OffersIn, OffersAt, N
  <2> QED BY <1>1, <1>6, <1>7, <2>2, <2>3, <2>4
<1>8. CASE "step" \notin Cur.form /\ "cond" \in Cur.form
  <2>1. blocks'[a].insts = <<p>> /\ Len(<<p>>) = 1 /\ <<p>>[1] = p /\ 1..1 = {1}
    BY <1>2, <1>8 DEF Made
  <2>2. Extra(a, {p})
    BY <2>1 DEF Extra
  <2>3. OfferKept(a)
    BY <1>5, <2>1 DEF OfferKept, Longer
  <2> QED BY <1>1, <1>6, <1>8, <2>2, <2>3
<1>10. CASE "step" \in Cur.form /\ "cond" \notin Cur.form
  <2>1. blocks'[a].insts = <<q>> /\ Len(<<q>>) = 1 /\ <<q>>[1] = q /\ 1..1 = {1} /\ PendIn(blocks', a)
    BY <1>2, <1>10 DEF Made, PendIn
  <2>2. Extra(a, {q})
    BY <2>1 DEF Extra
  <2>3. OfferKept(a)
    BY <1>5, <2>1 DEF OfferKept, Longer
  <2>4. OffersIn(blocks', q, "next")
    <3>1. PICK n \in Nat : n = 1
      OBVIOUS
    <3>2. n >= 1 /\ Len(blocks'[a].insts) = n /\ blocks'[a].insts[n] = q
      BY <2>1, <3>1
    <3> QED BY <1>5, <2>1, <3>2, OfferLast
  <2> QED BY <1>1, <1>6, <1>10, <2>2, <2>3, <2>4
<1>9. CASE "step" \notin Cur.form /\ "cond" \notin Cur.form
  <2>1. blocks'[a].insts = <<>> /\ blocks'[a].term = "br"
    BY <1>2, <1>9 DEF Made
  <2>2. OfferKept(a) /\ Extra(a, {})
    BY <1>1, <1>4, <1>5, <2>1, MadeSame DEF PendIn
  <2> QED BY <1>1, <1>6, <1>9, <2>2
<1> QED BY <1>1, <1>7, <1>8, <1>9, <1>10

\* A point that may stand in a block still may.
LEMMA UsedStep ==
    ASSUME Ranged, points' \in Nat, points <= points',
           \A d \in 1..Len(stack') : stack'[d].post = 0 \/ stack'[d].post \in NewPoints \/ \E k \in 1..Depth : stack'[d].post = stack[k].post,
           NEW p, UsedIn(stack, points, p)
    PROVE  UsedIn(stack', points', p)
<1>1. points \in Nat
  BY BaseIs
<1>2. p \in 1..points' /\ p # 0 /\ p \notin NewPoints
  BY <1>1 DEF UsedIn, NewPoints
<1>3. \A k \in 1..Depth : p # stack[k].post
  BY DEF UsedIn, Depth
<1> QED BY <1>2, <1>3 DEF UsedIn

\* A new point may.
LEMMA NewUsed ==
    ASSUME Ranged, Formed, points' \in Nat, NEW p \in NewPoints,
           \A d \in 1..Len(stack') : stack'[d].post # p \/ \E k \in 1..Depth : stack'[d].post = stack[k].post
    PROVE  UsedIn(stack', points', p)
<1>1. points \in Nat
  BY BaseIs
<1>2. p \in 1..points' /\ p \notin 0..points
  BY <1>1 DEF NewPoints
<1>3. \A k \in 1..Depth : stack[k].post \in 0..points
  BY DEF Formed, FormedScope
<1> QED BY <1>2, <1>3 DEF UsedIn

\* What is left to show of Emitted.
LEMMA EmittedStep ==
    ASSUME Ranged, Emitted, points' \in Nat, points <= points',
           \A d \in 1..Len(stack') : stack'[d].post = 0 \/ stack'[d].post \in NewPoints \/ \E k \in 1..Depth : stack'[d].post = stack[k].post,
           NEW S, Adds(S), \A p \in S : UsedIn(stack', points', p),
           \A d \in 2..Len(stack') : UsedIn(stack, points, stack'[d].point) \/ UsedIn(stack', points', stack'[d].point)
    PROVE  Emitted'
<1>1. \A p : UsedIn(stack, points, p) => UsedIn(stack', points', p)
  BY UsedStep
<1>2. ASSUME NEW b \in 1..N', NEW i \in 1..Len(blocks'[b].insts) PROVE UsedIn(stack', points', blocks'[b].insts[i])
  <2>1. (b \in 1..N /\ i \in 1..Len(I(b)) /\ blocks'[b].insts[i] = I(b)[i]) \/ blocks'[b].insts[i] \in S
    BY <1>2 DEF Adds, Extra
  <2> QED BY <1>1, <2>1 DEF Emitted
<1>3. \A d \in 2..Len(stack') : UsedIn(stack', points', stack'[d].point)
  BY <1>1
<1> QED BY <1>2, <1>3 DEF Emitted, I, Depth

\* the depth is kept or a scope is opened at c
LEMMA EmittedTop ==
    ASSUME Ranged, Formed, Emitted, points' \in Nat, points <= points', Len(stack') \in {Depth, Depth + 1},
           \A d \in 1..Depth : Core(stack[d], stack'[d]),
           NEW S, Adds(S), S \subseteq NewPoints,
           Len(stack') = Depth + 1 => /\ stack'[Depth + 1].point \in NewPoints /\ stack'[Depth + 1].post # stack'[Depth + 1].point
                                      /\ stack'[Depth + 1].post = 0 \/ (stack'[Depth + 1].post \in NewPoints /\ stack'[Depth + 1].post \notin S)
    PROVE  Emitted'
<1>1. Depth \in Nat /\ points \in Nat
  BY BaseIs
<1>2. \A d \in 1..Len(stack') : d \in 1..Depth \/ (d = Depth + 1 /\ Len(stack') = Depth + 1)
  BY <1>1
<1>3. \A d \in 1..Depth : stack'[d].post = stack[d].post /\ stack'[d].point = stack[d].point
  BY DEF Core
<1>4. \A d \in 1..Len(stack') : stack'[d].post = 0 \/ stack'[d].post \in NewPoints \/ \E k \in 1..Depth : stack'[d].post = stack[k].post
  BY <1>2, <1>3
<1>0. \A p \in NewPoints : p # 0
  BY <1>1 DEF NewPoints
<1>5. ASSUME NEW p \in NewPoints, Len(stack') = Depth + 1 => p # stack'[Depth + 1].post PROVE UsedIn(stack', points', p)
  <2>1. \A d \in 1..Len(stack') : stack'[d].post # p \/ \E k \in 1..Depth : stack'[d].post = stack[k].post
    BY <1>2, <1>3, <1>5
  <2> QED BY <2>1, NewUsed
<1>6. \A p \in S : UsedIn(stack', points', p)
  BY <1>0, <1>5
<1>7. \A d \in 2..Len(stack') : UsedIn(stack, points, stack'[d].point) \/ UsedIn(stack', points', stack'[d].point)
  <2>1. ASSUME NEW d \in 2..Len(stack') PROVE UsedIn(stack, points, stack'[d].point) \/ UsedIn(stack', points', stack'[d].point)
    <3>1. d \in 1..Len(stack') /\ (d \in 1..Depth => d \in 2..Depth)
      BY <1>1
    <3>2. CASE d \in 1..Depth
      BY <1>3, <3>1, <3>2 DEF Emitted
    <3>3. CASE d \notin 1..Depth
      BY <1>2, <1>5, <3>1, <3>3
    <3> QED BY <3>2, <3>3
  <2> QED BY <2>1
<1> QED BY <1>4, <1>6, <1>7, EmittedStep

\* Emitted when a scope is closed.
LEMMA EmittedPop ==
    ASSUME Ranged, Formed, Emitted, points' = points, Depth > 1, NEW b \in Nat, NEW x \in {"if", "open"}, Pop(b, x),
           NEW S, Adds(S), \A p \in S : p = Cur.point \/ (p = Cur.post /\ p # 0 /\ Apart)
    PROVE  Emitted'
<1>0. PICK s, m : s = stack'[Depth - 1] /\ m = Depth - 1
  OBVIOUS
<1>1. Depth \in Nat /\ Typed /\ m \in Nat /\ m \in 1..Depth /\ Parent = stack[m] /\ points \in Nat /\ Cur = stack[Depth] /\ Depth \in 2..Depth /\ Depth \in 1..Depth
  BY <1>0, BaseIs DEF Parent, Cur
<1>2. Len(stack') = m /\ (\A d \in 1..(Depth - 2) : stack'[d] = stack[d]) /\ Core(Parent, s)
  BY <1>0, <1>1, PopStack
<1>3. \A d \in 1..m : d \in 1..(Depth - 2) \/ d = m
  BY <1>0, <1>1
<1>4. \A d \in 1..m : stack'[d].post = stack[d].post /\ stack'[d].point = stack[d].point
  BY <1>0, <1>1, <1>2, <1>3 DEF Core
<1>5. \A d \in 1..m : d \in 1..Depth /\ d # Depth
  BY <1>0, <1>1
<1>6. \A d \in 1..Len(stack') : stack'[d].post = 0 \/ stack'[d].post \in NewPoints \/ \E k \in 1..Depth : stack'[d].post = stack[k].post
  BY <1>2, <1>4, <1>5
<1>7. \A d \in 2..Len(stack') : UsedIn(stack, points, stack'[d].point)
  <2>1. \A d \in 2..m : d \in 1..m /\ d \in 2..Depth
    BY <1>0, <1>1
  <2> QED BY <1>2, <1>4, <2>1 DEF Emitted
<1>8. points' \in Nat /\ points <= points'
  BY <1>1
<1>9. UsedIn(stack', points', Cur.point)
  <2>1. UsedIn(stack, points, Cur.point)
    BY <1>1 DEF Emitted
  <2> QED BY <1>6, <1>8, <2>1, UsedStep
<1>10. ASSUME Cur.post # 0, Apart PROVE UsedIn(stack', points', Cur.post)
  <2>1. Cur.post \in 1..points
    BY <1>1, <1>10 DEF Formed, FormedScope
  <2>2. ASSUME NEW d \in 1..m, stack'[d].post = Cur.post PROVE FALSE
    <3>1. d \in 1..Depth /\ d # Depth /\ stack[d].post = Cur.post
      BY <1>4, <1>5, <2>2
    <3>2. PICK e : e = <<Cur.post, "next">>
      OBVIOUS
    <3>3. e \in Held(stack[d]) /\ e \in Held(Cur)
      BY <1>10, <3>1, <3>2 DEF Held, Late
    <3> QED BY <1>1, <1>10, <3>1, <3>3 DEF Apart
  <2> QED BY <1>2, <2>1, <2>2 DEF UsedIn
<1>11. \A p \in S : UsedIn(stack', points', p)
  BY <1>9, <1>10
<1> QED BY <1>6, <1>7, <1>8, <1>11, EmittedStep

\* Exits that were offered stay so.
LEMMA SourcedStep ==
    ASSUME Ranged, Sourced, NEW S, Adds(S),
           \A p, l : ByIf(stack, p, l) => Offered(blocks', stack', p, l),
           \A e \in exits' : Offered(blocks, stack, e[1], e[2]) \/ Offered(blocks', stack', e[1], e[2]),
           \A f \in flow' : f \in flow \/ Offered(blocks, stack, f[1], f[2]) \/ Offered(blocks', stack', f[1], f[2]),
           \A d \in 1..Len(stack') : \A e \in Dangling(stack'[d]) \union Other(stack'[d]) :
               Offered(blocks, stack, e[1], e[2]) \/ Offered(blocks', stack', e[1], e[2])
    PROVE  Sourced'
<1>1. ASSUME NEW p, NEW l, Offered(blocks, stack, p, l) PROVE Offered(blocks', stack', p, l)
  <2>1. OffersIn(blocks, p, l) => OffersIn(blocks', p, l)
    BY OffersStay DEF Adds
  <2> QED BY <1>1, <2>1 DEF Offered
<1> QED BY <1>1 DEF Sourced, Depth

\* Sourced when the depth is kept or a scope is opened.
LEMMA SourcedTop ==
    ASSUME Ranged, Sourced, NEW S, Adds(S), Len(stack') \in {Depth, Depth + 1},
           \A d \in 1..Depth : Core(stack[d], stack'[d]) /\ Dangling(stack'[d]) \subseteq Dangling(stack[d]) \union exits,
           Len(stack') = Depth + 1 => \A e \in Dangling(stack'[Depth + 1]) \union Other(stack'[Depth + 1]) : Offered(blocks', stack', e[1], e[2]),
           \A e \in exits' : Offered(blocks', stack', e[1], e[2]),
           \A f \in flow' : f \in flow \/ (\E e \in exits : f[1] = e[1] /\ f[2] = e[2]) \/ Offered(blocks', stack', f[1], f[2])
    PROVE  Sourced'
<1>1. Depth \in Nat
  BY BaseIs
<1>2. \A d \in 1..Len(stack') : d \in 1..Depth \/ (d = Depth + 1 /\ Len(stack') = Depth + 1)
  BY <1>1
<1>3. ASSUME NEW p, NEW l, ByIf(stack, p, l) PROVE Offered(blocks', stack', p, l)
  <2>1. PICK d \in 2..Depth : stack[d].kind = "if" /\ stack[d].point = p /\ l \in {"true", "false"}
    BY <1>3 DEF ByIf, Depth
  <2>2. d \in 1..Depth /\ d \in 2..Len(stack')
    BY <1>1
  <2>3. stack'[d].kind = "if" /\ stack'[d].point = p
    BY <2>1, <2>2 DEF Core
  <2> QED BY <2>1, <2>2, <2>3 DEF Offered, ByIf
<1>4. \A d \in 1..Depth : Other(stack'[d]) = Other(stack[d])
  BY DEF Core, Other
<1>5. \A d \in 1..Len(stack') : \A e \in Dangling(stack'[d]) \union Other(stack'[d]) :
               Offered(blocks, stack, e[1], e[2]) \/ Offered(blocks', stack', e[1], e[2])
  BY <1>2, <1>4 DEF Sourced
<1>6. \A f \in flow' : f \in flow \/ Offered(blocks, stack, f[1], f[2]) \/ Offered(blocks', stack', f[1], f[2])
  BY DEF Sourced
<1> QED BY <1>3, <1>5, <1>6, SourcedStep

\* New flow starts at an exit.
LEMMA ToFrom == \A q : \A f \in To(q) : \E e \in exits : f[1] = e[1] /\ f[2] = e[2]
  BY DEF To

\* Sourced when a scope is closed.
LEMMA SourcedPop ==
    ASSUME Ranged, Sourced, Depth > 1, NEW b \in Nat, NEW x \in {"if", "open"}, Pop(b, x), NEW S, Adds(S),
           Cur.kind = "if" => OffersIn(blocks', Cur.point, "true") /\ OffersIn(blocks', Cur.point, "false"),
           exits' \subseteq exits \union Dangling(Cur),
           \A f \in flow' : f \in flow \/ Offered(blocks, stack, f[1], f[2]) \/ Offered(blocks', stack', f[1], f[2])
    PROVE  Sourced'
<1>0. PICK s, m : s = stack'[Depth - 1] /\ m = Depth - 1
  OBVIOUS
<1>1. Depth \in Nat /\ Typed /\ m \in Nat /\ m \in 1..Depth /\ Parent = stack[m] /\ Cur = stack[Depth] /\ Depth \in 1..Depth
  BY <1>0, BaseIs DEF Parent, Cur
<1>2. Len(stack') = m /\ (\A d \in 1..(Depth - 2) : stack'[d] = stack[d]) /\ Core(Parent, s) /\ Loops(Parent, s)
  BY <1>0, <1>1, PopStack
<1>3. \A d \in 1..m : d \in 1..(Depth - 2) \/ d = m
  BY <1>0, <1>1
<1>4. \A d \in 1..m : Core(stack[d], stack'[d]) /\ Loops(stack[d], stack'[d]) /\ d \in 1..Depth
  BY <1>0, <1>1, <1>2, <1>3, SelfIs
<1>5. \A d \in 1..m : Dangling(stack'[d]) = Dangling(stack[d]) /\ Other(stack'[d]) = Other(stack[d])
  BY <1>4 DEF Core, Loops, Dangling, Other
<1>6. ASSUME NEW p, NEW l, ByIf(stack, p, l) PROVE Offered(blocks', stack', p, l)
  <2>1. PICK d \in 2..Depth : stack[d].kind = "if" /\ stack[d].point = p /\ l \in {"true", "false"}
    BY <1>6 DEF ByIf, Depth
  <2>2. CASE d = Depth
    BY <1>1, <2>1, <2>2 DEF Offered
  <2>3. CASE d # Depth
    <3>1. d \in 1..m /\ d \in 2..Len(stack')
      BY <1>0, <1>1, <1>2, <2>3
    <3>2. stack'[d].kind = "if" /\ stack'[d].point = p
      BY <1>4, <2>1, <3>1 DEF Core
    <3> QED BY <2>1, <3>1, <3>2 DEF Offered, ByIf
  <2> QED BY <2>2, <2>3
<1>7. \A d \in 1..Len(stack') : \A e \in Dangling(stack'[d]) \union Other(stack'[d]) : Offered(blocks, stack, e[1], e[2])
  BY <1>2, <1>4, <1>5 DEF Sourced
<1>8. \A e \in exits' : Offered(blocks, stack, e[1], e[2])
  BY <1>1 DEF Sourced
<1> QED BY <1>6, <1>7, <1>8, SourcedStep

\* Where the points are, and which exits they have.
Placed == Emitted /\ Sourced

\* A step of the current scope that makes at most one point.
LEMMA PlacedTop ==
    ASSUME Ranged, Formed, Placed, points' \in Nat, points <= points', Len(stack') = Depth,
           \A d \in 1..Depth : Core(stack[d], stack'[d]) /\ Dangling(stack'[d]) \subseteq Dangling(stack[d]) \union exits,
           NEW S, Adds(S), S \subseteq NewPoints,
           \A e \in exits' : OffersIn(blocks', e[1], e[2]),
           \A f \in flow' : f \in flow \/ \E e \in exits : f[1] = e[1] /\ f[2] = e[2]
    PROVE  Placed'
<1>1. Depth \in Nat /\ Len(stack') \in {Depth, Depth + 1} /\ Len(stack') # Depth + 1
  BY BaseIs
<1>2. Emitted'
  BY <1>1, EmittedTop DEF Placed
<1>3. \A e \in exits' : Offered(blocks', stack', e[1], e[2])
  BY DEF Offered
<1>4. Sourced'
  BY <1>1, <1>3, SourcedTop DEF Placed
<1> QED BY <1>2, <1>4 DEF Placed

\* A scope that goes on keeps its exits.
LEMMA DanglingSame == ASSUME NEW s, NEW t, Core(s, t), Loops(s, t) PROVE Dangling(t) = Dangling(s)
  BY DEF Core, Loops, Dangling

\* A step that hands out one point.
LEMMA OnePoint == ASSUME Typed, NEW p, p = points + 1, points' = p PROVE points' \in Nat /\ points <= points' /\ {p} \subseteq NewPoints
  BY Sizes DEF NewPoints

\* New flow starts at an exit.
LEMMA FlowTo == ASSUME NEW q, flow' = flow \union To(q) PROVE \A f \in flow' : f \in flow \/ \E e \in exits : f[1] = e[1] /\ f[2] = e[2]
  BY ToFrom

\* A simple statement keeps Placed.
LEMMA PlacedStatement ==
    ASSUME Ranged, Formed, Struct, Placed, NEW isDef \in BOOLEAN, Statement(isDef)
    PROVE  Placed'
<1>0. PICK p, t : p = points + 1 /\ t = stack'[Depth]
  OBVIOUS
<1>1. Typed /\ points' = p /\ flow' = flow \union To(p) /\ exits' = IF Reached THEN {<<p, "next">>} ELSE {}
  BY <1>0, BaseIs DEF Statement
<1>2. Len(stack') = Depth /\ (\A d \in 1..Depth : d # Depth => stack'[d] = stack[d]) /\ Core(Cur, t) /\ Loops(Cur, t)
  BY <1>0, <1>1, StatementStack
<1>3. \A d \in 1..Depth : Core(stack[d], stack'[d]) /\ Loops(stack[d], stack'[d])
  BY <1>0, <1>2, SelfIs DEF Cur
<1>4. \A d \in 1..Depth : Core(stack[d], stack'[d]) /\ Dangling(stack'[d]) \subseteq Dangling(stack[d]) \union exits
  BY <1>3, DanglingSame
<1>5. Adds({p}) /\ OffersIn(blocks', p, "next")
  BY <1>0, AddsStatement
<1>6. \A e \in exits' : OffersIn(blocks', e[1], e[2])
  BY <1>1, <1>5
<1>7. points' \in Nat /\ points <= points' /\ {p} \subseteq NewPoints
  BY <1>0, <1>1, OnePoint
<1>8. \A f \in flow' : f \in flow \/ \E e \in exits : f[1] = e[1] /\ f[2] = e[2]
  BY <1>1, FlowTo
<1> QED BY <1>2, <1>4, <1>5, <1>6, <1>7, <1>8, PlacedTop

\* Yield or await keeps Placed.
LEMMA PlacedSuspend ==
    ASSUME Ranged, Formed, Struct, Placed, Suspend
    PROVE  Placed'
<1>0. PICK p, t, k : p = points + 1 /\ t = stack'[Depth] /\ k = N + 1
  OBVIOUS
<1>1. Typed /\ points' = p /\ flow' = flow \union To(p) /\ exits' = IF Reached THEN {<<p, "resume">>} ELSE {}
  BY <1>0, BaseIs DEF Suspend
<1>9. SetCur(Moved(Cur, k, "open")) /\ k \in Nat
  BY <1>0, BaseIs DEF Suspend, Moved, N
<1>2. Len(stack') = Depth /\ (\A d \in 1..Depth : d # Depth => stack'[d] = stack[d]) /\ Core(Cur, t) /\ Loops(Cur, t)
  BY <1>0, <1>1, <1>9, MovedStack
<1>3. \A d \in 1..Depth : Core(stack[d], stack'[d]) /\ Loops(stack[d], stack'[d])
  BY <1>0, <1>2, SelfIs DEF Cur
<1>4. \A d \in 1..Depth : Core(stack[d], stack'[d]) /\ Dangling(stack'[d]) \subseteq Dangling(stack[d]) \union exits
  BY <1>3, DanglingSame
<1>5. Adds({p}) /\ OffersIn(blocks', p, "resume")
  BY <1>0, AddsSuspend
<1>6. \A e \in exits' : OffersIn(blocks', e[1], e[2])
  BY <1>1, <1>5
<1>7. points' \in Nat /\ points <= points' /\ {p} \subseteq NewPoints
  BY <1>0, <1>1, OnePoint
<1>8. \A f \in flow' : f \in flow \/ \E e \in exits : f[1] = e[1] /\ f[2] = e[2]
  BY <1>1, FlowTo
<1> QED BY <1>2, <1>4, <1>5, <1>6, <1>7, <1>8, PlacedTop

\* A step of the current scope that makes no point.
LEMMA PlacedEnd ==
    ASSUME Ranged, Formed, Placed, points' = points, exits' = {}, Len(stack') = Depth, Adds({}),
           \A d \in 1..Depth : Core(stack[d], stack'[d]) /\ Dangling(stack'[d]) \subseteq Dangling(stack[d]) \union exits,
           \A f \in flow' : f \in flow \/ \E e \in exits : f[1] = e[1] /\ f[2] = e[2]
    PROVE  Placed'
<1>1. points' \in Nat /\ points <= points' /\ {} \subseteq NewPoints
  BY BaseIs
<1> QED BY <1>1, PlacedTop

\* Return keeps Placed.
LEMMA PlacedRet ==
    ASSUME Ranged, Formed, Struct, Placed, Ret
    PROVE  Placed'
<1>0. PICK t, k : t = stack'[Depth] /\ k = N + 1
  OBVIOUS
<1>1. Typed /\ points' = points /\ flow' = flow \union To(Exit) /\ exits' = {} /\ Adds({})
  BY BaseIs, AddsRet DEF Ret
<1>2. Len(stack') = Depth /\ (\A d \in 1..Depth : d # Depth => stack'[d] = stack[d]) /\ Core(Cur, t) /\ Loops(Cur, t)
  <2>1. CASE mode = "async"
    <3>1. SetCur(Moved(Cur, k, "ended")) /\ k \in Nat
      BY <1>0, <2>1, BaseIs DEF Ret, Moved, N
    <3> QED BY <1>0, <1>1, <3>1, MovedStack
  <2>2. CASE mode # "async"
    <3>1. SetCur(Jump("ret"))
      BY <2>2 DEF Ret
    <3> QED BY <1>0, <1>1, <3>1, JumpStack
  <2> QED BY <2>1, <2>2
<1>3. \A d \in 1..Depth : Core(stack[d], stack'[d]) /\ Loops(stack[d], stack'[d])
  BY <1>0, <1>2, SelfIs DEF Cur
<1>4. \A d \in 1..Depth : Core(stack[d], stack'[d]) /\ Dangling(stack'[d]) \subseteq Dangling(stack[d]) \union exits
  BY <1>3, DanglingSame
<1>8. \A f \in flow' : f \in flow \/ \E e \in exits : f[1] = e[1] /\ f[2] = e[2]
  BY <1>1, FlowTo
<1> QED BY <1>1, <1>2, <1>4, <1>8, PlacedEnd

\* The end of the function keeps Placed.
LEMMA PlacedFinish ==
    ASSUME Ranged, Formed, Struct, Placed, Finish
    PROVE  Placed'
<1>1. Typed /\ points' = points /\ flow' = flow \union To(Exit) /\ exits' = {} /\ Adds({}) /\ stack' = stack
  BY BaseIs, AddsFinish DEF Finish
<1>2. Len(stack') = Depth /\ \A d \in 1..Depth : Core(stack[d], stack'[d]) /\ Loops(stack[d], stack'[d])
  BY <1>1, SelfIs DEF Depth
<1>4. \A d \in 1..Depth : Core(stack[d], stack'[d]) /\ Dangling(stack'[d]) \subseteq Dangling(stack[d]) \union exits
  BY <1>2, DanglingSame
<1>8. \A f \in flow' : f \in flow \/ \E e \in exits : f[1] = e[1] /\ f[2] = e[2]
  BY <1>1, FlowTo
<1> QED BY <1>1, <1>2, <1>4, <1>8, PlacedEnd

\* Break or continue keeps Placed.
LEMMA PlacedJump ==
    ASSUME Ranged, Formed, Struct, Placed, NEW j \in {"break", "continue"}, NEW x \in 0..N, BreakOrContinue(j, x)
    PROVE  Placed'
<1>0. PICK t : t = stack'[Depth]
  OBVIOUS
<1>1. CASE x = Nil
  <2>1. blocks' = blocks /\ stack' = stack /\ exits' = exits /\ flow' = flow /\ points' = points
    BY <1>1 DEF BreakOrContinue
  <2>2. Emitted'
    BY <2>1 DEF Placed, Emitted, I, N, Depth
  <2>3. Sourced'
    BY <2>1 DEF Placed, Sourced, N, Depth
  <2> QED BY <2>2, <2>3 DEF Placed
<1>2. CASE x # Nil
  <2>1. Typed /\ points' = points /\ exits' = {} /\ Adds({})
    BY <1>2, BaseIs, AddsJump DEF BreakOrContinue
  <2>2. CASE LoopDepths = {}
    <3>1. flow' = flow \union To(Stray) /\ SetCur(Jump(j))
      BY <1>2, <2>2 DEF BreakOrContinue
    <3>2. Len(stack') = Depth /\ (\A d \in 1..Depth : d # Depth => stack'[d] = stack[d]) /\ Core(Cur, t) /\ Loops(Cur, t)
      BY <1>0, <2>1, <3>1, JumpStack
    <3>3. \A d \in 1..Depth : Core(stack[d], stack'[d]) /\ Loops(stack[d], stack'[d])
      BY <1>0, <3>2, SelfIs DEF Cur
    <3>4. \A d \in 1..Depth : Core(stack[d], stack'[d]) /\ Dangling(stack'[d]) \subseteq Dangling(stack[d]) \union exits
      BY <3>3, DanglingSame
    <3>5. \A f \in flow' : f \in flow \/ \E e \in exits : f[1] = e[1] /\ f[2] = e[2]
      BY <3>1, FlowTo
    <3> QED BY <2>1, <3>2, <3>4, <3>5, PlacedEnd
  <2>3. CASE LoopDepths # {}
    <3>0. PICK L : L = InnerLoop
      OBVIOUS
    <3>1. flow' = flow
      BY <1>2, <2>3 DEF BreakOrContinue
    <3>2. Len(stack') = Depth /\ \A d \in 1..Depth : Handed(j, L, d, stack[d], stack'[d])
      <4>1. Typed
        BY <2>1
      <4> QED BY <4>1, <1>2, <2>3, <3>0, LoopJumpStack
    <3>4. \A d \in 1..Depth : Core(stack[d], stack'[d]) /\ Dangling(stack'[d]) \subseteq Dangling(stack[d]) \union exits
      BY <3>2, ZenonT(30) DEF Handed, Dangling, Core
    <3> QED BY <2>1, <3>1, <3>2, <3>4, PlacedEnd
  <2> QED BY <2>2, <2>3
<1> QED BY <1>1, <1>2

\* A scope t is opened.
LEMMA PlacedPush ==
    ASSUME Ranged, Formed, Placed, points' \in Nat, points <= points', Len(stack') = Depth + 1,
           \A d \in 1..Depth : Core(stack[d], stack'[d]) /\ Loops(stack[d], stack'[d]),
           NEW t, t = stack'[Depth + 1], t.point \in NewPoints, t.post # t.point,
           NEW S, Adds(S), S \subseteq NewPoints, t.post = 0 \/ (t.post \in NewPoints /\ t.post \notin S),
           \A e \in Dangling(t) \union Other(t) : Offered(blocks', stack', e[1], e[2]),
           \A e \in exits' : Offered(blocks', stack', e[1], e[2]),
           \A f \in flow' : f \in flow \/ (\E e \in exits : f[1] = e[1] /\ f[2] = e[2]) \/ Offered(blocks', stack', f[1], f[2])
    PROVE  Placed'
<1>1. Depth \in Nat /\ Len(stack') \in {Depth, Depth + 1}
  BY BaseIs
<1>4. \A d \in 1..Depth : Core(stack[d], stack'[d]) /\ Dangling(stack'[d]) \subseteq Dangling(stack[d]) \union exits
  BY DanglingSame
<1>2. Emitted'
  BY <1>1, EmittedTop DEF Placed
<1>3. Sourced'
  BY <1>1, <1>4, SourcedTop DEF Placed
<1> QED BY <1>2, <1>3 DEF Placed

\* Opening an if keeps Placed.
LEMMA PlacedOpenIf == ASSUME Ranged, Formed, Struct, Placed, OpenIf PROVE Placed'
<1>0. PICK p, t : p = points + 1 /\ t = stack'[Depth + 1]
  OBVIOUS
<1>1. Typed /\ points' = p /\ flow' = flow \union To(p) /\ exits' = (IF Reached THEN {<<p, "true">>} ELSE {}) /\ Depth \in Nat /\ Depth >= 1
  BY <1>0, BaseIs DEF OpenIf
<1>2. Len(stack') = Depth + 1 /\ (\A d \in 1..Depth : stack'[d] = stack[d]) /\ Opened(Cur, t, "if", N + 1) /\ t.point = points + 1
      /\ t.saved = IF Reached THEN {<<points + 1, "false">>} ELSE {}
  BY <1>0, <1>1, OpenIfStack
<1>3. \A d \in 1..Depth : Core(stack[d], stack'[d]) /\ Loops(stack[d], stack'[d])
  BY <1>2, SelfIs
<1>4. t.kind = "if" /\ t.point = p /\ t.breaks = {} /\ t.continues = {} /\ t.post = 0
  BY <1>0, <1>2 DEF Opened
<1>5. Depth + 1 \in 2..Len(stack') /\ stack'[Depth + 1] = t
  BY <1>0, <1>1, <1>2
<1>6. ByIf(stack', p, "true") /\ ByIf(stack', p, "false")
  BY <1>4, <1>5 DEF ByIf
<1>7. \A e \in Dangling(t) \union Other(t) : Offered(blocks', stack', e[1], e[2])
  BY <1>0, <1>2, <1>4, <1>6 DEF Dangling, Other, Offered
<1>8. \A e \in exits' : Offered(blocks', stack', e[1], e[2])
  BY <1>1, <1>6 DEF Offered
<1>9. \A f \in flow' : f \in flow \/ \E e \in exits : f[1] = e[1] /\ f[2] = e[2]
  BY <1>1, FlowTo
<1>10. points' \in Nat /\ points <= points' /\ p \in NewPoints /\ p # 0
  BY <1>0, <1>1, OnePoint, Sizes
<1>11. Adds({}) /\ {} \subseteq NewPoints
  BY AddsOpenIf
<1> QED BY <1>0, <1>2, <1>3, <1>4, <1>7, <1>8, <1>9, <1>10, <1>11, PlacedPush

\* Opening an if/else keeps Placed.
LEMMA PlacedOpenIfElse == ASSUME Ranged, Formed, Struct, Placed, OpenIfElse PROVE Placed'
<1>0. PICK p, s, t : p = points + 1 /\ s = stack'[Depth] /\ t = stack'[Depth + 1]
  OBVIOUS
<1>1. Typed /\ points' = p /\ flow' = flow \union To(p) /\ exits' = (IF Reached THEN {<<p, "true">>} ELSE {}) /\ Depth \in Nat /\ Depth >= 1
  BY <1>0, BaseIs DEF OpenIfElse
<1>2. Len(stack') = Depth + 1 /\ (\A d \in 1..Depth : d # Depth => stack'[d] = stack[d]) /\ Core(Cur, s) /\ Loops(Cur, s)
      /\ Opened(s, t, "then", N + 1) /\ t.point = points + 1 /\ t.saved = {}
  BY <1>0, <1>1, OpenIfElseStack
<1>3. \A d \in 1..Depth : Core(stack[d], stack'[d]) /\ Loops(stack[d], stack'[d])
  BY <1>0, <1>2, SelfIs DEF Cur
<1>4. t.kind = "then" /\ t.point = p /\ t.breaks = {} /\ t.continues = {} /\ t.post = 0
  BY <1>0, <1>2 DEF Opened
<1>6. Adds({p}) /\ OffersIn(blocks', p, "true") /\ OffersIn(blocks', p, "false")
  BY <1>0, AddsOpenIfElse
<1>7. \A e \in Dangling(t) \union Other(t) : Offered(blocks', stack', e[1], e[2])
  BY <1>0, <1>2, <1>4, <1>6 DEF Dangling, Other, Offered
<1>8. \A e \in exits' : Offered(blocks', stack', e[1], e[2])
  BY <1>1, <1>6 DEF Offered
<1>9. \A f \in flow' : f \in flow \/ \E e \in exits : f[1] = e[1] /\ f[2] = e[2]
  BY <1>1, FlowTo
<1>10. points' \in Nat /\ points <= points' /\ {p} \subseteq NewPoints /\ p # 0
  BY <1>0, <1>1, OnePoint, Sizes
<1> QED BY <1>0, <1>2, <1>3, <1>4, <1>6, <1>7, <1>8, <1>9, <1>10, PlacedPush

\* Opening a loop keeps Placed.
LEMMA PlacedOpenFor == ASSUME Ranged, Formed, Struct, Placed, NEW form \in Forms, OpenFor(form) PROVE Placed'
<1>0. PICK p, q, s, t : p = points + 1 /\ q = points + 2 /\ s = stack'[Depth] /\ t = stack'[Depth + 1]
  OBVIOUS
<1>00. PICK c : c = IF "def" \in form THEN points + 2 ELSE points + 1
  OBVIOUS
<1>1. Typed /\ points \in Nat /\ Depth \in Nat /\ Depth >= 1
  BY BaseIs
<1>12. exits' = IF Reached THEN {<<c, IF "cond" \notin form THEN "next" ELSE "true">>} ELSE {}
  BY <1>00 DEF OpenFor
<1>13. points' = IF "step" \in form THEN c + 1 ELSE c
  BY <1>00, <1>1 DEF OpenFor
<1>2. Len(stack') = Depth + 1 /\ (\A d \in 1..Depth : d # Depth => stack'[d] = stack[d]) /\ Around(s) /\ Looped(form, t)
  BY <1>0, <1>1, OpenForStack
<1>3. \A d \in 1..Depth : Core(stack[d], stack'[d]) /\ Loops(stack[d], stack'[d])
  BY <1>0, <1>2, SelfIs DEF Cur, Around
<1>4. t.kind = "body" /\ t.point = c /\ t.breaks = {} /\ t.continues = {} /\ t.post = (IF "step" \in form THEN t.point + 1 ELSE 0)
      /\ t.saved = IF Reached /\ "cond" \in form THEN {<<c, "false">>} ELSE {}
  BY <1>00, <1>2 DEF Looped
<1>10. points' \in Nat /\ points <= points' /\ p \in NewPoints /\ c \in NewPoints /\ c # 0
  BY <1>0, <1>00, <1>1, <1>13 DEF NewPoints
<1>16. t.point \in NewPoints /\ t.post # t.point
  BY <1>00, <1>1, <1>4, <1>10
<1>14. /\ "def" \notin form => c = p
       /\ t.post = 0 \/ (t.post \in NewPoints /\ t.post # c /\ t.post # p)
  BY <1>0, <1>00, <1>1, <1>4, <1>13 DEF NewPoints
<1>15. "def" \in form => c = q
  BY <1>0, <1>00
<1>18. Dangling(t) \union Other(t) = t.saved
  BY <1>4 DEF Dangling, Other
<1>6. CASE "def" \notin form /\ "cond" \notin form
  <2>1. Adds({c}) /\ OffersIn(blocks', c, "next")
    BY <1>0, <1>6, <1>14, AddsOpenFor
  <2>2. Offered(blocks', stack', c, "next") /\ t.saved = {} /\ {c} \subseteq NewPoints
    BY <1>4, <1>6, <1>10, <2>1 DEF Offered
  <2>3. \A e \in exits' : Offered(blocks', stack', e[1], e[2])
    BY <1>6, <1>12, <2>2
  <2>4. flow' = flow \union To(c)
    BY <1>0, <1>00, <1>1, <1>6, OpenForFlow
  <2>5. \A f \in flow' : f \in flow \/ \E e \in exits : f[1] = e[1] /\ f[2] = e[2]
    BY <2>4, FlowTo
  <2> QED BY <1>0, <1>2, <1>3, <1>6, <1>10, <1>14, <1>16, <1>18, <2>1, <2>2, <2>3, <2>5, PlacedPush
<1>7. CASE "def" \notin form /\ "cond" \in form
  <2>1. Adds({c}) /\ OffersIn(blocks', c, "true") /\ OffersIn(blocks', c, "false")
    BY <1>0, <1>7, <1>14, AddsOpenFor
  <2>2. Offered(blocks', stack', c, "true") /\ Offered(blocks', stack', c, "false") /\ {c} \subseteq NewPoints
    BY <1>10, <2>1 DEF Offered
  <2>3. (\A e \in exits' : Offered(blocks', stack', e[1], e[2])) /\ \A e \in t.saved : Offered(blocks', stack', e[1], e[2])
    BY <1>4, <1>7, <1>12, <2>2
  <2>4. flow' = flow \union To(c)
    BY <1>0, <1>00, <1>1, <1>7, OpenForFlow
  <2>5. \A f \in flow' : f \in flow \/ \E e \in exits : f[1] = e[1] /\ f[2] = e[2]
    BY <2>4, FlowTo
  <2> QED BY <1>0, <1>2, <1>3, <1>7, <1>10, <1>14, <1>16, <1>18, <2>1, <2>2, <2>3, <2>5, PlacedPush
<1>8. CASE "def" \in form /\ "cond" \in form
  <2>1. Adds({p, q}) /\ OffersIn(blocks', p, "next") /\ OffersIn(blocks', q, "true") /\ OffersIn(blocks', q, "false")
    BY <1>0, <1>8, AddsOpenFor
  <2>2. Offered(blocks', stack', q, "true") /\ Offered(blocks', stack', q, "false") /\ Offered(blocks', stack', p, "next")
    BY <2>1 DEF Offered
  <2>6. c = q /\ (t.post = 0 \/ (t.post \in NewPoints /\ t.post \notin {p, q})) /\ {p, q} \subseteq NewPoints
    BY <1>8, <1>10, <1>14, <1>15
  <2>3. (\A e \in exits' : Offered(blocks', stack', e[1], e[2])) /\ \A e \in t.saved : Offered(blocks', stack', e[1], e[2])
    BY <1>4, <1>8, <1>12, <2>2, <2>6
  <2>4. flow' = flow \/ flow' = flow \union To(p) \union {<<p, "next", c>>}
    BY <1>0, <1>00, <1>1, <1>8, OpenForFlow
  <2>5. \A f \in flow' : f \in flow \/ (\E e \in exits : f[1] = e[1] /\ f[2] = e[2]) \/ Offered(blocks', stack', f[1], f[2])
    BY <2>2, <2>4, ToFrom
  <2> QED BY <1>0, <1>2, <1>3, <1>10, <1>16, <1>18, <2>1, <2>3, <2>5, <2>6, PlacedPush
<1>9. CASE "def" \in form /\ "cond" \notin form
  <2>1. Adds({p, q}) /\ OffersIn(blocks', p, "next") /\ OffersIn(blocks', q, "next")
    BY <1>0, <1>9, AddsOpenFor
  <2>2. Offered(blocks', stack', q, "next") /\ Offered(blocks', stack', p, "next")
    BY <2>1 DEF Offered
  <2>6. c = q /\ (t.post = 0 \/ (t.post \in NewPoints /\ t.post \notin {p, q})) /\ {p, q} \subseteq NewPoints
    BY <1>9, <1>10, <1>14, <1>15
  <2>3. (\A e \in exits' : Offered(blocks', stack', e[1], e[2])) /\ \A e \in t.saved : Offered(blocks', stack', e[1], e[2])
    BY <1>4, <1>9, <1>12, <2>2, <2>6
  <2>4. flow' = flow \/ flow' = flow \union To(p) \union {<<p, "next", c>>}
    BY <1>0, <1>00, <1>1, <1>9, OpenForFlow
  <2>5. \A f \in flow' : f \in flow \/ (\E e \in exits : f[1] = e[1] /\ f[2] = e[2]) \/ Offered(blocks', stack', f[1], f[2])
    BY <2>2, <2>4, ToFrom
  <2> QED BY <1>0, <1>2, <1>3, <1>10, <1>16, <1>18, <2>1, <2>3, <2>5, <2>6, PlacedPush
<1> QED BY <1>6, <1>7, <1>8, <1>9

\* The blocks stay.
LEMMA AddsNothing == ASSUME Ranged, blocks' = blocks PROVE Adds({})
<1>1. N' = N /\ N \in Nat /\ N <= N'
  BY BaseIs DEF N
<1>2. \A b \in 1..N : OfferKept(b)
  BY DEF OfferKept
<1>3. \A b \in 1..N' : Extra(b, {})
  BY <1>1 DEF Extra, I
<1> QED BY <1>1, <1>2, <1>3 DEF Adds

\* Going on to the else branch keeps Placed.
LEMMA PlacedElse == ASSUME Ranged, Formed, Struct, Placed, Else PROVE Placed'
<1>0. PICK t : t = stack'[Depth]
  OBVIOUS
<1>1. Typed /\ Depth \in Nat /\ Depth > 1 /\ Cur.kind = "then" /\ Cur = stack[Depth] /\ points \in Nat
  BY BaseIs DEF Else, Cur
<1>2. blocks' = blocks /\ flow' = flow /\ points' = points /\ exits' \subseteq {<<Cur.point, "false">>}
  BY DEF Else
<1>3. Len(stack') = Depth /\ (\A d \in 1..Depth : d # Depth => stack'[d] = stack[d]) /\ Opened(Parent, t, "else", Cur.cond)
      /\ t.point = Cur.point /\ t.saved = exits
  BY <1>0, <1>1, ElseStack
<1>4. t.kind = "else" /\ t.post = 0 /\ Dangling(t) = exits /\ Other(t) = {}
  BY <1>3 DEF Opened, Dangling, Other
<1>5. Adds({})
  BY <1>2, AddsNothing
<1>6. \A d \in 1..Len(stack') : stack'[d].post = 0 \/ \E k \in 1..Depth : stack'[d].post = stack[k].post
  BY <1>0, <1>3, <1>4
<1>7. \A d \in 2..Len(stack') : UsedIn(stack, points, stack'[d].point)
  <2>1. \A d \in 2..Depth : d \in 1..Depth /\ stack'[d].point = stack[d].point
    BY <1>0, <1>1, <1>3
  <2> QED BY <1>3, <2>1 DEF Placed, Emitted
<1>8. Emitted'
  <2>1. points' \in Nat /\ points <= points' /\ \A p \in {} : UsedIn(stack', points', p)
    BY <1>1, <1>2
  <2> QED BY <1>5, <1>6, <1>7, <2>1, EmittedStep DEF Placed
<1>9. ASSUME NEW p, NEW l, ByIf(stack, p, l) PROVE Offered(blocks', stack', p, l)
  <2>1. PICK d \in 2..Depth : stack[d].kind = "if" /\ stack[d].point = p /\ l \in {"true", "false"}
    BY <1>9 DEF ByIf, Depth
  <2>2. d # Depth /\ d \in 1..Depth /\ stack'[d] = stack[d] /\ d \in 2..Len(stack')
    BY <1>1, <1>3, <2>1
  <2> QED BY <2>1, <2>2 DEF Offered, ByIf
<1>10. \A e \in exits' : Offered(blocks, stack, e[1], e[2])
  <2>1. exits' \subseteq Dangling(Cur) \union Other(Cur)
    BY <1>1, <1>2 DEF Other
  <2> QED BY <1>1, <2>1 DEF Placed, Sourced
<1>11. \A d \in 1..Len(stack') : \A e \in Dangling(stack'[d]) \union Other(stack'[d]) : Offered(blocks, stack, e[1], e[2])
  <2>1. \A d \in 1..Depth : d # Depth => \A e \in Dangling(stack'[d]) \union Other(stack'[d]) : Offered(blocks, stack, e[1], e[2])
    BY <1>3 DEF Placed, Sourced
  <2>2. \A e \in Dangling(t) \union Other(t) : Offered(blocks, stack, e[1], e[2])
    BY <1>4 DEF Placed, Sourced
  <2> QED BY <1>0, <1>3, <2>1, <2>2
<1>12. Sourced'
  BY <1>2, <1>5, <1>9, <1>10, <1>11, SourcedStep DEF Placed
<1> QED BY <1>8, <1>12 DEF Placed

\* Closing an if keeps Placed.
LEMMA PlacedCloseIf == ASSUME Ranged, Formed, Struct, Placed, CloseIf PROVE Placed'
<1>0. PICK p, k : p = Cur.point /\ k = N + 1
  OBVIOUS
<1>1. Depth > 1 /\ points' = points /\ flow' = flow /\ exits' = exits \union Cur.saved /\ k \in Nat
  BY <1>0, BaseIs DEF CloseIf
<1>2. Pop(k, "if")
  BY <1>0 DEF CloseIf, N
<1>3. Adds({p}) /\ OffersIn(blocks', p, "true") /\ OffersIn(blocks', p, "false")
  BY <1>0, AddsCloseIf
<1>4. Emitted'
  BY <1>0, <1>1, <1>2, <1>3, EmittedPop DEF Placed
<1>5. exits' \subseteq exits \union Dangling(Cur)
  BY <1>1 DEF Dangling
<1>6. Sourced'
  BY <1>0, <1>1, <1>2, <1>3, <1>5, SourcedPop DEF Placed
<1> QED BY <1>4, <1>6 DEF Placed

\* Closing an if/else keeps Placed.
LEMMA PlacedCloseIfElse == ASSUME Ranged, Formed, Struct, Placed, CloseIfElse PROVE Placed'
<1>0. PICK k : k = Cur.end
  OBVIOUS
<1>1. Depth > 1 /\ points' = points /\ flow' = flow /\ exits' = exits \union Cur.saved /\ Cur.kind # "if"
  BY DEF CloseIfElse
<1>2. Pop(k, "if") /\ k \in Nat
  BY <1>0, BaseIs, CurIs DEF CloseIfElse, Scope
<1>3. Adds({})
  BY AddsCloseIfElse
<1>4. Emitted'
  BY <1>1, <1>2, <1>3, EmittedPop DEF Placed
<1>5. exits' \subseteq exits \union Dangling(Cur)
  BY <1>1 DEF Dangling
<1>6. Sourced'
  BY <1>1, <1>2, <1>3, <1>5, SourcedPop DEF Placed
<1> QED BY <1>4, <1>6 DEF Placed

\* Closing a loop keeps Placed.
LEMMA PlacedCloseFor == ASSUME Ranged, Formed, Apart, Struct, Placed, CloseFor PROVE Placed'
<1>0. PICK k, p, q : k = Cur.end /\ p = Cur.point /\ q = Cur.post
  OBVIOUS
<1>1. Depth > 1 /\ points' = points /\ exits' = Cur.saved \union Cur.breaks /\ Cur.kind = "body" /\ Typed /\ Cur = stack[Depth] /\ Depth \in 1..Depth
  BY BaseIs DEF CloseFor, Cur
<1>2. Pop(k, "open") /\ k \in Nat
  BY <1>0, <1>1, CurIs DEF CloseFor, Scope
<1>3. LoopBack
  BY <1>1, LoopBackIs
<1>4. /\ "step" \in Cur.form /\ "cond" \in Cur.form => Adds({q, p}) /\ OffersIn(blocks', q, "next")
      /\ "step" \notin Cur.form /\ "cond" \in Cur.form => Adds({p})
      /\ "step" \in Cur.form /\ "cond" \notin Cur.form => Adds({q}) /\ OffersIn(blocks', q, "next")
      /\ "step" \notin Cur.form /\ "cond" \notin Cur.form => Adds({})
      /\ Cur.form \in Forms
  BY <1>0, AddsCloseFor
<1>5. PICK S : S = (IF "cond" \in Cur.form THEN IF "step" \in Cur.form THEN {q, p} ELSE {p} ELSE IF "step" \in Cur.form THEN {q} ELSE {})
  OBVIOUS
<1>6. Adds(S)
  BY <1>4, <1>5
<1>7. q # 0 <=> "step" \in Cur.form
  BY <1>0, <1>1 DEF Formed, FormedScope
<1>8. \A z \in S : z = p \/ (z = q /\ z # 0)
  BY <1>5, <1>7
<1>9. Emitted'
  BY <1>0, <1>1, <1>2, <1>6, <1>8, EmittedPop DEF Placed
<1>10. exits' \subseteq exits \union Dangling(Cur) /\ Cur.kind # "if"
  BY <1>1 DEF Dangling
<1>11. \A e \in Back : Offered(blocks, stack, e[1], e[2])
  BY <1>1 DEF Placed, Sourced, Back, Dangling
<1>12. ASSUME NEW f \in flow' PROVE f \in flow \/ Offered(blocks, stack, f[1], f[2]) \/ Offered(blocks', stack', f[1], f[2])
  <2>1. f \in flow \/ <<f[1], f[2]>> \in Back \/ Turns(f)
    BY <1>3 DEF LoopBack
  <2>2. CASE <<f[1], f[2]>> \in Back
    <3>1. PICK e \in Back : e = <<f[1], f[2]>>
      BY <2>2
    <3> QED BY <1>11, <3>1
  <2>3. CASE Turns(f)
    <3>1. f[1] = q /\ f[2] = "next" /\ q # 0
      BY <1>0, <2>3 DEF Turns
    <3> QED BY <1>4, <1>7, <3>1 DEF Offered
  <2> QED BY <2>1, <2>2, <2>3
<1>13. Sourced'
  BY <1>1, <1>2, <1>6, <1>10, <1>12, SourcedPop DEF Placed
<1> QED BY <1>9, <1>13 DEF Placed

\* The initial state has Placed.
LEMMA PlacedInit == Init => Placed
<1> SUFFICES ASSUME Init PROVE Placed
  OBVIOUS
<1>1. N = 1 /\ I(1) = <<>> /\ Depth = 1
  BY DEF Init, N, I, NewBlock, Depth
<1>2. Emitted
  BY <1>1 DEF Emitted
<1>3. flow = {} /\ exits = {<<Start, "next">>} /\ Dangling(stack[1]) = {} /\ Other(stack[1]) = {}
  BY DEF Init, Dangling, Other, AddChildScope
<1>4. Sourced
  BY <1>1, <1>3 DEF Sourced, Offered
<1> QED BY <1>2, <1>4 DEF Placed

\* Every step keeps Placed.
LEMMA PlacedNext == Ranged /\ Source /\ Struct /\ Placed /\ [Next]_vars => Placed'
<1> SUFFICES ASSUME Ranged, Source, Struct, Placed, [Next]_vars PROVE Placed'
  OBVIOUS
<1>1. Formed /\ Apart
  BY DEF Source
<1>2. Cur.breakBlock \in 0..N /\ Cur.continueBlock \in 0..N
  BY CurFits
<1>3. CASE \E isDef \in BOOLEAN : Statement(isDef)
  BY <1>1, <1>3, PlacedStatement
<1>4. CASE Suspend
  BY <1>1, <1>4, PlacedSuspend
<1>5. CASE Ret
  BY <1>1, <1>5, PlacedRet
<1>6. CASE Break
  BY <1>1, <1>2, <1>6, PlacedJump DEF Break
<1>7. CASE Continue
  BY <1>1, <1>2, <1>7, PlacedJump DEF Continue
<1>8. CASE OpenIf
  BY <1>1, <1>8, PlacedOpenIf
<1>9. CASE CloseIf
  BY <1>1, <1>9, PlacedCloseIf
<1>10. CASE OpenIfElse
  BY <1>1, <1>10, PlacedOpenIfElse
<1>11. CASE Else
  BY <1>1, <1>11, PlacedElse
<1>12. CASE CloseIfElse
  BY <1>1, <1>12, PlacedCloseIfElse
<1>13. CASE \E form \in Forms : OpenFor(form)
  BY <1>1, <1>13, PlacedOpenFor
<1>14. CASE CloseFor
  BY <1>1, <1>14, PlacedCloseFor
<1>15. CASE Finish
  BY <1>1, <1>15, PlacedFinish
<1>16. CASE Ended \/ UNCHANGED vars
  <2>1. blocks' = blocks /\ stack' = stack /\ exits' = exits /\ flow' = flow /\ points' = points
    BY <1>16 DEF Ended, vars
  <2>2. Emitted'
    BY <2>1 DEF Placed, Emitted, I, N, Depth
  <2>3. Sourced'
    BY <2>1 DEF Placed, Sourced, N, Depth
  <2> QED BY <2>2, <2>3 DEF Placed
<1> QED BY <1>3, <1>4, <1>5, <1>6, <1>7, <1>8, <1>9, <1>10, <1>11, <1>12, <1>13, <1>14, <1>15, <1>16 DEF Next
=============================================================================
