----------------------- MODULE ControlFlowGraphProofs -----------------------
(*****************************************************************************)
(* Proofs about ControlFlow, second part: the blocks do what the source      *)
(* asks for (FlowFaithful).                                                  *)
(*                                                                           *)
(* While a function is compiled there are sets in[b] of exits that lead to   *)
(* block b and ranks rk[b] such that (Graph) whatever leads to a block goes  *)
(* to its first point, its points follow each other, and whatever leaves     *)
(* it - unless a scope still works on it - is in in[t] for the block t it    *)
(* goes on in.  An empty block goes on in a block that is not empty or has a *)
(* lower rank, so that a chain of empty blocks ends.  Every action keeps     *)
(* this: it gives new blocks their exits, and hands the exits of a break,    *)
(* continue or branch to the block that they aim at.                         *)
(*                                                                           *)
(* At the end all blocks are wired (Whole).  Then FirstIn, by induction over *)
(* the rank, is where the exits of a block lead (IntoIs), so that every edge *)
(* of the blocks from a point that the source comes to is one of the source  *)
(* (EdgeInFlow); and as every point of the source stands in a block that has *)
(* its exits (Placed), and an exit leads to one point (Source), the reverse  *)
(* holds too (FlowInEdges).  ReachedIn needs no more than points + 1 steps,  *)
(* as every step finds one of the points + 2 targets or stops (Enough).      *)
(*****************************************************************************)
EXTENDS ControlFlowProofs, FiniteSetTheorems

-----------------------------------------------------------------------------
(* What the blocks do with the exits of the source: in[b] are the exits that lead to block b. *)

\* the last point of block b
Last(bs, b) == bs[b].insts[Len(bs[b].insts)]
\* the exits X lead to point p
Goes(F, X, p) == \A e \in X : <<e[1], e[2], p>> \in F
\* the exits that leave block b by its end
Out(bs, F, in, b) ==
    IF bs[b].insts = <<>> THEN in[b] ELSE IF Enters(F, Last(bs, b)) THEN {<<Last(bs, b), "next">>} ELSE {}
\* b goes on in t
Leads(bs, F, in, rk, b, t) ==
    /\ Out(bs, F, in, b) \subseteq in[t]
    /\ bs[b].insts = <<>> /\ in[b] # {} => bs[t].insts # <<>> \/ rk[t] < rk[b]
\* Block b is finished: whatever leaves it leads to where the source wants it to go.
Wired(bs, F, in, rk, b) ==
    /\ bs[b].term # "none"
    /\ bs[b].term = "br" => Leads(bs, F, in, rk, b, bs[b].to[1])
    /\ bs[b].term = "ret" => Goes(F, Out(bs, F, in, b), Exit)
    /\ bs[b].term \in {"cond", "yield"} => bs[b].insts # <<>>
    /\ bs[b].term = "cond" /\ Enters(F, Last(bs, b)) =>
          <<Last(bs, b), "true">> \in in[bs[b].to[1]] /\ <<Last(bs, b), "false">> \in in[bs[b].to[2]]
    /\ bs[b].term = "yield" /\ Enters(F, Last(bs, b)) => <<Last(bs, b), "resume">> \in in[bs[b].to[1]]
\* Whatever leads to block b leads to its first point, and its points follow each other.
Inside(bs, F, in, b) ==
    /\ bs[b].insts # <<>> => Goes(F, in[b], bs[b].insts[1])
    /\ \A i \in 1..(Len(bs[b].insts) - 1) : Enters(F, bs[b].insts[i]) => <<bs[b].insts[i], "next", bs[b].insts[i + 1]>> \in F
\* scope s has not yet ended block b
OpenAt(bs, s, b) ==
    \/ b = s.block
    \/ s.kind \in {"then", "body"} /\ b = s.cond
    \/ s.kind = "else" /\ b = s.cond /\ bs[b].term = "none"
OpenIn(bs, st, b) == \E d \in 1..Len(st) : OpenAt(bs, st[d], b)
\* what scope s at depth d has made of the source so far; B is the block of the scope below
Joined(bs, F, in, rk, s, d, B) ==
    /\ rk[s.block] = d /\ rk[s.first] = d
    /\ s.kind \in {"then", "else"} => rk[s.cond] = d
    /\ s.kind = "body" => rk[s.cond] = 1 /\ in[s.cond] \subseteq s.continues
    /\ HasCond(s) => in[B] \subseteq s.saved \union s.breaks
    /\ s.kind = "then" => \A e \in in[s.cond] : e = <<s.point, "false">> /\ Enters(F, s.point)
    /\ s.kind = "else" /\ bs[s.cond].term = "none" => Out(bs, F, in, s.cond) \subseteq in[B]
    /\ s.kind = "body" /\ "cond" \in s.form /\ Enters(F, s.point) =>
          <<s.point, "true">> \in in[s.first] /\ <<s.point, "false">> \in in[B]
    /\ s.kind = "if" => Goes(F, Out(bs, F, in, B), s.point)
    /\ s.kind = "if" /\ Enters(F, s.point) => <<s.point, "true">> \in in[s.first] /\ <<s.point, "false">> \in s.saved
\* the end of the current scope
Here(bs, F, in, rk, t, X) ==
    IF t.jumped = "no" THEN Out(bs, F, in, t.block) \subseteq X
    ELSE IF t.kind = "body" /\ t.jumped = "continue" THEN Out(bs, F, in, t.block) \subseteq t.continues
    ELSE Wired(bs, F, in, rk, t.block)
\* The exits in, and ranks rk that fall along empty blocks: every block that no scope works on is wired.
\* Block by block this is what EmittedFlow = flow comes to.
Graph(bs, F, st, X, in, rk) ==
    /\ <<Start, "next">> \in in[1]
    /\ \A b \in 1..Len(bs) : rk[b] \in 1..Len(bs) /\ Inside(bs, F, in, b) /\ (OpenIn(bs, st, b) \/ Wired(bs, F, in, rk, b))
    /\ \A d \in 1..Len(st) : Joined(bs, F, in, rk, st[d], d, Under(st, d))
    /\ Here(bs, F, in, rk, st[Len(st)], X)
\* The same of a finished function.
Whole(bs, F, in, rk) ==
    /\ <<Start, "next">> \in in[1]
    /\ \A b \in 1..Len(bs) : rk[b] \in 1..Len(bs) /\ Inside(bs, F, in, b) /\ Wired(bs, F, in, rk, b)

\* A step leaves the exits alone, but that blocks of G may get more of them.
Keeps(in, rk, in2, rk2, G) ==
    /\ \A b \in 1..N : in[b] \subseteq in2[b] /\ rk2[b] = rk[b] /\ (b \notin G => in2[b] = in[b])
    /\ flow \subseteq flow'
    /\ \A p : UsedIn(stack, points, p) /\ Enters(flow', p) => Enters(flow, p)

\* The last point of a block.
LEMMA LastIs ==
    ASSUME Ranged, Emitted, NEW b \in 1..N, I(b) # <<>>
    PROVE  Len(I(b)) \in 1..Len(I(b)) /\ Last(blocks, b) = I(b)[Len(I(b))] /\ UsedIn(stack, points, Last(blocks, b))
<1>1. I(b) \in Seq(Nat)
  BY InstsIs
<1>2. Len(I(b)) \in 1..Len(I(b))
  BY <1>1
<1>3. Last(blocks, b) = I(b)[Len(I(b))]
  BY DEF Last, I
<1> QED BY <1>2, <1>3 DEF Emitted

\* Control comes to no more old points.
LEMMA EntersKept ==
    ASSUME NEW in, NEW rk, NEW in2, NEW rk2, NEW G, Keeps(in, rk, in2, rk2, G), NEW p, UsedIn(stack, points, p)
    PROVE  Enters(flow', p) <=> Enters(flow, p)
  BY DEF Keeps, Enters

\* What leaves a block stays.
LEMMA OutKept ==
    ASSUME Ranged, Emitted, NEW in, NEW rk, NEW in2, NEW rk2, NEW G, Keeps(in, rk, in2, rk2, G),
           NEW b \in 1..N, blocks'[b].insts = I(b), b \notin G \/ I(b) # <<>>
    PROVE  Out(blocks', flow', in2, b) = Out(blocks, flow, in, b)
<1>1. CASE I(b) = <<>>
  BY <1>1 DEF Keeps, Out, I
<1>2. CASE I(b) # <<>>
  <2>0. PICK p : p = Last(blocks, b)
    OBVIOUS
  <2>1. UsedIn(stack, points, p) /\ Last(blocks', b) = p
    BY <1>2, <2>0, LastIs DEF Last, I
  <2>2. Enters(flow', p) <=> Enters(flow, p)
    BY <2>1, EntersKept
  <2> QED BY <1>2, <2>0, <2>1, <2>2 DEF Out, I
<1> QED BY <1>1, <1>2

\* The targets of a terminator are blocks.
LEMMA TosIs ==
    ASSUME Ranged, Struct, NEW b \in 1..N
    PROVE  /\ Term(b) \in {"br", "yield", "cond"} => Tos(b)[1] \in 1..N
           /\ Term(b) = "cond" => Tos(b)[2] \in 1..N
<1>1. Proper(blocks[b]) /\ Aims(Tos(b), N)
  BY DEF Struct, Ranged, Good, Tos, N
<1> QED BY <1>1 DEF Proper, Aims, Tos, Term

\* A block that is wired stays so.
LEMMA WiredKept ==
    ASSUME Ranged, Struct, Emitted, NEW in, NEW rk, NEW in2, NEW rk2, NEW G, Keeps(in, rk, in2, rk2, G),
           \A x \in 1..N : Heads(x),
           NEW b \in 1..N, blocks'[b] = blocks[b], b \notin G \/ I(b) # <<>>, Wired(blocks, flow, in, rk, b)
    PROVE  Wired(blocks', flow', in2, rk2, b)
<1>1. blocks'[b].insts = I(b) /\ blocks'[b].term = Term(b) /\ blocks'[b].to = Tos(b)
  BY DEF I, Term, Tos
<1>2. Out(blocks', flow', in2, b) = Out(blocks, flow, in, b)
  BY <1>1, OutKept
<1>3. Term(b) = "br" => Leads(blocks', flow', in2, rk2, b, Tos(b)[1])
  <2> SUFFICES ASSUME Term(b) = "br" PROVE Leads(blocks', flow', in2, rk2, b, Tos(b)[1])
    OBVIOUS
  <2>0. PICK t : t = Tos(b)[1]
    OBVIOUS
  <2>1. t \in 1..N /\ Heads(t)
    BY <2>0, TosIs
  <2>2. Leads(blocks, flow, in, rk, b, t)
    BY <2>0 DEF Wired, Term, Tos
  <2>3. Out(blocks', flow', in2, b) \subseteq in2[t]
    BY <1>2, <2>1, <2>2 DEF Leads, Keeps
  <2>4. I(b) = <<>> => in2[b] = in[b]
    BY DEF Keeps
  <2>5. rk2[t] = rk[t] /\ rk2[b] = rk[b]
    BY <2>1 DEF Keeps
  <2>6. I(b) = <<>> /\ in[b] # {} => I(t) # <<>> \/ rk[t] < rk[b]
    BY <2>2 DEF Leads, I
  <2>7. I(t) # <<>> => blocks'[t].insts # <<>>
    BY <2>1 DEF Heads, I
  <2>8. blocks'[b].insts = <<>> /\ in2[b] # {} => blocks'[t].insts # <<>> \/ rk2[t] < rk2[b]
    BY <1>1, <2>4, <2>5, <2>6, <2>7
  <2> QED BY <2>0, <2>3, <2>8 DEF Leads
<1>4. Term(b) = "ret" => Goes(flow', Out(blocks', flow', in2, b), Exit)
  <2>1. Term(b) = "ret" => Goes(flow, Out(blocks, flow, in, b), Exit)
    BY DEF Wired, Term
  <2> QED BY <1>2, <2>1 DEF Goes, Keeps
<1>5. Term(b) \in {"cond", "yield"} => I(b) # <<>>
  BY DEF Wired, Term, I
<1>6. ASSUME Term(b) \in {"cond", "yield"}, Enters(flow', Last(blocks', b))
      PROVE  /\ Term(b) = "cond" => <<Last(blocks', b), "true">> \in in2[Tos(b)[1]] /\ <<Last(blocks', b), "false">> \in in2[Tos(b)[2]]
             /\ Term(b) = "yield" => <<Last(blocks', b), "resume">> \in in2[Tos(b)[1]]
  <2>0. PICK p : p = Last(blocks, b)
    OBVIOUS
  <2>1. UsedIn(stack, points, p) /\ Last(blocks', b) = p
    BY <1>5, <1>6, <2>0, LastIs DEF Last
  <2>2. Enters(flow, p)
    BY <1>6, <2>1, EntersKept
  <2>3. /\ Term(b) = "cond" => <<p, "true">> \in in[Tos(b)[1]] /\ <<p, "false">> \in in[Tos(b)[2]]
        /\ Term(b) = "yield" => <<p, "resume">> \in in[Tos(b)[1]]
    BY <2>0, <2>2 DEF Wired, Term, Tos
  <2>4. Tos(b)[1] \in 1..N /\ (Term(b) = "cond" => Tos(b)[2] \in 1..N)
    BY <1>6, TosIs
  <2>5. in[Tos(b)[1]] \subseteq in2[Tos(b)[1]] /\ (Term(b) = "cond" => in[Tos(b)[2]] \subseteq in2[Tos(b)[2]])
    BY <2>4 DEF Keeps
  <2> QED BY <2>1, <2>3, <2>5
<1>7. Term(b) # "none"
  BY DEF Wired, Term
<1> QED BY <1>1, <1>3, <1>4, <1>5, <1>6, <1>7 DEF Wired

\* A block keeps its inside.
LEMMA InsideKept ==
    ASSUME Ranged, Emitted, NEW in, NEW rk, NEW in2, NEW rk2, NEW G, Keeps(in, rk, in2, rk2, G),
           NEW b \in 1..N, blocks'[b].insts = I(b), Inside(blocks, flow, in, b),
           b \notin G \/ I(b) = <<>> \/ Goes(flow', in2[b], I(b)[1])
    PROVE  Inside(blocks', flow', in2, b)
<1>1. I(b) # <<>> => Goes(flow', in2[b], I(b)[1])
  <2>1. I(b) # <<>> => Goes(flow, in[b], I(b)[1])
    BY DEF Inside, I
  <2> QED BY <2>1 DEF Goes, Keeps
<1>2. ASSUME NEW i \in 1..(Len(I(b)) - 1), Enters(flow', I(b)[i]) PROVE <<I(b)[i], "next", I(b)[i + 1]>> \in flow'
  <2>1. i \in 1..Len(I(b))
    BY InstsIs
  <2>2. UsedIn(stack, points, I(b)[i])
    BY <2>1 DEF Emitted
  <2>3. Enters(flow, I(b)[i])
    BY <1>2, <2>2, EntersKept
  <2> QED BY <2>3 DEF Inside, I, Keeps
<1> QED BY <1>1, <1>2 DEF Inside

\* A scope that goes on stays joined.
LEMMA JoinedKept ==
    ASSUME Ranged, Formed, Emitted, NEW in, NEW rk, NEW in2, NEW rk2, NEW G, Keeps(in, rk, in2, rk2, G),
           NEW d \in 1..Depth, NEW s, s = stack[d], NEW t, NEW B, Core(s, t), s.breaks \subseteq t.breaks, s.continues \subseteq t.continues,
           rk2[t.block] = d,
           HasCond(s) => blocks'[s.cond] = blocks[s.cond] /\ s.cond \notin G,
           d > 1 => B \in 1..N /\ blocks'[B] = blocks[B] /\ B \notin G,
           Joined(blocks, flow, in, rk, s, d, B)
    PROVE  Joined(blocks', flow', in2, rk2, t, d, B)
<1>0. t.kind = s.kind /\ t.first = s.first /\ t.cond = s.cond /\ t.form = s.form /\ t.point = s.point /\ t.saved = s.saved
  BY DEF Core
<1>1. s.first \in 1..N /\ (HasCond(s) => s.cond \in 1..N)
  BY ScopeFits DEF Fits, HasCond
<1>2. rk2[s.first] = d /\ (HasCond(s) => rk2[s.cond] = rk[s.cond])
  BY <1>1 DEF Keeps, Joined
<1>3. CASE s.kind = "fn"
  BY <1>0, <1>2, <1>3 DEF Joined, HasCond
<1>4. CASE s.kind # "fn"
  <2>1. d > 1
    <3>1. d # 1
      BY <1>4 DEF Formed, FormedScope
    <3> QED BY <3>1, BaseIs
  <2>2. UsedIn(stack, points, s.point)
    <3>1. d \in 2..Depth
      BY <2>1, BaseIs
    <3> QED BY <3>1 DEF Emitted
  <2>3. Enters(flow', s.point) <=> Enters(flow, s.point)
    BY <2>2, EntersKept
  <2>4. in2[B] = in[B] /\ Out(blocks', flow', in2, B) = Out(blocks, flow, in, B)
    <3>1. B \in 1..N /\ blocks'[B].insts = I(B) /\ B \notin G
      BY <2>1 DEF I
    <3> QED BY <3>1, OutKept, ZenonT(30) DEF Keeps
  <2>5. HasCond(s) => in2[s.cond] = in[s.cond] /\ Out(blocks', flow', in2, s.cond) = Out(blocks, flow, in, s.cond)
    <3> SUFFICES ASSUME HasCond(s) PROVE in2[s.cond] = in[s.cond] /\ Out(blocks', flow', in2, s.cond) = Out(blocks, flow, in, s.cond)
      OBVIOUS
    <3>0. PICK a : a = s.cond
      OBVIOUS
    <3>1. a \in 1..N /\ blocks'[a].insts = I(a) /\ a \notin G
      BY <1>1, <3>0 DEF I
    <3>2. Out(blocks', flow', in2, a) = Out(blocks, flow, in, a)
      BY <3>1, OutKept
    <3> QED BY <3>0, <3>1, <3>2 DEF Keeps
  <2>6. in[s.first] \subseteq in2[s.first]
    BY <1>1 DEF Keeps
  <2>7. s.kind \in {"then", "else"} => rk2[s.cond] = d
    BY <1>2 DEF Joined, HasCond
  <2>8. s.kind = "body" => rk2[s.cond] = 1 /\ in2[s.cond] \subseteq t.continues
    BY <1>2, <2>5 DEF Joined, HasCond
  <2>9. HasCond(s) => in2[B] \subseteq t.saved \union t.breaks
    BY <1>0, <2>4 DEF Joined
  <2>10. s.kind = "then" => \A e \in in2[s.cond] : e = <<s.point, "false">> /\ Enters(flow', s.point)
    BY <2>3, <2>5 DEF Joined, HasCond
  <2>11. s.kind = "else" /\ blocks'[s.cond].term = "none" => Out(blocks', flow', in2, s.cond) \subseteq in2[B]
    BY <2>4, <2>5 DEF Joined, HasCond
  <2>12. s.kind = "body" /\ "cond" \in s.form /\ Enters(flow', s.point) =>
          <<s.point, "true">> \in in2[s.first] /\ <<s.point, "false">> \in in2[B]
    BY <2>3, <2>4, <2>6 DEF Joined
  <2>13. s.kind = "if" => Goes(flow', Out(blocks', flow', in2, B), s.point)
    BY <2>4 DEF Joined, Goes, Keeps
  <2>14. s.kind = "if" /\ Enters(flow', s.point) => <<s.point, "true">> \in in2[s.first] /\ <<s.point, "false">> \in t.saved
    BY <1>0, <2>3, <2>6 DEF Joined
  <2>15. HasCond(t) <=> HasCond(s)
    BY <1>0 DEF HasCond
  <2> QED BY <1>0, <1>2, <2>7, <2>8, <2>9, <2>10, <2>11, <2>12, <2>13, <2>14, <2>15 DEF Joined
<1> QED BY <1>3, <1>4

\* A block belongs to one scope.
LEMMA LiveOnly ==
    ASSUME Struct, NEW d \in 1..Depth, NEW k \in 1..Depth, NEW x, x \in Live(stack[d]), x \in Live(stack[k])
    PROVE  d = k
  BY DEF Struct

\* A block that a scope has not ended belongs to it.
LEMMA OpenLive == ASSUME NEW bs, NEW s, NEW b, OpenAt(bs, s, b) PROVE b \in Live(s)
  BY DEF OpenAt, Live, HasCond

\* Such a block stays so.
LEMMA OpenKept ==
    ASSUME NEW s, NEW t, NEW b, OpenAt(blocks, s, b), Core(s, t), blocks'[b] = blocks[b], b = s.block => b = t.block
    PROVE  OpenAt(blocks', t, b)
  BY DEF OpenAt, Core

\* the graph of a state
GraphNow(in, rk) == Graph(blocks, flow, stack, exits, in, rk)
GraphNext(in, rk) == Graph(blocks', flow', stack', exits', in, rk)

\* What is left to show of a step that leaves the m lower scopes alone.
LEMMA GraphStep ==
    ASSUME Ranged, Formed, Struct, Emitted, NEW in, NEW rk, GraphNow(in, rk), NEW m, NEW T, Local(m, T),
           NEW in2, NEW rk2, NEW G, Keeps(in, rk, in2, rk2, G), N' \in Nat, Len(stack') \in Nat,
           \A d \in 1..m : stack[d].breaks \subseteq stack'[d].breaks /\ stack[d].continues \subseteq stack'[d].continues,
           \A d \in 1..m : (d > 1 /\ Under(stack, d) \in G) \/ (HasCond(stack[d]) /\ stack[d].cond \in G) =>
               Joined(blocks', flow', in2, rk2, stack'[d], d, Under(stack', d)),
           \A d \in (m + 1)..Len(stack') : Joined(blocks', flow', in2, rk2, stack'[d], d, Under(stack', d)),
           \A b \in (N + 1)..N' : rk2[b] \in 1..N',
           \A b \in 1..N' : b \in T \/ b \notin 1..N \/ (b \in G /\ I(b) # <<>>) => Inside(blocks', flow', in2, b),
           \A b \in 1..N' : b \in T \/ b \notin 1..N \/ (b \in G /\ I(b) = <<>>) \/ (\E k \in (m + 1)..Depth : OpenAt(blocks, stack[k], b)) =>
               OpenIn(blocks', stack', b) \/ Wired(blocks', flow', in2, rk2, b),
           Here(blocks', flow', in2, rk2, stack'[Len(stack')], exits')
    PROVE  GraphNext(in2, rk2)
<1>0. N \in Nat /\ Depth \in Nat /\ m \in 0..Depth /\ m <= Len(stack') /\ N <= N' /\ OnlyAt(T) /\ (\A x \in 1..N : Heads(x)) /\ Depth >= 1 /\ N >= 1
  BY BaseIs DEF Local
<1>1. <<Start, "next">> \in in2[1]
  <2>1. <<Start, "next">> \in in[1]
    BY DEF GraphNow, Graph
  <2>2. in[1] \subseteq in2[1]
    BY <1>0 DEF Keeps
  <2> QED BY <2>1, <2>2
<1>2. ASSUME NEW b \in 1..N' PROVE rk2[b] \in 1..N'
  <2>1. CASE b \in 1..N
    BY <1>0, <2>1 DEF Keeps, GraphNow, Graph, N
  <2>2. CASE b \notin 1..N
    <3>1. b \in (N + 1)..N'
      BY <1>0, <2>2
    <3> QED BY <3>1
  <2> QED BY <2>1, <2>2
<1>3. ASSUME NEW b \in 1..N' PROVE Inside(blocks', flow', in2, b)
  <2>1. CASE b \in T \/ b \notin 1..N \/ (b \in G /\ I(b) # <<>>)
    BY <2>1
  <2>2. CASE ~(b \in T \/ b \notin 1..N \/ (b \in G /\ I(b) # <<>>))
    <3>1. b \in 1..N /\ blocks'[b].insts = I(b) /\ (b \notin G \/ I(b) = <<>>)
      BY <1>0, <2>2 DEF OnlyAt, I
    <3>2. Inside(blocks, flow, in, b)
      BY <3>1 DEF GraphNow, Graph, N
    <3> QED BY <3>1, <3>2, InsideKept
  <2> QED BY <2>1, <2>2
<1>4. ASSUME NEW b \in 1..N' PROVE OpenIn(blocks', stack', b) \/ Wired(blocks', flow', in2, rk2, b)
  <2>1. CASE b \in T \/ b \notin 1..N \/ (b \in G /\ I(b) = <<>>) \/ (\E k \in (m + 1)..Depth : OpenAt(blocks, stack[k], b))
    BY <2>1
  <2>2. CASE ~(b \in T \/ b \notin 1..N \/ (b \in G /\ I(b) = <<>>) \/ (\E k \in (m + 1)..Depth : OpenAt(blocks, stack[k], b)))
    <3>1. b \in 1..N /\ blocks'[b] = blocks[b] /\ (b \notin G \/ I(b) # <<>>)
      BY <1>0, <2>2 DEF OnlyAt
    <3>2. CASE OpenIn(blocks, stack, b)
      <4>1. PICK d \in 1..Depth : OpenAt(blocks, stack[d], b)
        BY <3>2 DEF OpenIn, Depth
      <4>2. d \in 1..m
        BY <1>0, <2>2, <4>1
      <4>3. Core(stack[d], stack'[d]) /\ stack'[d].block = stack[d].block
        BY <4>2 DEF Local
      <4>4. OpenAt(blocks', stack'[d], b) /\ d \in 1..Len(stack')
        BY <1>0, <3>1, <4>1, <4>2, <4>3, OpenKept
      <4> QED BY <4>4 DEF OpenIn
    <3>3. CASE ~OpenIn(blocks, stack, b)
      <4>1. Wired(blocks, flow, in, rk, b)
        BY <3>1, <3>3 DEF GraphNow, Graph, N
      <4> QED BY <1>0, <3>1, <4>1, WiredKept
    <3> QED BY <3>2, <3>3
  <2> QED BY <2>1, <2>2
<1>5. ASSUME NEW d \in 1..Len(stack') PROVE Joined(blocks', flow', in2, rk2, stack'[d], d, Under(stack', d))
  <2>1. CASE d \in 1..m
    <3>0. PICK B, s, t : B = Under(stack, d) /\ s = stack[d] /\ t = stack'[d]
      OBVIOUS
    <3>1. CASE (d > 1 /\ B \in G) \/ (HasCond(s) /\ s.cond \in G)
      BY <2>1, <3>0, <3>1
    <3>2. CASE ~((d > 1 /\ B \in G) \/ (HasCond(s) /\ s.cond \in G))
      <4>1. d \in 1..Depth /\ Core(s, t) /\ t.block = s.block /\ \A x \in Live(s) : x \in 1..N /\ blocks'[x] = blocks[x]
        BY <2>1, <3>0, LowIs
      <4>2. d > 1 => B \in 1..N /\ blocks'[B] = blocks[B] /\ B = Under(stack', d)
        <5> SUFFICES ASSUME d > 1 PROVE B \in 1..N /\ blocks'[B] = blocks[B] /\ B = Under(stack', d)
          OBVIOUS
        <5>0. PICK e : e = d - 1
          OBVIOUS
        <5>1. e \in 1..m /\ d # 1
          BY <1>0, <2>1, <5>0
        <5>2. stack'[e].block = stack[e].block /\ \A x \in Live(stack[e]) : x \in 1..N /\ blocks'[x] = blocks[x]
          BY <5>1, LowIs
        <5>3. B = stack[e].block /\ Under(stack', d) = stack'[e].block /\ B \in Live(stack[e])
          BY <3>0, <5>0, <5>1 DEF Under, Live
        <5> QED BY <5>2, <5>3
      <4>3. d = 1 => Under(stack', d) = B
        BY <3>0 DEF Under
      <4>4. HasCond(s) => blocks'[s.cond] = blocks[s.cond] /\ s.cond \notin G
        BY <3>2, <4>1 DEF Live
      <4>5. Joined(blocks, flow, in, rk, s, d, B)
        BY <3>0, <4>1 DEF GraphNow, Graph, Depth
      <4>6. rk2[t.block] = d
        <5>1. s.block \in 1..N
          BY <4>1 DEF Live
        <5> QED BY <4>1, <4>5, <5>1 DEF Joined, Keeps
      <4>7. s.breaks \subseteq t.breaks /\ s.continues \subseteq t.continues
        BY <2>1, <3>0
      <4>8. d > 1 => B \in 1..N /\ blocks'[B] = blocks[B] /\ B \notin G
        BY <3>2, <4>2, Zenon
      <4>9. Joined(blocks', flow', in2, rk2, t, d, B)
        BY <3>0, <4>1, <4>4, <4>5, <4>6, <4>7, <4>8, JoinedKept
      <4>10. Under(stack', d) = B
        BY <1>0, <4>2, <4>3
      <4> QED BY <3>0, <4>9, <4>10
    <3> QED BY <3>1, <3>2
  <2>2. CASE d \notin 1..m
    <3>1. d \in (m + 1)..Len(stack')
      BY <1>0, <2>2
    <3> QED BY <3>1
  <2> QED BY <2>1, <2>2
<1> QED BY <1>1, <1>2, <1>3, <1>4, <1>5 DEF GraphNext, Graph, N

\* block b of the next state is accounted for
Settled(in, rk, b) == OpenIn(blocks', stack', b) \/ Wired(blocks', flow', in, rk, b)

\* The block of the scope below belongs to that scope.
LEMMA UnderLive ==
    ASSUME Ranged, NEW d \in 1..Depth, d > 1
    PROVE  d - 1 \in 1..Depth /\ Under(stack, d) = stack[d - 1].block /\ Under(stack, d) \in Live(stack[d - 1]) /\ Under(stack, d) \in 1..N
<1>0. PICK e : e = d - 1
  OBVIOUS
<1>1. e \in 1..Depth /\ d # 1
  BY <1>0, BaseIs
<1>2. Under(stack, d) = stack[e].block
  BY <1>0, <1>1 DEF Under
<1>3. stack[e].block \in 1..N
  BY <1>1, ScopeFits DEF Fits
<1> QED BY <1>0, <1>1, <1>2, <1>3 DEF Live

\* The current scope goes on as t.
LEMMA GraphTop ==
    ASSUME Ranged, Formed, Struct, Emitted, NEW in, NEW rk, GraphNow(in, rk), NEW c, c = Cur.block, Local(Depth - 1, {c}),
           NEW in2, NEW rk2, NEW G, Keeps(in, rk, in2, rk2, G), N' \in Nat, Len(stack') = Depth,
           \A d \in 1..Depth : Core(stack[d], stack'[d]) /\ stack[d].breaks \subseteq stack'[d].breaks /\ stack[d].continues \subseteq stack'[d].continues,
           \A d \in 1..Depth : (d > 1 /\ Under(stack, d) \in G) \/ (HasCond(stack[d]) /\ stack[d].cond \in G) =>
               Joined(blocks', flow', in2, rk2, stack'[d], d, Under(stack, d)),
           \A b \in G : b # c /\ I(b) = <<>> /\ OpenIn(blocks, stack, b),
           NEW t, t = stack'[Depth], rk2[t.block] = Depth, \A b \in (N + 1)..N' : rk2[b] \in 1..N',
           Inside(blocks', flow', in2, c), Settled(in2, rk2, c),
           \A b \in (N + 1)..N' : Inside(blocks', flow', in2, b) /\ Settled(in2, rk2, b),
           Here(blocks', flow', in2, rk2, t, exits')
    PROVE  GraphNext(in2, rk2)
<1>0. PICK m : m = Depth - 1
  OBVIOUS
<1>1. Local(m, {c}) /\ m \in Nat /\ Depth \in Nat /\ Depth >= 1 /\ Len(stack') \in Nat /\ N \in Nat /\ c \in 1..N /\ Cur = stack[Depth] /\ Depth \in 1..Depth
  BY <1>0, TopIs
<1>2. OnlyAt({c}) /\ N <= N' /\ \A d \in 1..m : stack'[d].block = stack[d].block
  BY <1>1 DEF Local
<1>3. \A d \in 1..Depth : Under(stack', d) = Under(stack, d)
  <2>1. \A d \in 1..Depth : d # 1 => d - 1 \in 1..m
    BY <1>0, <1>1
  <2> QED BY <1>2, <2>1 DEF Under
<1>4. \A d \in 1..m : d \in 1..Depth
  BY <1>0, <1>1
<1>5. \A d \in (m + 1)..Len(stack') : d = Depth
  BY <1>0, <1>1
<1>6. Joined(blocks', flow', in2, rk2, t, Depth, Under(stack, Depth))
  <2>0. PICK B, n : B = Under(stack, n) /\ n = Depth
    OBVIOUS
  <2>1. CASE (n > 1 /\ B \in G) \/ (HasCond(Cur) /\ Cur.cond \in G)
    BY <1>1, <2>0, <2>1
  <2>2. CASE ~((n > 1 /\ B \in G) \/ (HasCond(Cur) /\ Cur.cond \in G))
    <3>1. HasCond(Cur) => Cur.cond # c /\ Cur.cond \in 1..N
      BY TopIs, ScopeFits, <1>1 DEF Keen, Live
    <3>2. HasCond(Cur) => blocks'[Cur.cond] = blocks[Cur.cond] /\ Cur.cond \notin G
      BY <1>2, <2>2, <3>1 DEF OnlyAt
    <3>3. n > 1 => B # c /\ B \in 1..N
      BY <2>0, UnderIs
    <3>4. n > 1 => B \in 1..N /\ blocks'[B] = blocks[B] /\ B \notin G
      BY <1>2, <2>2, <3>3 DEF OnlyAt
    <3>5. Joined(blocks, flow, in, rk, Cur, n, B)
      BY <1>1, <2>0 DEF GraphNow, Graph, Depth
    <3>6. n \in 1..Depth /\ Cur = stack[n] /\ Core(Cur, t) /\ Cur.breaks \subseteq t.breaks /\ Cur.continues \subseteq t.continues /\ rk2[t.block] = n
      BY <1>1, <2>0
    <3>7. Joined(blocks', flow', in2, rk2, t, n, B)
      BY <3>2, <3>4, <3>5, <3>6, JoinedKept
    <3> QED BY <2>0, <3>7
  <2> QED BY <2>1, <2>2
<1>7. ASSUME NEW b, OpenIn(blocks, stack, b), b # c, b \in 1..N PROVE OpenIn(blocks', stack', b)
  <2>1. PICK d \in 1..Depth : OpenAt(blocks, stack[d], b)
    BY <1>7 DEF OpenIn, Depth
  <2>2. blocks'[b] = blocks[b]
    BY <1>2, <1>7 DEF OnlyAt
  <2>3. b = stack[d].block => b = stack'[d].block
    BY <1>0, <1>1, <1>2, <1>7
  <2>4. OpenAt(blocks', stack'[d], b)
    BY <2>1, <2>2, <2>3, OpenKept
  <2> QED BY <2>4 DEF OpenIn
<1>8. ASSUME NEW b \in 1..N', b \in {c} \/ b \notin 1..N \/ (b \in G /\ I(b) = <<>>) \/ (\E k \in (m + 1)..Depth : OpenAt(blocks, stack[k], b))
      PROVE  OpenIn(blocks', stack', b) \/ Wired(blocks', flow', in2, rk2, b)
  <2>1. CASE b = c
    BY <2>1 DEF Settled
  <2>2. CASE b \notin 1..N
    <3>1. b \in (N + 1)..N'
      BY <1>1, <1>2, <2>2
    <3> QED BY <3>1 DEF Settled
  <2>3. CASE b \in 1..N /\ b # c
    <3>1. (\E k \in (m + 1)..Depth : OpenAt(blocks, stack[k], b)) => OpenIn(blocks, stack, b)
      <4>1. \A k \in (m + 1)..Depth : k \in 1..Len(stack)
        BY <1>1 DEF Depth
      <4> QED BY <4>1 DEF OpenIn
    <3> QED BY <1>7, <1>8, <2>3, <3>1
  <2> QED BY <2>1, <2>2, <2>3
<1>9. ASSUME NEW b \in 1..N', b \in {c} \/ b \notin 1..N \/ (b \in G /\ I(b) # <<>>) PROVE Inside(blocks', flow', in2, b)
  <2>1. b = c \/ b \in (N + 1)..N'
    BY <1>1, <1>2, <1>9
  <2> QED BY <2>1
<1>10. \A d \in 1..m : stack[d].breaks \subseteq stack'[d].breaks /\ stack[d].continues \subseteq stack'[d].continues
  BY <1>4
<1>11. \A d \in 1..m : (d > 1 /\ Under(stack, d) \in G) \/ (HasCond(stack[d]) /\ stack[d].cond \in G) =>
               Joined(blocks', flow', in2, rk2, stack'[d], d, Under(stack', d))
  BY <1>3, <1>4
<1>12. \A d \in (m + 1)..Len(stack') : Joined(blocks', flow', in2, rk2, stack'[d], d, Under(stack', d))
  BY <1>1, <1>3, <1>5, <1>6
<1>13. Here(blocks', flow', in2, rk2, stack'[Len(stack')], exits')
  OBVIOUS
<1> QED BY <1>1, <1>8, <1>9, <1>10, <1>11, <1>12, <1>13, GraphStep

\* A scope t is opened above the current one, which goes on as s.
LEMMA GraphPush ==
    ASSUME Ranged, Formed, Struct, Emitted, NEW in, NEW rk, GraphNow(in, rk), NEW c, c = Cur.block, Local(Depth - 1, {c}),
           NEW in2, NEW rk2, Keeps(in, rk, in2, rk2, {}), N' \in Nat, Len(stack') = Depth + 1,
           \A d \in 1..Depth : Core(stack[d], stack'[d]) /\ Loops(stack[d], stack'[d]),
           NEW s, s = stack'[Depth], rk2[s.block] = Depth,
           NEW t, t = stack'[Depth + 1], Joined(blocks', flow', in2, rk2, t, Depth + 1, s.block),
           \A b \in (N + 1)..N' : rk2[b] \in 1..N' /\ Inside(blocks', flow', in2, b) /\ Settled(in2, rk2, b),
           Inside(blocks', flow', in2, c), Settled(in2, rk2, c),
           Here(blocks', flow', in2, rk2, t, exits')
    PROVE  GraphNext(in2, rk2)
<1>0. PICK m : m = Depth - 1
  OBVIOUS
<1>1. Local(m, {c}) /\ m \in Nat /\ Depth \in Nat /\ Depth >= 1 /\ Len(stack') \in Nat /\ N \in Nat /\ c \in 1..N /\ Cur = stack[Depth] /\ Depth \in 1..Depth
  BY <1>0, TopIs
<1>2. OnlyAt({c}) /\ N <= N' /\ \A d \in 1..m : stack'[d].block = stack[d].block
  BY <1>1 DEF Local
<1>3. \A d \in 1..Depth : Under(stack', d) = Under(stack, d)
  <2>1. \A d \in 1..Depth : d # 1 => d - 1 \in 1..m
    BY <1>0, <1>1
  <2> QED BY <1>2, <2>1 DEF Under
<1>4. \A d \in 1..m : d \in 1..Depth
  BY <1>0, <1>1
<1>5. \A d \in (m + 1)..Len(stack') : d = Depth \/ d = Depth + 1
  BY <1>0, <1>1
<1>14. Under(stack', Depth + 1) = s.block
  BY <1>1 DEF Under
<1>6. Joined(blocks', flow', in2, rk2, s, Depth, Under(stack, Depth))
  <2>0. PICK B, n : B = Under(stack, n) /\ n = Depth
    OBVIOUS
  <2>1. HasCond(Cur) => Cur.cond # c /\ Cur.cond \in 1..N
    BY TopIs, <1>1 DEF Keen, Live
  <2>2. HasCond(Cur) => blocks'[Cur.cond] = blocks[Cur.cond] /\ Cur.cond \notin {}
    BY <1>2, <2>1 DEF OnlyAt
  <2>3. n > 1 => B # c /\ B \in 1..N
    BY <2>0, UnderIs
  <2>4. n > 1 => B \in 1..N /\ blocks'[B] = blocks[B] /\ B \notin {}
    BY <1>2, <2>3 DEF OnlyAt
  <2>5. Joined(blocks, flow, in, rk, Cur, n, B)
    BY <1>1, <2>0 DEF GraphNow, Graph, Depth
  <2>6. n \in 1..Depth /\ Cur = stack[n] /\ Core(Cur, s) /\ Cur.breaks \subseteq s.breaks /\ Cur.continues \subseteq s.continues /\ rk2[s.block] = n
    BY <1>1, <2>0 DEF Loops
  <2>7. Joined(blocks', flow', in2, rk2, s, n, B)
    BY <2>2, <2>4, <2>5, <2>6, JoinedKept
  <2> QED BY <2>0, <2>7
<1>8. ASSUME NEW b \in 1..N', b \in {c} \/ b \notin 1..N \/ (\E k \in (m + 1)..Depth : OpenAt(blocks, stack[k], b))
      PROVE  OpenIn(blocks', stack', b) \/ Wired(blocks', flow', in2, rk2, b)
  <2>1. CASE b = c
    BY <2>1 DEF Settled
  <2>2. CASE b \notin 1..N
    <3>1. b \in (N + 1)..N'
      BY <1>1, <1>2, <2>2
    <3> QED BY <3>1 DEF Settled
  <2>3. CASE b \in 1..N /\ b # c
    <3>1. OpenAt(blocks, Cur, b)
      <4>1. \A k \in (m + 1)..Depth : k = Depth
        BY <1>0, <1>1
      <4> QED BY <1>1, <1>8, <2>3, <4>1
    <3>2. blocks'[b] = blocks[b] /\ Core(Cur, s)
      BY <1>1, <1>2, <2>3 DEF OnlyAt
    <3>3. OpenAt(blocks', s, b)
      BY <2>3, <3>1, <3>2, OpenKept
    <3>4. Depth \in 1..Len(stack')
      BY <1>1
    <3> QED BY <3>3, <3>4 DEF OpenIn
  <2> QED BY <2>1, <2>2, <2>3
<1>9. ASSUME NEW b \in 1..N', b \in {c} \/ b \notin 1..N PROVE Inside(blocks', flow', in2, b)
  <2>1. b = c \/ b \in (N + 1)..N'
    BY <1>1, <1>2, <1>9
  <2> QED BY <2>1
<1>10. \A d \in 1..m : stack[d].breaks \subseteq stack'[d].breaks /\ stack[d].continues \subseteq stack'[d].continues
  BY <1>4 DEF Loops
<1>12. \A d \in (m + 1)..Len(stack') : Joined(blocks', flow', in2, rk2, stack'[d], d, Under(stack', d))
  BY <1>1, <1>3, <1>5, <1>6, <1>14
<1>13. Here(blocks', flow', in2, rk2, stack'[Len(stack')], exits')
  OBVIOUS
<1>15. \A b \in (N + 1)..N' : rk2[b] \in 1..N'
  OBVIOUS
<1> QED BY <1>1, <1>8, <1>9, <1>10, <1>12, <1>13, <1>15, GraphStep

\* The current scope is closed and the one below goes on as s.
LEMMA GraphPop ==
    ASSUME Ranged, Formed, Struct, Emitted, NEW in, NEW rk, GraphNow(in, rk), Depth > 1, NEW T, Local(Depth - 2, T),
           \A x \in T : x \in Live(Cur) \/ x = Parent.block,
           NEW in2, NEW rk2, NEW G, Keeps(in, rk, in2, rk2, G), \A x \in G : x \in Live(Cur) \/ x = Parent.block,
           N' \in Nat, Len(stack') = Depth - 1,
           \A d \in 1..(Depth - 1) : Core(stack[d], stack'[d]) /\ Loops(stack[d], stack'[d]),
           NEW s, s = stack'[Depth - 1], rk2[s.block] = Depth - 1,
           \A b \in (N + 1)..N' : rk2[b] \in 1..N' /\ Inside(blocks', flow', in2, b) /\ Settled(in2, rk2, b),
           \A b \in T \union G : Inside(blocks', flow', in2, b) /\ Settled(in2, rk2, b),
           Settled(in2, rk2, Cur.block), Settled(in2, rk2, Parent.block),
           HasCond(Cur) => Settled(in2, rk2, Cur.cond),
           Here(blocks', flow', in2, rk2, s, exits')
    PROVE  GraphNext(in2, rk2)
<1>0. PICK m, n : m = Depth - 2 /\ n = Depth - 1
  OBVIOUS
<1>1. Local(m, T) /\ m \in Nat /\ n \in Nat /\ Depth \in Nat /\ Len(stack') \in Nat /\ N \in Nat /\ Len(stack') = n /\ n \in 1..Depth /\ n # Depth /\ Depth \in 1..Depth
  BY <1>0, BaseIs
<1>2. OnlyAt(T) /\ N <= N' /\ \A d \in 1..m : stack'[d].block = stack[d].block
  BY <1>1 DEF Local
<1>3. \A d \in 1..n : Under(stack', d) = Under(stack, d)
  <2>1. \A d \in 1..n : d # 1 => d - 1 \in 1..m
    BY <1>0, <1>1
  <2> QED BY <1>2, <2>1 DEF Under
<1>4. \A d \in 1..m : d \in 1..n /\ d \in 1..Depth /\ d # n /\ d # Depth
  BY <1>0, <1>1
<1>5. \A d \in (m + 1)..Len(stack') : d = n
  BY <1>0, <1>1
<1>6. Cur = stack[Depth] /\ Parent = stack[n] /\ Parent.block \in Live(Parent) /\ Keen(Parent) /\ \A x \in Live(Parent) : x \in 1..N /\ x \notin Live(Cur)
  BY <1>0, <1>1, ParentIs DEF Cur, Parent
\* blocks of lower scopes
<1>7. ASSUME NEW d \in 1..m, NEW x \in Live(stack[d]) PROVE x \notin T /\ x \notin G
  <2>1. x \notin Live(Cur) /\ x \notin Live(Parent)
    BY <1>1, <1>4, <1>6 DEF Struct
  <2> QED BY <1>6, <2>1
<1>8. HasCond(Parent) => Parent.cond \in 1..N /\ Parent.cond \notin T /\ Parent.cond \notin G
  BY <1>6 DEF Live, Keen
<1>9. ASSUME NEW d \in 1..n, d > 1 PROVE Under(stack, d) \in 1..N /\ Under(stack, d) \notin T /\ Under(stack, d) \notin G
  <2>0. PICK e : e = d - 1
    OBVIOUS
  <2>1. e \in 1..m /\ d \in 1..Depth
    BY <1>0, <1>1, <1>9, <2>0
  <2>2. Under(stack, d) \in Live(stack[e]) /\ Under(stack, d) \in 1..N
    BY <1>9, <2>0, <2>1, UnderLive
  <2> QED BY <1>7, <2>1, <2>2
<1>10. Joined(blocks', flow', in2, rk2, s, n, Under(stack, n))
  <2>0. PICK B : B = Under(stack, n)
    OBVIOUS
  <2>1. n > 1 => B \in 1..N /\ blocks'[B] = blocks[B] /\ B \notin G
    <3>1. n \in 1..n
      BY <1>1
    <3> QED BY <1>2, <1>9, <2>0, <3>1 DEF OnlyAt
  <2>2. HasCond(Parent) => blocks'[Parent.cond] = blocks[Parent.cond] /\ Parent.cond \notin G
    BY <1>2, <1>8 DEF OnlyAt
  <2>3. Joined(blocks, flow, in, rk, Parent, n, B)
    BY <1>1, <1>6, <2>0 DEF GraphNow, Graph, Depth
  <2>4. n \in 1..(Depth - 1) /\ s = stack'[n]
    BY <1>0, <1>1
  <2>5. Core(Parent, s) /\ Parent.breaks \subseteq s.breaks /\ Parent.continues \subseteq s.continues /\ rk2[s.block] = n
    BY <1>0, <1>6, <2>4 DEF Loops
  <2>6. Joined(blocks', flow', in2, rk2, s, n, B)
    BY <1>1, <1>6, <2>1, <2>2, <2>3, <2>5, JoinedKept
  <2> QED BY <2>0, <2>6
<1>11. ASSUME NEW b \in 1..N', b \in T \/ b \notin 1..N \/ (b \in G /\ I(b) = <<>>) \/ (\E k \in (m + 1)..Depth : OpenAt(blocks, stack[k], b))
      PROVE  OpenIn(blocks', stack', b) \/ Wired(blocks', flow', in2, rk2, b)
  <2>1. CASE b \in T \union G
    BY <2>1 DEF Settled
  <2>2. CASE b \notin 1..N
    <3>1. b \in (N + 1)..N'
      BY <1>1, <1>2, <2>2
    <3> QED BY <3>1 DEF Settled
  <2>3. CASE b \in 1..N /\ b \notin T \union G
    <3>1. OpenAt(blocks, Cur, b) \/ OpenAt(blocks, Parent, b)
      <4>1. \A k \in (m + 1)..Depth : k = Depth \/ k = n
        BY <1>0, <1>1
      <4> QED BY <1>6, <1>11, <2>3, <4>1
    <3>2. CASE OpenAt(blocks, Cur, b)
      BY <3>2 DEF OpenAt, Settled, HasCond
    <3>3. CASE OpenAt(blocks, Parent, b) /\ b # Parent.block
      <4>1. blocks'[b] = blocks[b]
        BY <1>2, <2>3 DEF OnlyAt
      <4>2. n \in 1..(Depth - 1) /\ s = stack'[n]
        BY <1>0, <1>1
      <4>3. Core(Parent, s)
        BY <1>6, <4>2
      <4>4. OpenAt(blocks', s, b)
        BY <3>3, <4>1, <4>3, OpenKept
      <4>5. n \in 1..Len(stack')
        BY <1>1
      <4> QED BY <4>2, <4>4, <4>5 DEF OpenIn
    <3>4. CASE b = Parent.block
      BY <3>4 DEF Settled
    <3> QED BY <3>1, <3>2, <3>3, <3>4
  <2> QED BY <2>1, <2>2, <2>3
<1>12. ASSUME NEW b \in 1..N', b \in T \/ b \notin 1..N \/ (b \in G /\ I(b) # <<>>) PROVE Inside(blocks', flow', in2, b)
  <2>1. b \in T \union G \/ b \in (N + 1)..N'
    BY <1>1, <1>2, <1>12
  <2> QED BY <2>1
<1>13. \A d \in 1..m : stack[d].breaks \subseteq stack'[d].breaks /\ stack[d].continues \subseteq stack'[d].continues
  <2>1. \A d \in 1..m : d \in 1..(Depth - 1)
    BY <1>0, <1>1
  <2> QED BY <2>1 DEF Loops
<1>14. \A d \in 1..m : ~((d > 1 /\ Under(stack, d) \in G) \/ (HasCond(stack[d]) /\ stack[d].cond \in G))
  <2>1. \A d \in 1..m : HasCond(stack[d]) => stack[d].cond \in Live(stack[d])
    BY DEF Live
  <2> QED BY <1>4, <1>7, <1>9, <2>1
<1>15. \A d \in (m + 1)..Len(stack') : Joined(blocks', flow', in2, rk2, stack'[d], d, Under(stack', d))
  <2>1. n \in 1..n /\ s = stack'[n]
    BY <1>0, <1>1
  <2> QED BY <1>3, <1>5, <1>10, <2>1
<1>16. Here(blocks', flow', in2, rk2, stack'[Len(stack')], exits')
  BY <1>0, <1>1
<1>17. \A b \in (N + 1)..N' : rk2[b] \in 1..N'
  OBVIOUS
<1> QED BY <1>1, <1>11, <1>12, <1>13, <1>14, <1>15, <1>16, <1>17, GraphStep

\* The invariants that the graph rests on.
Known == Ranged /\ Source /\ Struct /\ Placed /\ Tails /\ Quiet /\ Targets

\* Those that most steps use.
LEMMA Known1 == ASSUME Known PROVE Ranged /\ Typed /\ Formed /\ Struct /\ Emitted /\ Below
  BY BaseIs DEF Known, Source, Placed

\* h is f up to n, and has other values behind
Ext(h, f, n, k, X) == (\A b \in 1..n : h[b] = f[b]) /\ h[k] = X
Ext3(h, f, n, k, X, Y, Z) == (\A b \in 1..n : h[b] = f[b]) /\ h[k] = X /\ h[k + 1] = Y /\ h[k + 2] = Z
\* h is f, with more for the members of G
More(h, f, n, G, X) == \A b \in 1..n : h[b] = IF b \in G THEN f[b] \union X ELSE f[b]

\* A function can be given a value more.
LEMMA ExtIs ==
    ASSUME NEW f, NEW X, NEW n \in Nat, NEW k, k = n + 1
    PROVE  \E h : Ext(h, f, n, k, X)
<1> DEFINE h == [b \in 1..k |-> IF b = k THEN X ELSE f[b]]
<1>1. (\A b \in 1..n : h[b] = f[b]) /\ h[k] = X
  OBVIOUS
<1> QED BY <1>1 DEF Ext

\* A function can be given three values more.
LEMMA Ext3Is ==
    ASSUME NEW f, NEW X, NEW Y, NEW Z, NEW n \in Nat, NEW k, k = n + 1
    PROVE  \E h : Ext3(h, f, n, k, X, Y, Z)
<1> DEFINE h == [b \in 1..(k + 2) |-> IF b = k THEN X ELSE IF b = k + 1 THEN Y ELSE IF b = k + 2 THEN Z ELSE f[b]]
<1>1. (\A b \in 1..n : h[b] = f[b]) /\ h[k] = X /\ h[k + 1] = Y /\ h[k + 2] = Z
  OBVIOUS
<1> QED BY <1>1 DEF Ext3

\* A function can be given more at the members of G.
LEMMA MoreIs ==
    ASSUME NEW f, NEW X, NEW G, NEW n \in Nat
    PROVE  \E h : More(h, f, n, G, X)
<1> DEFINE h == [b \in 1..n |-> IF b \in G THEN f[b] \union X ELSE f[b]]
<1>1. \A b \in 1..n : h[b] = IF b \in G THEN f[b] \union X ELSE f[b]
  OBVIOUS
<1> QED BY <1>1 DEF More

\* no new flow to an old point
LEMMA Calm ==
    ASSUME Typed, NEW q, q \notin 1..points, flow' = flow \union To(q)
    PROVE  flow \subseteq flow' /\ \A p : UsedIn(stack, points, p) /\ Enters(flow', p) => Enters(flow, p)
<1>1. ASSUME NEW p, UsedIn(stack, points, p), Enters(flow', p) PROVE Enters(flow, p)
  <2>1. PICK f \in flow' : f[3] = p
    BY <1>1 DEF Enters
  <2>2. f \notin To(q)
    BY <1>1, <2>1 DEF To, UsedIn
  <2> QED BY <2>1, <2>2 DEF Enters
<1> QED BY <1>1

\* A new point is not an old one.
LEMMA FreshPoint ==
    ASSUME Typed, Below, NEW q, q \in Nat, q > points
    PROVE  q \notin 1..points /\ ~Enters(flow, q)
<1>1. points \in Nat
  BY Sizes
<1>2. \A f \in flow : f[3] # q
  BY <1>1 DEF Below, Exit, Stray
<1> QED BY <1>1, <1>2 DEF Enters

\* The exits lead to a new point.
LEMMA NewSeen ==
    ASSUME Typed, Below, NEW q, q \in Nat, q > points, flow' = flow \union To(q)
    PROVE  (Enters(flow', q) => Reached) /\ Goes(flow', exits, q)
<1>1. ~Enters(flow, q)
  BY FreshPoint
<1>2. Enters(flow', q) => To(q) # {}
  BY <1>1 DEF Enters
<1>3. To(q) # {} => Reached
  BY DEF To, Reached
<1>4. Goes(flow', exits, q)
  BY DEF Goes, To
<1> QED BY <1>2, <1>3, <1>4

\* H enters no more of the points is than F
Calmer(F, H, is) == F \subseteq H /\ \A i \in 1..Len(is) : Enters(H, is[i]) => Enters(F, is[i])
\* cs is bs with p at the end of block b
Appended(bs, cs, b, p) == bs[b].insts \in Seq(Nat) /\ cs[b].insts = Append(bs[b].insts, p)

\* A point is put at the end of block b, to which whatever left b leads.
LEMMA InsideAppend ==
    ASSUME NEW bs, NEW F, NEW in, NEW b, Inside(bs, F, in, b), NEW H, Calmer(F, H, bs[b].insts),
           NEW p, Goes(H, Out(bs, F, in, b), p), NEW cs, Appended(bs, cs, b, p), NEW in2, in2[b] = in[b]
    PROVE  Inside(cs, H, in2, b) /\ cs[b].insts # <<>> /\ Last(cs, b) = p
<1>00. PICK is : is = bs[b].insts
  OBVIOUS
<1>000. is \in Seq(Nat) /\ F \subseteq H /\ (\A i \in 1..Len(is) : Enters(H, is[i]) => Enters(F, is[i])) /\ cs[b].insts = Append(is, p)
  BY <1>00 DEF Calmer, Appended
<1>0. PICK n, js : n = Len(is) /\ js = Append(is, p)
  OBVIOUS
<1>1. n \in Nat /\ Len(js) = n + 1 /\ js[n + 1] = p /\ (\A i \in 1..n : js[i] = is[i]) /\ js # <<>> /\ cs[b].insts = js
  BY <1>0, <1>000
<1>2. Last(cs, b) = p
  BY <1>1 DEF Last
<1>3. is = <<>> => Goes(H, in2[b], js[1])
  <2> SUFFICES ASSUME is = <<>> PROVE Goes(H, in2[b], js[1])
    OBVIOUS
  <2>1. n = 0 /\ js[1] = p
    BY <1>0, <1>1
  <2> QED BY <1>00, <2>1 DEF Out
<1>4. is # <<>> => Goes(H, in2[b], js[1])
  <2> SUFFICES ASSUME is # <<>> PROVE Goes(H, in2[b], js[1])
    OBVIOUS
  <2>1. 1 \in 1..n /\ js[1] = is[1]
    BY <1>0, <1>1, <1>000
  <2>2. Goes(F, in[b], is[1])
    BY <1>00 DEF Inside
  <2> QED BY <1>000, <2>1, <2>2 DEF Goes
<1>5. ASSUME NEW i \in 1..(Len(js) - 1), Enters(H, js[i]) PROVE <<js[i], "next", js[i + 1]>> \in H
  <2>1. i \in 1..n /\ js[i] = is[i]
    BY <1>1
  <2>2. Enters(F, is[i])
    BY <1>0, <1>000, <1>5, <2>1
  <2>3. CASE i = n
    <3>1. is # <<>> /\ is[i] = Last(bs, b)
      BY <1>0, <1>00, <1>000, <2>1, <2>3 DEF Last
    <3>2. <<is[i], "next">> \in Out(bs, F, in, b)
      BY <1>00, <2>2, <3>1 DEF Out
    <3>3. <<is[i], "next", p>> \in H
      BY <3>2 DEF Goes
    <3> QED BY <1>1, <2>1, <2>3, <3>3
  <2>4. CASE i # n
    <3>1. i \in 1..(Len(is) - 1) /\ i + 1 \in 1..n
      BY <1>0, <1>1, <2>1, <2>4
    <3>2. <<is[i], "next", is[i + 1]>> \in F
      BY <1>00, <2>2, <3>1 DEF Inside
    <3> QED BY <1>1, <1>000, <2>1, <3>1, <3>2
  <2> QED BY <2>3, <2>4
<1> QED BY <1>1, <1>2, <1>3, <1>4, <1>5 DEF Inside

\* The same of a step.
LEMMA InsideNext ==
    ASSUME Ranged, Emitted, NEW in, NEW rk, NEW in2, NEW rk2, NEW G, Keeps(in, rk, in2, rk2, G), NEW b \in 1..N, in2[b] = in[b],
           Inside(blocks, flow, in, b), NEW p, Goes(flow', Out(blocks, flow, in, b), p), blocks'[b].insts = Append(I(b), p)
    PROVE  Inside(blocks', flow', in2, b) /\ blocks'[b].insts # <<>> /\ Last(blocks', b) = p
<1>1. blocks[b].insts \in Seq(Nat) /\ blocks[b].insts = I(b)
  BY InstsIs DEF I
<1>2. Calmer(flow, flow', blocks[b].insts)
  BY <1>1 DEF Calmer, Keeps, Emitted
<1>3. Appended(blocks, blocks', b, p)
  BY <1>1 DEF Appended
<1> QED BY <1>2, <1>3, InsideAppend

\* An empty block has nothing inside.
LEMMA InsideEmpty == ASSUME NEW bs, NEW F, NEW in, NEW b, bs[b].insts = <<>> PROVE Inside(bs, F, in, b)
  BY DEF Inside

\* a block that nothing leaves is wired, if it ends
LEMMA WiredEmpty ==
    ASSUME NEW bs, NEW F, NEW in, NEW rk, NEW b, PendIn(bs, b), bs[b].term # "none", Out(bs, F, in, b) = {}
    PROVE  Wired(bs, F, in, rk, b)
  BY DEF Wired, PendIn, Leads, Goes, Out

\* A block that goes on in t is wired.
LEMMA WiredBr ==
    ASSUME NEW bs, NEW F, NEW in, NEW rk, NEW b, NEW t, bs[b].term = "br", bs[b].to = <<t>>, Out(bs, F, in, b) \subseteq in[t],
           bs[t].insts # <<>> \/ rk[t] < rk[b]
    PROVE  Wired(bs, F, in, rk, b)
  BY DEF Wired, Leads

\* What leaves a block leaves its last point.
LEMMA OutLast ==
    ASSUME NEW bs, NEW F, NEW in, NEW b, bs[b].insts # <<>>, NEW p, Last(bs, b) = p, NEW X, Enters(F, p) => <<p, "next">> \in X
    PROVE  Out(bs, F, in, b) \subseteq X
  BY DEF Out

\* The current block, while the source goes on.
LEMMA CurNow ==
    ASSUME Known, NEW in, NEW rk, GraphNow(in, rk), NEW c, c = Cur.block
    PROVE  /\ c \in 1..N /\ I(c) \in Seq(Nat) /\ Inside(blocks, flow, in, c) /\ rk[c] = Depth /\ Depth <= N /\ N \in Nat /\ Depth \in Nat /\ Depth >= 1
           /\ Joined(blocks, flow, in, rk, Cur, Depth, Under(stack, Depth))
           /\ Cur.jumped = "no" => Out(blocks, flow, in, c) \subseteq exits
           /\ \A i \in 1..Len(I(c)) : UsedIn(stack, points, I(c)[i])
           /\ PendIn(blocks, c)
<1>1. Ranged /\ Struct /\ Emitted
  BY Known1
<1>2. c \in 1..N /\ N \in Nat /\ I(c) \in Seq(Nat) /\ Depth \in Nat /\ Depth \in 1..Depth /\ Cur = stack[Depth] /\ PendIn(blocks, c)
  BY <1>1, TopIs
<1>3. Inside(blocks, flow, in, c)
  BY <1>2 DEF GraphNow, Graph, N
<1>4. Joined(blocks, flow, in, rk, Cur, Depth, Under(stack, Depth))
  BY <1>2 DEF GraphNow, Graph, Depth
<1>5. rk[c] = Depth
  BY <1>4 DEF Joined
<1>6. Cur.jumped = "no" => Out(blocks, flow, in, c) \subseteq exits
  <2>1. Here(blocks, flow, in, rk, Cur, exits)
    BY DEF GraphNow, Graph, Cur, Depth
  <2> QED BY <2>1 DEF Here
<1>7. Depth <= N
  BY <1>1 DEF Ranged
<1>8. \A i \in 1..Len(I(c)) : UsedIn(stack, points, I(c)[i])
  BY <1>1, <1>2 DEF Emitted
<1> QED BY <1>2, <1>3, <1>4, <1>5, <1>6, <1>7, <1>8

\* A simple statement keeps the graph, in a form that the generator handles.
LEMMA GraphStatement ==
    ASSUME Known, NEW in, NEW rk, GraphNow(in, rk), NEW isDef \in BOOLEAN, Statement(isDef), ~odd'
    PROVE  GraphNext(in, rk)
<1>0. PICK p, c, t : p = points + 1 /\ c = Cur.block /\ t = stack'[Depth]
  OBVIOUS
<1>1. Ranged /\ Typed /\ Formed /\ Struct /\ Emitted /\ Below
  BY Known1
<1>2. points' = p /\ flow' = flow \union To(p) /\ exits' = (IF Reached THEN {<<p, "next">>} ELSE {}) /\ Cur.jumped = "no"
  BY <1>0 DEF Statement, Dead
<1>3. p \in Nat /\ p > points /\ p \notin 1..points
  BY <1>0, <1>1, Sizes
<1>4. Len(stack') = Depth /\ (\A d \in 1..Depth : d # Depth => stack'[d] = stack[d]) /\ Core(Cur, t) /\ Loops(Cur, t) /\ t.block = c /\ t.jumped = "no"
  BY <1>0, <1>1, <1>2, StatementStack
<1>5. \A d \in 1..Depth : Core(stack[d], stack'[d]) /\ stack[d].breaks \subseteq stack'[d].breaks /\ stack[d].continues \subseteq stack'[d].continues
  BY <1>0, <1>4, SelfIs DEF Cur, Loops
<1>6. N' = N /\ Made(c, Append(I(c), p), Term(c), Tos(c)) /\ Local(Depth - 1, {c})
  BY <1>0, <1>1, StatementBlocks, StructStatement
<1>7. Keeps(in, rk, in, rk, {})
  BY <1>1, <1>2, <1>3, Calm DEF Keeps
<1>8. c \in 1..N /\ I(c) \in Seq(Nat) /\ Inside(blocks, flow, in, c) /\ rk[c] = Depth /\ N \in Nat /\ Depth \in Nat /\ Depth >= 1
      /\ Out(blocks, flow, in, c) \subseteq exits /\ \A i \in 1..Len(I(c)) : UsedIn(stack, points, I(c)[i])
  BY <1>0, <1>2, CurNow
<1>9. (Enters(flow', p) => Reached) /\ Goes(flow', exits, p)
  BY <1>1, <1>2, <1>3, NewSeen
<1>10. Inside(blocks', flow', in, c) /\ blocks'[c].insts # <<>> /\ Last(blocks', c) = p
  <2>1. Goes(flow', Out(blocks, flow, in, c), p)
    BY <1>8, <1>9 DEF Goes
  <2>2. blocks'[c].insts = Append(I(c), p)
    BY <1>6 DEF Made
  <2> QED BY <1>1, <1>7, <1>8, <2>1, <2>2, InsideNext
<1>11. Settled(in, rk, c)
  <2>1. Depth \in 1..Len(stack') /\ OpenAt(blocks', stack'[Depth], c)
    BY <1>0, <1>4, <1>8 DEF OpenAt
  <2> QED BY <2>1 DEF Settled, OpenIn
<1>12. Here(blocks', flow', in, rk, t, exits')
  <2>1. Enters(flow', p) => <<p, "next">> \in exits'
    BY <1>2, <1>9
  <2>2. Out(blocks', flow', in, c) \subseteq exits'
    BY <1>10, <2>1, OutLast
  <2> QED BY <1>4, <2>2 DEF Here
<1>13. N' \in Nat /\ \A b \in (N + 1)..N' : FALSE
  BY <1>6, <1>8
<1> QED BY <1>0, <1>1, <1>4, <1>5, <1>6, <1>7, <1>8, <1>10, <1>11, <1>12, <1>13, GraphTop

\* A step that makes new blocks leaves the exits alone.
LEMMA KeepsExt ==
    ASSUME Typed, NEW in, NEW rk, NEW in2, NEW rk2, \A b \in 1..N : in2[b] = in[b], \A b \in 1..N : rk2[b] = rk[b],
           NEW q, q \notin 1..points, flow' = flow \union To(q)
    PROVE  Keeps(in, rk, in2, rk2, {})
  BY Calm DEF Keeps

\* A block that returns is wired.
LEMMA WiredRet ==
    ASSUME NEW bs, NEW F, NEW in, NEW rk, NEW b, bs[b].term = "ret", Goes(F, Out(bs, F, in, b), Exit)
    PROVE  Wired(bs, F, in, rk, b)
  BY DEF Wired

\* A block with a condition is wired.
LEMMA WiredCond ==
    ASSUME NEW bs, NEW F, NEW in, NEW rk, NEW b, NEW x, NEW y, bs[b].term = "cond", bs[b].to = <<x, y>>, bs[b].insts # <<>>,
           NEW p, Last(bs, b) = p, Enters(F, p) => <<p, "true">> \in in[x] /\ <<p, "false">> \in in[y]
    PROVE  Wired(bs, F, in, rk, b)
  BY DEF Wired

\* A block that yields is wired.
LEMMA WiredYield ==
    ASSUME NEW bs, NEW F, NEW in, NEW rk, NEW b, NEW x, bs[b].term = "yield", bs[b].to = <<x>>, bs[b].insts # <<>>,
           NEW p, Last(bs, b) = p, Enters(F, p) => <<p, "resume">> \in in[x]
    PROVE  Wired(bs, F, in, rk, b)
  BY DEF Wired

\* A block that a scope has not ended is accounted for.
LEMMA SettledOpen == ASSUME NEW in, NEW rk, NEW d \in 1..Len(stack'), NEW b, OpenAt(blocks', stack'[d], b) PROVE Settled(in, rk, b)
  BY DEF Settled, OpenIn

\* So is the block that a scope goes on in.
LEMMA SettledBlock == ASSUME NEW in, NEW rk, NEW d \in 1..Len(stack') PROVE Settled(in, rk, stack'[d].block)
  BY DEF Settled, OpenIn, OpenAt

\* A scope that the source has not ended has not jumped.
LEMMA StillGoes == ASSUME Known, phase = "compile", ~odd, Cur.tail # "ended" PROVE Cur.jumped = "no"
  BY DEF Known, Quiet, QuietIs, Cur

\* Yield or await keeps the graph, in a form that the generator handles.
LEMMA GraphSuspend ==
    ASSUME Known, NEW in, NEW rk, GraphNow(in, rk), Suspend, ~odd'
    PROVE  \E in2, rk2 : GraphNext(in2, rk2)
<1>0. PICK p, c, t, k : p = points + 1 /\ c = Cur.block /\ t = stack'[Depth] /\ k = N + 1
  OBVIOUS
<1>1. Ranged /\ Typed /\ Formed /\ Struct /\ Emitted /\ Below
  BY Known1
<1>2. points' = p /\ flow' = flow \union To(p) /\ exits' = (IF Reached THEN {<<p, "resume">>} ELSE {}) /\ Cur.jumped = "no"
  BY <1>0 DEF Suspend, Dead
<1>3. p \in Nat /\ p > points /\ p \notin 1..points
  BY <1>0, <1>1, Sizes
<1>8. c \in 1..N /\ Inside(blocks, flow, in, c) /\ rk[c] = Depth /\ N \in Nat /\ Depth \in Nat /\ Depth >= 1 /\ Depth <= N
      /\ Out(blocks, flow, in, c) \subseteq exits
  BY <1>0, <1>2, CurNow
<1>14. SetCur(Moved(Cur, k, "open")) /\ k \in Nat
  BY <1>0, <1>8 DEF Suspend, Moved, N
<1>4. Len(stack') = Depth /\ (\A d \in 1..Depth : d # Depth => stack'[d] = stack[d]) /\ Core(Cur, t) /\ Loops(Cur, t) /\ t.block = k /\ t.jumped = "no"
  BY <1>0, <1>1, <1>2, <1>14, MovedStack
<1>5. \A d \in 1..Depth : Core(stack[d], stack'[d]) /\ stack[d].breaks \subseteq stack'[d].breaks /\ stack[d].continues \subseteq stack'[d].continues
  BY <1>0, <1>4, SelfIs DEF Cur, Loops
<1>6. N' = k /\ Made(c, Append(I(c), p), "yield", <<k>>) /\ Fresh(k) /\ Local(Depth - 1, {c})
  BY <1>0, <1>1, SuspendBlocks, StructSuspend
<1>18. PICK in2 : Ext(in2, in, N, k, exits')
  BY <1>0, <1>8, ExtIs
<1>19. PICK rk2 : Ext(rk2, rk, N, k, Depth)
  BY <1>0, <1>8, ExtIs
<1>15. (\A b \in 1..N : in2[b] = in[b]) /\ in2[k] = exits'
  BY <1>18 DEF Ext
<1>16. (\A b \in 1..N : rk2[b] = rk[b]) /\ rk2[k] = Depth
  BY <1>19 DEF Ext
<1>7. Keeps(in, rk, in2, rk2, {})
  BY <1>1, <1>2, <1>3, <1>15, <1>16, KeepsExt
<1>9. (Enters(flow', p) => Reached) /\ Goes(flow', exits, p)
  BY <1>1, <1>2, <1>3, NewSeen
<1>10. Inside(blocks', flow', in2, c) /\ blocks'[c].insts # <<>> /\ Last(blocks', c) = p
  <2>1. Goes(flow', Out(blocks, flow, in, c), p)
    BY <1>8, <1>9 DEF Goes
  <2>2. blocks'[c].insts = Append(I(c), p) /\ in2[c] = in[c]
    BY <1>6, <1>8, <1>15 DEF Made
  <2> QED BY <1>1, <1>7, <1>8, <2>1, <2>2, InsideNext
<1>11. Settled(in2, rk2, c)
  <2>1. Enters(flow', p) => <<p, "resume">> \in in2[k]
    BY <1>2, <1>9, <1>15
  <2>2. blocks'[c].term = "yield" /\ blocks'[c].to = <<k>>
    BY <1>6 DEF Made
  <2> QED BY <1>10, <2>1, <2>2, WiredYield DEF Settled
<1>12. Here(blocks', flow', in2, rk2, t, exits')
  <2>1. Out(blocks', flow', in2, k) = in2[k]
    BY <1>6 DEF Fresh, Made, Out
  <2> QED BY <1>4, <1>15, <2>1 DEF Here
<1>13. N' \in Nat /\ \A b \in (N + 1)..N' : b = k
  BY <1>0, <1>6, <1>8
<1>17. Inside(blocks', flow', in2, k) /\ Settled(in2, rk2, k) /\ rk2[k] \in 1..N'
  <2>1. Depth \in 1..Len(stack')
    BY <1>4, <1>8
  <2>2. Inside(blocks', flow', in2, k)
    BY <1>6, InsideEmpty DEF Fresh, Made
  <2>3. rk2[k] \in 1..N'
    BY <1>0, <1>6, <1>8, <1>16
  <2> QED BY <1>0, <1>4, <2>1, <2>2, <2>3, SettledBlock
<1>20. GraphNext(in2, rk2)
  BY <1>0, <1>1, <1>4, <1>5, <1>6, <1>7, <1>10, <1>11, <1>12, <1>13, <1>16, <1>17, GraphTop
<1> QED BY <1>20

\* Return keeps the graph, in a form that the generator handles.
LEMMA GraphRet ==
    ASSUME Known, NEW in, NEW rk, GraphNow(in, rk), Ret, ~odd'
    PROVE  \E in2, rk2 : GraphNext(in2, rk2)
<1>0. PICK c, t, k : c = Cur.block /\ t = stack'[Depth] /\ k = N + 1
  OBVIOUS
<1>1. Ranged /\ Typed /\ Formed /\ Struct /\ Emitted /\ Below
  BY Known1
<1>2. flow' = flow \union To(Exit) /\ exits' = {} /\ Cur.jumped = "no"
  <2>1. ~odd /\ phase = "compile" /\ Cur.tail # "ended"
    BY DEF Ret, Compiling, Room
  <2> QED BY <2>1, StillGoes DEF Ret
<1>3. Exit \notin 1..points
  BY <1>1, Sizes DEF Exit
<1>8. c \in 1..N /\ Inside(blocks, flow, in, c) /\ rk[c] = Depth /\ N \in Nat /\ Depth \in Nat /\ Depth >= 1 /\ Depth <= N
      /\ Out(blocks, flow, in, c) \subseteq exits
  BY <1>0, <1>2, CurNow
<1>20. Local(Depth - 1, {c})
  BY <1>0, <1>1, StructRet
<1>21. /\ OnlyAt({c}) /\ Made(c, I(c), "ret", <<>>)
       /\ mode # "async" => N' = N
       /\ mode = "async" => N' = k /\ Made(k, <<>>, "ret", <<>>)
  BY <1>0, <1>1, RetBlocks
<1>6. Made(c, I(c), "ret", <<>>) /\ Local(Depth - 1, {c}) /\ (mode # "async" => N' = N) /\ (mode = "async" => N' = k /\ Made(k, <<>>, "ret", <<>>))
  BY <1>20, <1>21
<1>18. PICK in2 : Ext(in2, in, N, k, {})
  BY <1>0, <1>8, ExtIs
<1>19. PICK rk2 : Ext(rk2, rk, N, k, Depth)
  BY <1>0, <1>8, ExtIs
<1>15. (\A b \in 1..N : in2[b] = in[b]) /\ in2[k] = {}
  BY <1>18 DEF Ext
<1>16. (\A b \in 1..N : rk2[b] = rk[b]) /\ rk2[k] = Depth
  BY <1>19 DEF Ext
<1>7. Keeps(in, rk, in2, rk2, {})
  BY <1>1, <1>2, <1>3, <1>15, <1>16, KeepsExt
<1>9. Out(blocks', flow', in2, c) = Out(blocks, flow, in, c)
  BY <1>1, <1>6, <1>7, <1>8, OutKept DEF Made
<1>10. Wired(blocks', flow', in2, rk2, c)
  <2>1. Goes(flow', Out(blocks', flow', in2, c), Exit)
    BY <1>2, <1>8, <1>9 DEF Goes, To
  <2> QED BY <1>6, <2>1, WiredRet DEF Made
<1>11. Inside(blocks', flow', in2, c)
  BY <1>1, <1>6, <1>7, <1>8, InsideKept DEF Made
<1>12. CASE mode = "async"
  <2>1. SetCur(Moved(Cur, k, "ended")) /\ k \in Nat
    BY <1>0, <1>8, <1>12 DEF Ret, Moved, N
  <2>2. Len(stack') = Depth /\ (\A d \in 1..Depth : d # Depth => stack'[d] = stack[d]) /\ Core(Cur, t) /\ Loops(Cur, t) /\ t.block = k /\ t.jumped = "no"
    BY <1>0, <1>1, <1>2, <2>1, MovedStack
  <2>3. \A d \in 1..Depth : Core(stack[d], stack'[d]) /\ stack[d].breaks \subseteq stack'[d].breaks /\ stack[d].continues \subseteq stack'[d].continues
    BY <1>0, <2>2, SelfIs DEF Cur, Loops
  <2>4. Out(blocks', flow', in2, k) = {}
    BY <1>6, <1>12, <1>15 DEF Made, Out
  <2>5. Here(blocks', flow', in2, rk2, t, exits')
    BY <2>2, <2>4 DEF Here
  <2>6. N' \in Nat /\ \A b \in (N + 1)..N' : b = k
    BY <1>0, <1>6, <1>8, <1>12
  <2>7. Inside(blocks', flow', in2, k) /\ Settled(in2, rk2, k) /\ rk2[k] \in 1..N'
    <3>1. Depth \in 1..Len(stack')
      BY <1>8, <2>2
    <3>2. Inside(blocks', flow', in2, k)
      BY <1>6, <1>12, InsideEmpty DEF Made
    <3>3. rk2[k] \in 1..N'
      BY <1>0, <1>6, <1>8, <1>12, <1>16
    <3> QED BY <1>0, <2>2, <3>1, <3>2, <3>3, SettledBlock
  <2>8. GraphNext(in2, rk2)
    <3>1. Settled(in2, rk2, c)
      BY <1>10 DEF Settled
    <3> QED BY <1>0, <1>1, <1>6, <1>7, <1>11, <1>16, <2>2, <2>3, <2>5, <2>6, <2>7, <3>1, GraphTop
  <2> QED BY <2>8
<1>13. CASE mode # "async"
  <2>1. SetCur(Jump("ret"))
    BY <1>13 DEF Ret
  <2>2. Len(stack') = Depth /\ (\A d \in 1..Depth : d # Depth => stack'[d] = stack[d]) /\ Core(Cur, t) /\ Loops(Cur, t) /\ t.block = c
        /\ t.jumped = IF Reached THEN "ret" ELSE "no"
    BY <1>0, <1>1, <1>2, <2>1, JumpStack
  <2>3. \A d \in 1..Depth : Core(stack[d], stack'[d]) /\ stack[d].breaks \subseteq stack'[d].breaks /\ stack[d].continues \subseteq stack'[d].continues
    BY <1>0, <2>2, SelfIs DEF Cur, Loops
  <2>4. t.jumped = "no" => Out(blocks', flow', in2, c) \subseteq exits'
    BY <1>2, <1>8, <1>9, <2>2 DEF Reached
  <2>5. Here(blocks', flow', in2, rk2, t, exits')
    BY <1>10, <2>2, <2>4 DEF Here
  <2>6. N' \in Nat /\ \A b \in (N + 1)..N' : FALSE
    BY <1>6, <1>8, <1>13
  <2>7. Settled(in2, rk2, c) /\ rk2[t.block] = Depth
    BY <1>8, <1>10, <1>16, <2>2 DEF Settled
  <2>8. GraphNext(in2, rk2)
    BY <1>0, <1>1, <1>6, <1>7, <1>11, <2>2, <2>3, <2>5, <2>6, <2>7, GraphTop
  <2> QED BY <2>8
<1> QED BY <1>12, <1>13

\* what a break or continue to block x does to the current scope, which goes on as t
Jumped(j, x, c, t) ==
    /\ N' = N /\ Made(c, I(c), "br", <<x>>) /\ Local(Depth - 1, {c}) /\ exits' = {}
    /\ Len(stack') = Depth /\ Core(Cur, t) /\ t.block = c /\ t.jumped = IF Reached THEN j ELSE "no"
    /\ \A d \in 1..Depth : Core(stack[d], stack'[d]) /\ stack[d].breaks \subseteq stack'[d].breaks /\ stack[d].continues \subseteq stack'[d].continues

\* break and continue do that.
LEMMA JumpedIs ==
    ASSUME Known, NEW j \in {"break", "continue"}, NEW x \in 1..N, BreakOrContinue(j, x), ~odd', NEW c, c = Cur.block, NEW t, t = stack'[Depth]
    PROVE  Jumped(j, x, c, t) /\ Cur.jumped = "no"
<1>1. Ranged /\ Typed /\ Formed /\ Struct /\ Emitted /\ Below
  BY Known1
<1>2. N \in Nat /\ x # Nil /\ x \in Nat /\ x \in 0..N
  BY <1>1, BaseIs DEF Nil
<1>3. N' = N /\ Made(c, I(c), "br", <<x>>)
  BY <1>1, <1>2, JumpBlocks
<1>4. Local(Depth - 1, {c})
  BY <1>1, <1>2, StructJump
<1>5. Cur.jumped = "no" /\ exits' = {}
  <2>1. ~odd /\ phase = "compile" /\ Cur.tail # "ended"
    BY DEF BreakOrContinue, Compiling, Room
  <2> QED BY <1>2, <2>1, StillGoes DEF BreakOrContinue
<1>6. CASE LoopDepths = {}
  <2>1. SetCur(Jump(j))
    BY <1>2, <1>6 DEF BreakOrContinue
  <2>2. Len(stack') = Depth /\ (\A d \in 1..Depth : d # Depth => stack'[d] = stack[d]) /\ Core(Cur, t) /\ Loops(Cur, t) /\ t.block = Cur.block
        /\ t.jumped = IF Reached THEN j ELSE Cur.jumped
    BY <1>1, <2>1, JumpStack
  <2>3. \A d \in 1..Depth : Core(stack[d], stack'[d]) /\ stack[d].breaks \subseteq stack'[d].breaks /\ stack[d].continues \subseteq stack'[d].continues
    BY <2>2, SelfIs DEF Cur, Loops
  <2> QED BY <1>3, <1>4, <1>5, <2>2, <2>3 DEF Jumped
<1>7. CASE LoopDepths # {}
  <2>0. PICK L : L = InnerLoop
    OBVIOUS
  <2>1. Len(stack') = Depth /\ \A d \in 1..Depth : Handed(j, L, d, stack[d], stack'[d])
    <3>1. Typed
      BY <1>1
    <3>2. x # Nil
      BY <1>2
    <3> QED BY <3>1, <3>2, <1>7, <2>0, LoopJumpStack
  <2>2. \A d \in 1..Depth : Core(stack[d], stack'[d]) /\ stack[d].breaks \subseteq stack'[d].breaks /\ stack[d].continues \subseteq stack'[d].continues
    BY <2>1 DEF Handed
  <2>3. Depth \in 1..Depth /\ Handed(j, L, Depth, Cur, t)
    BY <1>1, <2>1, BaseIs DEF Cur
  <2>4. Core(Cur, t) /\ t.block = Cur.block /\ t.jumped = IF Reached THEN j ELSE Cur.jumped
    BY <2>3 DEF Handed
  <2> QED BY <1>3, <1>4, <1>5, <2>1, <2>2, <2>4 DEF Jumped
<1> QED BY <1>6, <1>7

\* A step without new flow leaves the exits alone.
LEMMA KeepsFlow ==
    ASSUME NEW in, NEW rk, NEW in2, NEW G, \A b \in 1..N : in[b] \subseteq in2[b] /\ (b \notin G => in2[b] = in[b]), flow' = flow
    PROVE  Keeps(in, rk, in2, rk, G)
  BY DEF Keeps

\* Nothing is reached, or the body of the loop ends anyway.
LEMMA GraphJumpNear ==
    ASSUME Known, NEW in, NEW rk, GraphNow(in, rk), NEW j \in {"break", "continue"}, NEW x \in 1..N, BreakOrContinue(j, x), ~odd',
           ~Reached \/ (j = "continue" /\ Cur.kind = "body")
    PROVE  GraphNext(in, rk)
<1>0. PICK c, t : c = Cur.block /\ t = stack'[Depth]
  OBVIOUS
<1>1. Ranged /\ Typed /\ Formed /\ Struct /\ Emitted /\ Below
  BY Known1
<1>2. Jumped(j, x, c, t) /\ Cur.jumped = "no"
  BY <1>0, JumpedIs
<1>3. /\ N' = N /\ Made(c, I(c), "br", <<x>>) /\ Local(Depth - 1, {c}) /\ exits' = {}
      /\ Len(stack') = Depth /\ Core(Cur, t) /\ t.block = c /\ t.jumped = IF Reached THEN j ELSE "no"
      /\ \A d \in 1..Depth : Core(stack[d], stack'[d]) /\ stack[d].breaks \subseteq stack'[d].breaks /\ stack[d].continues \subseteq stack'[d].continues
  BY <1>2 DEF Jumped
<1>4. c \in 1..N /\ Inside(blocks, flow, in, c) /\ rk[c] = Depth /\ N \in Nat /\ Depth \in Nat /\ Depth >= 1 /\ Out(blocks, flow, in, c) \subseteq exits
  BY <1>0, <1>2, CurNow
<1>5. x # Nil
  BY <1>4 DEF Nil
<1>6. flow' = flow
  <2>1. ~Reached => To(Stray) = {}
    BY DEF To, Reached
  <2>2. Reached => LoopDepths # {}
    <3>1. Cur.kind = "body" => LoopDepths # {}
      BY <1>4 DEF LoopDepths, Cur
    <3> QED BY <3>1
  <2> QED BY <1>5, <2>1, <2>2 DEF BreakOrContinue
<1>7. Keeps(in, rk, in, rk, {})
  BY <1>6, KeepsFlow
<1>8. Out(blocks', flow', in, c) = Out(blocks, flow, in, c)
  BY <1>1, <1>3, <1>4, <1>7, OutKept DEF Made
<1>9. Inside(blocks', flow', in, c)
  BY <1>1, <1>3, <1>4, <1>7, InsideKept DEF Made
<1>10. Settled(in, rk, c)
  <2>1. Depth \in 1..Len(stack')
    BY <1>3, <1>4
  <2> QED BY <1>0, <1>3, <2>1, SettledBlock
<1>11. Here(blocks', flow', in, rk, t, exits')
  <2>1. CASE ~Reached
    BY <1>3, <1>4, <1>8, <2>1 DEF Here, Reached
  <2>2. CASE Reached
    <3>0. PICK L : L = InnerLoop
      OBVIOUS
    <3>1. j = "continue" /\ Cur.kind = "body" /\ LoopDepths # {} /\ Depth \in 1..Depth /\ Cur = stack[Depth]
      BY <1>4, <2>2 DEF LoopDepths, Cur
    <3>2. L = Depth
      <4>1. L \in 1..Depth /\ Depth <= L
        BY <1>1, <3>0, <3>1, InnerIs
      <4> QED BY <1>4, <4>1
    <3>3. \A d \in 1..Depth : Handed(j, L, d, stack[d], stack'[d])
      <4>1. Typed
        BY <1>1
      <4> QED BY <4>1, <1>5, <3>0, <3>1, LoopJumpStack
    <3>4. t.continues = Cur.continues \union exits
      BY <1>0, <3>1, <3>2, <3>3 DEF Handed
    <3>5. t.kind = "body" /\ t.jumped = "continue"
      BY <1>3, <2>2, <3>1 DEF Core
    <3> QED BY <1>3, <1>4, <1>8, <3>4, <3>5 DEF Here
  <2> QED BY <2>1, <2>2
<1>12. N' \in Nat /\ \A b \in (N + 1)..N' : FALSE
  BY <1>3, <1>4
<1> QED BY <1>0, <1>1, <1>3, <1>4, <1>7, <1>9, <1>10, <1>11, <1>12, GraphTop

\* The block E of the innermost loop L that a jump goes to.
Aim(j, L, E) == E = IF j = "break" THEN stack[L].end ELSE stack[L].cond

\* That block is empty, and lower than the current one.
LEMMA AimIs ==
    ASSUME Known, NEW in, NEW rk, GraphNow(in, rk), NEW j \in {"break", "continue"}, NEW L \in 1..Depth, stack[L].kind = "body",
           j = "continue" => L # Depth, NEW E, Aim(j, L, E)
    PROVE  /\ E \in 1..N /\ E # Cur.block /\ I(E) = <<>> /\ OpenIn(blocks, stack, E) /\ rk[E] < Depth /\ L > 1
           /\ \A d \in 1..Depth : (d > 1 /\ Under(stack, d) = E) \/ (HasCond(stack[d]) /\ stack[d].cond = E) => d = L
           /\ j = "break" => E = Under(stack, L) /\ E # stack[L].cond
           /\ j = "continue" => E # Under(stack, L)
<1>0. Ranged /\ Typed /\ Formed /\ Struct /\ Emitted /\ Depth \in Nat /\ N \in Nat /\ Depth \in 1..Depth /\ Cur = stack[Depth]
  BY Known1, BaseIs DEF Cur
<1>1. HasCond(stack[L]) /\ L # 1
  BY <1>0 DEF HasCond, Formed, FormedScope
<1>00. PICK M, B : M = L - 1 /\ B = Under(stack, L)
  OBVIOUS
<1>2. L \in Nat /\ L > 1 /\ M \in 1..Depth /\ M < Depth /\ M # L /\ L = M + 1 /\ M \in Nat
  BY <1>0, <1>00, <1>1
<1>3. B = stack[M].block /\ B \in Live(stack[M]) /\ B \in 1..N
  BY <1>0, <1>00, <1>2, UnderLive
<1>4. stack[L].end = B /\ BlankIn(blocks, B) /\ BlankIn(blocks, stack[L].cond) /\ Keen(stack[L]) /\ Keen(stack[M])
  BY <1>0, <1>00, <1>1, <1>2 DEF Struct, Shaped
<1>5. stack[L].cond \in Live(stack[L]) /\ stack[L].cond \in 1..N /\ stack[L].cond # stack[L].block
  BY <1>0, <1>1, <1>4, LiveFits DEF Live, Keen
<1>6. Cur.block \in Live(Cur)
  BY DEF Live
<1>7. \A d \in 1..Depth : HasCond(stack[d]) => stack[d].cond \in Live(stack[d]) /\ stack[d].cond # stack[d].block
  BY <1>0 DEF Live, Struct, Keen
<1>8. ASSUME NEW d \in 1..Depth, d > 1 PROVE d - 1 \in 1..Depth /\ Under(stack, d) = stack[d - 1].block /\ Under(stack, d) \in Live(stack[d - 1])
  BY <1>0, <1>8, UnderLive
<1>9. CASE j = "break"
  <2>1. E = B
    BY <1>4, <1>9 DEF Aim
  <2>2. E # Cur.block
    BY <1>0, <1>2, <1>3, <1>6, <2>1, LiveOnly
  <2>3. OpenIn(blocks, stack, E)
    BY <1>2, <1>3, <2>1 DEF OpenIn, OpenAt, Depth
  <2>4. rk[E] = M
    BY <1>2, <1>3, <2>1 DEF GraphNow, Graph, Joined, Depth
  <2>5. ASSUME NEW d \in 1..Depth, d > 1, Under(stack, d) = E PROVE d = L
    <3>0. PICK e : e = d - 1
      OBVIOUS
    <3>1. e \in 1..Depth /\ E \in Live(stack[e])
      BY <1>8, <2>5, <3>0
    <3>2. e = M
      BY <1>0, <1>2, <1>3, <2>1, <3>1, LiveOnly
    <3> QED BY <1>0, <1>2, <3>0, <3>2
  <2>6. ASSUME NEW d \in 1..Depth, HasCond(stack[d]), stack[d].cond = E PROVE FALSE
    <3>1. E \in Live(stack[d]) /\ E # stack[d].block
      BY <1>7, <2>6
    <3>2. d = M
      BY <1>0, <1>2, <1>3, <2>1, <3>1, LiveOnly
    <3> QED BY <1>3, <2>1, <3>1, <3>2
  <2>7. E # stack[L].cond
    BY <1>1, <2>6
  <2>8. I(E) = <<>>
    BY <1>4, <2>1 DEF BlankIn, I
  <2> QED BY <1>00, <1>2, <1>3, <1>9, <2>1, <2>2, <2>3, <2>4, <2>5, <2>6, <2>7, <2>8
<1>10. CASE j = "continue"
  <2>1. E = stack[L].cond /\ L # Depth /\ L < Depth
    BY <1>0, <1>2, <1>10 DEF Aim
  <2>2. E # Cur.block
    BY <1>0, <1>5, <1>6, <2>1, LiveOnly
  <2>3. OpenIn(blocks, stack, E)
    BY <2>1 DEF OpenIn, OpenAt, Depth
  <2>4. rk[E] = 1
    BY <2>1 DEF GraphNow, Graph, Joined, Depth
  <2>5. ASSUME NEW d \in 1..Depth, d > 1, Under(stack, d) = E PROVE FALSE
    <3>0. PICK e : e = d - 1
      OBVIOUS
    <3>1. e \in 1..Depth /\ E \in Live(stack[e]) /\ E = stack[e].block
      BY <1>8, <2>5, <3>0
    <3>2. e = L
      BY <1>0, <1>5, <2>1, <3>1, LiveOnly
    <3> QED BY <1>5, <2>1, <3>1, <3>2
  <2>6. ASSUME NEW d \in 1..Depth, HasCond(stack[d]), stack[d].cond = E PROVE d = L
    <3>1. E \in Live(stack[d])
      BY <1>7, <2>6
    <3> QED BY <1>0, <1>5, <2>1, <3>1, LiveOnly
  <2>7. E # Under(stack, L)
    BY <1>2, <2>5
  <2>8. I(E) = <<>> /\ E \in 1..N
    BY <1>4, <1>5, <2>1 DEF BlankIn, I
  <2>9. rk[E] < Depth
    BY <1>0, <1>2, <2>1, <2>4
  <2> QED BY <1>2, <1>10, <2>2, <2>3, <2>5, <2>6, <2>7, <2>8, <2>9
<1> QED BY <1>9, <1>10

\* The loop that a jump leaves or goes round takes the exits.
LEMMA JoinedFar ==
    ASSUME Known, NEW in, NEW rk, GraphNow(in, rk), NEW j \in {"break", "continue"}, NEW L \in 1..Depth, stack[L].kind = "body",
           j = "continue" => L # Depth, NEW E, Aim(j, L, E), flow' = flow,
           NEW in2, More(in2, in, N, {E}, exits), NEW t, Handed(j, L, L, stack[L], t), t.block = stack[L].block, NEW B, B = Under(stack, L)
    PROVE  Joined(blocks', flow', in2, rk, t, L, B)
<1>0. PICK s : s = stack[L]
  OBVIOUS
<1>1. Ranged /\ Typed /\ Formed /\ Struct /\ Emitted /\ Depth \in Nat /\ N \in Nat
  BY Known1, BaseIs
<1>2. /\ E \in 1..N /\ L > 1
      /\ j = "break" => E = B /\ E # s.cond
      /\ j = "continue" => E # B
  BY <1>0, AimIs
<1>3. HasCond(s) /\ s.kind = "body"
  BY <1>0 DEF HasCond
<1>4. s.first \in 1..N /\ s.cond \in 1..N /\ B \in 1..N
  BY <1>0, <1>1, <1>2, <1>3, LiveFits, UnderLive DEF Live
<1>5. Joined(blocks, flow, in, rk, s, L, B)
  BY <1>0 DEF GraphNow, Graph, Depth
<1>6. /\ rk[s.block] = L /\ rk[s.first] = L /\ rk[s.cond] = 1 /\ in[s.cond] \subseteq s.continues /\ in[B] \subseteq s.saved \union s.breaks
      /\ "cond" \in s.form /\ Enters(flow, s.point) => <<s.point, "true">> \in in[s.first] /\ <<s.point, "false">> \in in[B]
  BY <1>3, <1>5 DEF Joined
<1>7. Core(s, t) /\ (j = "break" => t.breaks = s.breaks \union exits /\ t.continues = s.continues)
      /\ (j = "continue" => t.continues = s.continues \union exits /\ t.breaks = s.breaks)
  BY <1>0 DEF Handed
<1>8. in[s.first] \subseteq in2[s.first] /\ in[B] \subseteq in2[B]
  BY <1>4 DEF More
<1>9. in2[s.cond] \subseteq t.continues
  <2>1. CASE j = "break"
    BY <1>2, <1>4, <1>6, <1>7, <2>1 DEF More
  <2>2. CASE j = "continue"
    <3>1. E = s.cond
      BY <1>0, <2>2 DEF Aim
    <3> QED BY <1>4, <1>6, <1>7, <2>2, <3>1 DEF More
  <2> QED BY <2>1, <2>2
<1>10. in2[B] \subseteq t.saved \union t.breaks
  <2>1. CASE j = "break"
    BY <1>2, <1>4, <1>6, <1>7, <2>1 DEF More, Core
  <2>2. CASE j = "continue"
    BY <1>2, <1>4, <1>6, <1>7, <2>2 DEF More, Core
  <2> QED BY <2>1, <2>2
<1>11. t.kind = "body" /\ t.first = s.first /\ t.cond = s.cond /\ t.form = s.form /\ t.point = s.point /\ t.block = s.block
  BY <1>0, <1>3, <1>7 DEF Core
<1>12. "cond" \in t.form /\ Enters(flow', t.point) => <<t.point, "true">> \in in2[t.first] /\ <<t.point, "false">> \in in2[B]
  BY <1>6, <1>8, <1>11
<1>13. rk[t.block] = L /\ rk[t.first] = L /\ rk[t.cond] = 1 /\ in2[t.cond] \subseteq t.continues /\ t.kind = "body"
  BY <1>6, <1>9, <1>11
<1> QED BY <1>10, <1>12, <1>13 DEF Joined

\* A jump leaves the current block for a block of the loop.
LEMMA GraphJumpFar ==
    ASSUME Known, NEW in, NEW rk, GraphNow(in, rk), NEW j \in {"break", "continue"}, NEW x \in 1..N, BreakOrContinue(j, x), ~odd',
           Reached, j = "continue" => Cur.kind # "body",
           j = "break" => x = Cur.breakBlock, j = "continue" => x = Cur.continueBlock
    PROVE  \E in2, rk2 : GraphNext(in2, rk2)
<1>0. PICK c, t, L : c = Cur.block /\ t = stack'[Depth] /\ L = InnerLoop
  OBVIOUS
<1>1. Ranged /\ Typed /\ Formed /\ Struct /\ Emitted /\ Below
  BY Known1
<1>2. Jumped(j, x, c, t) /\ Cur.jumped = "no"
  BY <1>0, JumpedIs
<1>3. /\ N' = N /\ Made(c, I(c), "br", <<x>>) /\ Local(Depth - 1, {c}) /\ exits' = {}
      /\ Len(stack') = Depth /\ Core(Cur, t) /\ t.block = c /\ t.jumped = IF Reached THEN j ELSE "no"
      /\ \A d \in 1..Depth : Core(stack[d], stack'[d]) /\ stack[d].breaks \subseteq stack'[d].breaks /\ stack[d].continues \subseteq stack'[d].continues
  BY <1>2 DEF Jumped
<1>4. c \in 1..N /\ Inside(blocks, flow, in, c) /\ rk[c] = Depth /\ N \in Nat /\ Depth \in Nat /\ Depth >= 1 /\ Out(blocks, flow, in, c) \subseteq exits
  BY <1>0, <1>2, CurNow
<1>5. x # Nil
  BY <1>4 DEF Nil
<1>6. LoopDepths # {} /\ flow' = flow /\ ~Cur.stale
  <2>1. LoopDepths # {}
    BY <1>5 DEF BreakOrContinue
  <2> QED BY <1>5, <2>1 DEF BreakOrContinue
<1>7. L \in 1..Depth /\ stack[L].kind = "body" /\ \A e \in 1..Depth : stack[e].kind = "body" => e <= L
  BY <1>0, <1>1, <1>6, InnerIs
<1>8. j = "continue" => L # Depth
  BY <1>7 DEF Cur
<1>9. Aim(j, L, x)
  <2>1. Aimed(stack, Depth)
    BY <1>4 DEF Known, Targets
  <2>2. \A k \in (L + 1)..Depth : stack[k].kind # "body"
    BY <1>4, <1>7
  <2>3. stack[Depth].breakBlock = stack[L].end /\ stack[Depth].continueBlock = stack[L].cond
    BY <1>6, <1>7, <2>1, <2>2 DEF Aimed, Cur
  <2> QED BY <2>3 DEF Aim, Cur
<1>10. /\ x # c /\ I(x) = <<>> /\ OpenIn(blocks, stack, x) /\ rk[x] < Depth /\ L > 1
       /\ \A d \in 1..Depth : (d > 1 /\ Under(stack, d) = x) \/ (HasCond(stack[d]) /\ stack[d].cond = x) => d = L
  BY <1>0, <1>7, <1>8, <1>9, AimIs
<1>11. PICK in2 : More(in2, in, N, {x}, exits)
  BY <1>4, MoreIs
<1>12. \A b \in 1..N : in[b] \subseteq in2[b] /\ (b \notin {x} => in2[b] = in[b])
  BY <1>11 DEF More
<1>13. Keeps(in, rk, in2, rk, {x})
  BY <1>6, <1>12, KeepsFlow
<1>14. exits \subseteq in2[x] /\ in2[c] = in[c] /\ c \notin {x}
  BY <1>4, <1>10, <1>11 DEF More
<1>15. Out(blocks', flow', in2, c) = Out(blocks, flow, in, c)
  BY <1>1, <1>3, <1>4, <1>13, <1>14, OutKept DEF Made
<1>16. Inside(blocks', flow', in2, c)
  BY <1>1, <1>3, <1>4, <1>13, <1>14, InsideKept DEF Made
<1>17. Wired(blocks', flow', in2, rk, c)
  <2>1. blocks'[c].term = "br" /\ blocks'[c].to = <<x>>
    BY <1>3 DEF Made
  <2>2. Out(blocks', flow', in2, c) \subseteq in2[x]
    BY <1>4, <1>14, <1>15
  <2>3. rk[x] < rk[c]
    BY <1>4, <1>10
  <2> QED BY <2>1, <2>2, <2>3, WiredBr
<1>18. Settled(in2, rk, c)
  BY <1>17 DEF Settled
<1>19. Here(blocks', flow', in2, rk, t, exits')
  <2>1. t.jumped = j /\ j # "no"
    BY <1>3
  <2>2. ~(t.kind = "body" /\ t.jumped = "continue")
    BY <1>3, <2>1 DEF Core
  <2> QED BY <1>3, <1>17, <2>1, <2>2 DEF Here
<1>20. ASSUME NEW d \in 1..Depth, (d > 1 /\ Under(stack, d) \in {x}) \/ (HasCond(stack[d]) /\ stack[d].cond \in {x})
       PROVE  Joined(blocks', flow', in2, rk, stack'[d], d, Under(stack, d))
  <2>1. d = L
    BY <1>10, <1>20
  <2>2. \A e \in 1..Depth : Handed(j, L, e, stack[e], stack'[e])
    <3>1. Typed
      BY <1>1
    <3> QED BY <3>1, <1>5, <1>6, <1>0, LoopJumpStack
  <2>3. PICK r, B : r = stack'[L] /\ B = Under(stack, L)
    OBVIOUS
  <2>4. Handed(j, L, L, stack[L], r)
    BY <1>7, <2>2, <2>3
  <2>5. r.block = stack[L].block
    BY <2>4 DEF Handed
  <2>6. Joined(blocks', flow', in2, rk, r, L, B)
    BY <1>6, <1>7, <1>8, <1>9, <1>11, <2>3, <2>4, <2>5, JoinedFar
  <2> QED BY <2>1, <2>3, <2>6
<1>21. N' \in Nat /\ \A b \in (N + 1)..N' : FALSE
  BY <1>3, <1>4
<1>22. \A b \in {x} : b # c /\ I(b) = <<>> /\ OpenIn(blocks, stack, b)
  BY <1>10
<1>23. rk[t.block] = Depth
  BY <1>3, <1>4
<1>24. GraphNext(in2, rk)
  BY <1>0, <1>1, <1>3, <1>13, <1>16, <1>18, <1>19, <1>20, <1>21, <1>22, <1>23, GraphTop
<1> QED BY <1>24

\* Break or continue keeps the graph, in a form that the generator handles.
LEMMA GraphJump ==
    ASSUME Known, NEW in, NEW rk, GraphNow(in, rk), Break \/ Continue, ~odd', phase' = "compile"
    PROVE  \E in2, rk2 : GraphNext(in2, rk2)
<1>1. Cur.breakBlock \in 0..N /\ Cur.continueBlock \in 0..N /\ N \in Nat
  BY Known1, CurFits, BaseIs
<1>2. CASE Break
  <2>0. PICK x, j : x = Cur.breakBlock /\ j = "break"
    OBVIOUS
  <2>1. BreakOrContinue(j, x)
    BY <1>2, <2>0 DEF Break
  <2>2. x \in 1..N
    BY <1>1, <2>0, <2>1 DEF BreakOrContinue, Nil
  <2>3. CASE ~Reached
    <3>1. GraphNext(in, rk)
      BY <2>0, <2>1, <2>2, <2>3, GraphJumpNear
    <3> QED BY <3>1
  <2>4. CASE Reached
    BY <2>0, <2>1, <2>2, <2>4, GraphJumpFar
  <2> QED BY <2>3, <2>4
<1>3. CASE Continue
  <2>0. PICK x, j : x = Cur.continueBlock /\ j = "continue"
    OBVIOUS
  <2>1. BreakOrContinue(j, x)
    BY <1>3, <2>0 DEF Continue
  <2>2. x \in 1..N
    BY <1>1, <2>0, <2>1 DEF BreakOrContinue, Nil
  <2>3. CASE ~Reached \/ Cur.kind = "body"
    <3>1. GraphNext(in, rk)
      BY <2>0, <2>1, <2>2, <2>3, GraphJumpNear
    <3> QED BY <3>1
  <2>4. CASE Reached /\ Cur.kind # "body"
    BY <2>0, <2>1, <2>2, <2>4, GraphJumpFar
  <2> QED BY <2>3, <2>4
<1> QED BY <1>2, <1>3

\* Opening an if keeps the graph, in a form that the generator handles.
LEMMA GraphOpenIf ==
    ASSUME Known, NEW in, NEW rk, GraphNow(in, rk), OpenIf, ~odd'
    PROVE  \E in2, rk2 : GraphNext(in2, rk2)
<1>0. PICK p, c, s, t, k, D : p = points + 1 /\ c = Cur.block /\ s = stack'[Depth] /\ t = stack'[Depth + 1] /\ k = N + 1 /\ D = Depth + 1
  OBVIOUS
<1>1. Ranged /\ Typed /\ Formed /\ Struct /\ Emitted /\ Below
  BY Known1
<1>2. flow' = flow \union To(p) /\ exits' = (IF Reached THEN {<<p, "true">>} ELSE {}) /\ Cur.jumped = "no"
  BY <1>0 DEF OpenIf, Dead
<1>3. p \in Nat /\ p > points /\ p \notin 1..points
  BY <1>0, <1>1, Sizes
<1>4. c \in 1..N /\ Inside(blocks, flow, in, c) /\ rk[c] = Depth /\ N \in Nat /\ Depth \in Nat /\ Depth >= 1 /\ Depth <= N
      /\ Out(blocks, flow, in, c) \subseteq exits
  BY <1>0, <1>2, CurNow
<1>5. Len(stack') = Depth + 1 /\ (\A d \in 1..Depth : stack'[d] = stack[d]) /\ Opened(Cur, t, "if", k) /\ t.point = p
      /\ t.saved = IF Reached THEN {<<p, "false">>} ELSE {}
  BY <1>0, <1>1, OpenIfStack
<1>6. t.kind = "if" /\ t.block = k /\ t.first = k /\ t.jumped = "no"
  BY <1>5 DEF Opened
<1>7. N' = k /\ OnlyAt({}) /\ Fresh(k) /\ Local(Depth - 1, {c})
  BY <1>0, <1>1, OpenIfBlocks, StructOpenIf
<1>8. s.block = c /\ \A d \in 1..Depth : Core(stack[d], stack'[d]) /\ Loops(stack[d], stack'[d])
  BY <1>0, <1>4, <1>5, SelfIs DEF Cur
<1>9. PICK in2 : Ext(in2, in, N, k, exits')
  BY <1>0, <1>4, ExtIs
<1>10. PICK rk2 : Ext(rk2, rk, N, k, D)
  BY <1>0, <1>4, ExtIs
<1>11. (\A b \in 1..N : in2[b] = in[b]) /\ in2[k] = exits'
  BY <1>9 DEF Ext
<1>12. (\A b \in 1..N : rk2[b] = rk[b]) /\ rk2[k] = D
  BY <1>10 DEF Ext
<1>13. Keeps(in, rk, in2, rk2, {})
  BY <1>1, <1>2, <1>3, <1>11, <1>12, KeepsExt
<1>14. (Enters(flow', p) => Reached) /\ Goes(flow', exits, p)
  BY <1>1, <1>2, <1>3, NewSeen
<1>15. blocks'[c] = blocks[c] /\ blocks'[c].insts = I(c) /\ c \notin {}
  BY <1>4, <1>7 DEF OnlyAt, I
<1>16. Out(blocks', flow', in2, c) = Out(blocks, flow, in, c)
  BY <1>1, <1>4, <1>13, <1>15, OutKept
<1>17. Inside(blocks', flow', in2, c)
  BY <1>1, <1>4, <1>13, <1>15, InsideKept
<1>18. Joined(blocks', flow', in2, rk2, t, D, c)
  <2>1. Goes(flow', Out(blocks', flow', in2, c), p)
    BY <1>4, <1>14, <1>16 DEF Goes
  <2>2. Enters(flow', p) => <<p, "true">> \in in2[k] /\ <<p, "false">> \in t.saved
    BY <1>2, <1>5, <1>11, <1>14
  <2> QED BY <1>5, <1>6, <1>12, <2>1, <2>2 DEF Joined, HasCond
<1>19. Depth \in 1..Len(stack') /\ D \in 1..Len(stack')
  BY <1>0, <1>4, <1>5
<1>20. Settled(in2, rk2, c) /\ Settled(in2, rk2, k)
  BY <1>0, <1>6, <1>8, <1>19, SettledBlock
<1>21. Inside(blocks', flow', in2, k)
  BY <1>7, InsideEmpty DEF Fresh, Made
<1>22. Here(blocks', flow', in2, rk2, t, exits')
  <2>1. Out(blocks', flow', in2, k) = in2[k]
    BY <1>7 DEF Fresh, Made, Out
  <2> QED BY <1>6, <1>11, <2>1 DEF Here
<1>23. N' \in Nat /\ rk2[k] \in 1..N' /\ \A b \in (N + 1)..N' : b = k
  BY <1>0, <1>4, <1>7, <1>12
<1>24. rk2[s.block] = Depth
  BY <1>4, <1>8, <1>12
<1>25. GraphNext(in2, rk2)
  BY <1>0, <1>1, <1>5, <1>7, <1>8, <1>13, <1>17, <1>18, <1>20, <1>21, <1>22, <1>23, <1>24, GraphPush
<1> QED BY <1>25

\* Opening an if/else keeps the graph, in a form that the generator handles.
LEMMA GraphOpenIfElse ==
    ASSUME Known, NEW in, NEW rk, GraphNow(in, rk), OpenIfElse, ~odd'
    PROVE  \E in2, rk2 : GraphNext(in2, rk2)
<1>0. PICK p, c, s, t, k1, k2, k3, D : /\ p = points + 1 /\ c = Cur.block /\ s = stack'[Depth] /\ t = stack'[Depth + 1]
                                       /\ k1 = N + 1 /\ k2 = N + 2 /\ k3 = N + 3 /\ D = Depth + 1
  OBVIOUS
<1>1. Ranged /\ Typed /\ Formed /\ Struct /\ Emitted /\ Below
  BY Known1
<1>2. flow' = flow \union To(p) /\ exits' = (IF Reached THEN {<<p, "true">>} ELSE {}) /\ Cur.jumped = "no"
  BY <1>0 DEF OpenIfElse, Dead
<1>3. p \in Nat /\ p > points /\ p \notin 1..points
  BY <1>0, <1>1, Sizes
<1>4. c \in 1..N /\ Inside(blocks, flow, in, c) /\ rk[c] = Depth /\ N \in Nat /\ Depth \in Nat /\ Depth >= 1 /\ Depth <= N
      /\ Out(blocks, flow, in, c) \subseteq exits
  BY <1>0, <1>2, CurNow
<1>5. Len(stack') = Depth + 1 /\ (\A d \in 1..Depth : d # Depth => stack'[d] = stack[d]) /\ Core(Cur, s) /\ Loops(Cur, s) /\ s.block = k3
      /\ Opened(s, t, "then", k1) /\ t.point = p /\ t.cond = k2 /\ t.end = k3 /\ t.saved = {}
  BY <1>0, <1>1, OpenIfElseStack
<1>6. t.kind = "then" /\ t.block = k1 /\ t.first = k1 /\ t.jumped = "no" /\ t.breaks = {}
  BY <1>5 DEF Opened
<1>7. N' = k3 /\ Made(c, Append(I(c), p), "cond", <<k1, k2>>) /\ Fresh(k1) /\ Fresh(k2) /\ Fresh(k3) /\ Local(Depth - 1, {c})
  BY <1>0, <1>1, OpenIfElseBlocks, StructOpenIfElse
<1>8. \A d \in 1..Depth : Core(stack[d], stack'[d]) /\ Loops(stack[d], stack'[d])
  BY <1>0, <1>5, SelfIs DEF Cur
<1>30. PICK F, E : F = (IF Reached THEN {<<p, "false">>} ELSE {}) /\ E = {}
  OBVIOUS
<1>9. PICK in2 : Ext3(in2, in, N, k1, exits', F, E)
  BY <1>0, <1>4, Ext3Is
<1>10. PICK rk2 : Ext3(rk2, rk, N, k1, D, D, Depth)
  BY <1>0, <1>4, Ext3Is
<1>31. k1 + 1 = k2 /\ k1 + 2 = k3
  BY <1>0, <1>4
<1>11. (\A b \in 1..N : in2[b] = in[b]) /\ in2[k1] = exits' /\ in2[k2] = F /\ in2[k3] = {}
  BY <1>9, <1>30, <1>31 DEF Ext3
<1>12. (\A b \in 1..N : rk2[b] = rk[b]) /\ rk2[k1] = D /\ rk2[k2] = D /\ rk2[k3] = Depth
  BY <1>10, <1>31 DEF Ext3
<1>13. Keeps(in, rk, in2, rk2, {})
  BY <1>1, <1>2, <1>3, <1>11, <1>12, KeepsExt
<1>14. (Enters(flow', p) => Reached) /\ Goes(flow', exits, p)
  BY <1>1, <1>2, <1>3, NewSeen
<1>32. Reached => Enters(flow', p)
  <2>1. ASSUME NEW e \in exits PROVE Enters(flow', p)
    <3>1. <<e[1], e[2], p>> \in flow' /\ <<e[1], e[2], p>>[3] = p
      BY <1>14 DEF Goes
    <3> QED BY <3>1 DEF Enters
  <2> QED BY <2>1 DEF Reached
<1>15. Inside(blocks', flow', in2, c) /\ blocks'[c].insts # <<>> /\ Last(blocks', c) = p
  <2>1. Goes(flow', Out(blocks, flow, in, c), p)
    BY <1>4, <1>14 DEF Goes
  <2>2. blocks'[c].insts = Append(I(c), p) /\ in2[c] = in[c]
    BY <1>4, <1>7, <1>11 DEF Made
  <2> QED BY <1>1, <1>4, <1>13, <2>1, <2>2, InsideNext
<1>16. Settled(in2, rk2, c)
  <2>1. Enters(flow', p) => <<p, "true">> \in in2[k1] /\ <<p, "false">> \in in2[k2]
    BY <1>2, <1>11, <1>14, <1>30
  <2>2. blocks'[c].term = "cond" /\ blocks'[c].to = <<k1, k2>>
    BY <1>7 DEF Made
  <2> QED BY <1>15, <2>1, <2>2, WiredCond DEF Settled
<1>18. Joined(blocks', flow', in2, rk2, t, D, k3)
  <2>1. \A e \in in2[k2] : e = <<p, "false">> /\ Enters(flow', p)
    BY <1>11, <1>30, <1>32
  <2>2. in2[k3] \subseteq t.saved \union t.breaks
    BY <1>11
  <2> QED BY <1>5, <1>6, <1>12, <2>1, <2>2 DEF Joined
<1>19. Depth \in 1..Len(stack') /\ D \in 1..Len(stack')
  BY <1>0, <1>4, <1>5
<1>20. Settled(in2, rk2, k1) /\ Settled(in2, rk2, k3)
  BY <1>0, <1>5, <1>6, <1>19, SettledBlock
<1>33. Settled(in2, rk2, k2)
  <2>1. OpenAt(blocks', t, k2)
    BY <1>5, <1>6 DEF OpenAt
  <2> QED BY <1>0, <1>19, <2>1, SettledOpen
<1>21. Inside(blocks', flow', in2, k1) /\ Inside(blocks', flow', in2, k2) /\ Inside(blocks', flow', in2, k3)
  BY <1>7, InsideEmpty DEF Fresh, Made
<1>22. Here(blocks', flow', in2, rk2, t, exits')
  <2>1. Out(blocks', flow', in2, k1) = in2[k1]
    BY <1>7 DEF Fresh, Made, Out
  <2> QED BY <1>6, <1>11, <2>1 DEF Here
<1>23. N' \in Nat /\ (\A b \in (N + 1)..N' : b = k1 \/ b = k2 \/ b = k3) /\ Depth \in 1..N' /\ D \in 1..N'
  BY <1>0, <1>4, <1>7
<1>24. rk2[s.block] = Depth
  BY <1>5, <1>12
<1>26. \A b \in (N + 1)..N' : rk2[b] \in 1..N' /\ Inside(blocks', flow', in2, b) /\ Settled(in2, rk2, b)
  BY <1>12, <1>20, <1>21, <1>23, <1>33
<1>27. Joined(blocks', flow', in2, rk2, t, Depth + 1, s.block)
  BY <1>0, <1>5, <1>18
<1>28. N' \in Nat
  BY <1>23
<1>25. GraphNext(in2, rk2)
  BY <1>0, <1>1, <1>5, <1>7, <1>8, <1>13, <1>15, <1>16, <1>22, <1>24, <1>26, <1>27, <1>28, GraphPush
<1> QED BY <1>25

\* A step whose flow goes to new points leaves the exits alone.
LEMMA KeepsNew ==
    ASSUME Typed, NEW in, NEW rk, NEW in2, NEW rk2, \A b \in 1..N : in2[b] = in[b], \A b \in 1..N : rk2[b] = rk[b],
           flow \subseteq flow', \A f \in flow' : f \in flow \/ f[3] \notin 1..points
    PROVE  Keeps(in, rk, in2, rk2, {})
<1>1. ASSUME NEW p, UsedIn(stack, points, p), Enters(flow', p) PROVE Enters(flow, p)
  <2>1. p \in 1..points
    BY <1>1 DEF UsedIn
  <2>2. PICK f \in flow' : f[3] = p
    BY <1>1 DEF Enters
  <2> QED BY <2>1, <2>2 DEF Enters
<1> QED BY <1>1 DEF Keeps

\* what the source does when a loop is opened: v is its condition, or the first point of its body
ForFlow(form, p, v) ==
    /\ flow \subseteq flow' /\ (\A f \in flow' : f \in flow \/ f[3] \notin 1..points)
    /\ (Enters(flow', v) => Reached) /\ (Enters(flow', p) => Reached)
    /\ Goes(flow', exits, p)
    /\ "def" \in form /\ Reached => <<p, "next", v>> \in flow'
    /\ exits' = IF Reached THEN {<<v, IF "cond" \in form THEN "true" ELSE "next">>} ELSE {}

\* OpenFor does that.
LEMMA ForFlowIs ==
    ASSUME Typed, Below, NEW form \in Forms, OpenFor(form), NEW p, p = points + 1, NEW v, v = IF "def" \in form THEN points + 2 ELSE points + 1
    PROVE  ForFlow(form, p, v)
<1>1. points \in Nat /\ p \in Nat /\ p > points /\ v \in Nat /\ v > points /\ p \notin 1..points /\ v \notin 1..points
  BY Sizes
<1>2. exits' = IF Reached THEN {<<v, IF "cond" \in form THEN "true" ELSE "next">>} ELSE {}
  BY DEF OpenFor
<1>3. /\ "def" \in form /\ Reached => flow' = flow \union To(p) \union {<<p, "next", v>>}
      /\ "def" \in form /\ ~Reached => flow' = flow
      /\ "def" \notin form => flow' = flow \union To(v)
  BY OpenForFlow
<1>4. \A u : \A f \in To(u) : f[3] = u
  BY DEF To
<1>5. CASE "def" \notin form
  <2>1. v = p /\ flow' = flow \union To(p)
    BY <1>3, <1>5
  <2>2. (Enters(flow', p) => Reached) /\ Goes(flow', exits, p)
    BY <1>1, <2>1, NewSeen
  <2>3. flow \subseteq flow' /\ (\A f \in flow' : f \in flow \/ f[3] \notin 1..points)
    BY <1>1, <1>4, <2>1
  <2> QED BY <1>2, <1>5, <2>1, <2>2, <2>3 DEF ForFlow
<1>6. CASE "def" \in form /\ Reached
  <2>1. flow' = flow \union To(p) \union {<<p, "next", v>>}
    BY <1>3, <1>6
  <2>2. <<p, "next", v>>[3] = v /\ <<p, "next", v>> \in flow'
    BY <2>1
  <2>3. flow \subseteq flow' /\ (\A f \in flow' : f \in flow \/ f[3] \notin 1..points)
    BY <1>1, <1>4, <2>1, <2>2
  <2>4. Goes(flow', exits, p)
    BY <2>1 DEF Goes, To
  <2> QED BY <1>2, <1>6, <2>2, <2>3, <2>4 DEF ForFlow
<1>7. CASE "def" \in form /\ ~Reached
  <2>1. flow' = flow /\ exits = {}
    BY <1>3, <1>7 DEF Reached
  <2>2. ~Enters(flow, p) /\ ~Enters(flow, v)
    BY <1>1, FreshPoint
  <2> QED BY <1>2, <1>7, <2>1, <2>2 DEF ForFlow, Goes
<1> QED BY <1>5, <1>6, <1>7

\* Two points are put at the end of block c.
LEMMA InsideTwo ==
    ASSUME Ranged, Emitted, NEW in, NEW rk, NEW in2, NEW rk2, NEW G, Keeps(in, rk, in2, rk2, G), NEW c \in 1..N, in2[c] = in[c],
           Inside(blocks, flow, in, c), NEW p \in Nat, Goes(flow', Out(blocks, flow, in, c), p),
           NEW q, Enters(flow', p) => <<p, "next", q>> \in flow', blocks'[c].insts = Append(Append(I(c), p), q)
    PROVE  Inside(blocks', flow', in2, c) /\ blocks'[c].insts # <<>> /\ Last(blocks', c) = q
<1>1. blocks \in Seq(Block) /\ N = Len(blocks) /\ I(c) \in Seq(Nat)
  BY BaseIs, InstsIs DEF N
<1>2. PICK M : M = Emit(blocks, c, p)
  OBVIOUS
<1>3. M[c].insts = Append(I(c), p) /\ Append(I(c), p) \in Seq(Nat)
  <2>1. c \in 1..Len(blocks)
    BY <1>1
  <2>2. M[c].insts = Append(blocks[c].insts, p)
    BY <1>1, <1>2, <2>1, EmitIs
  <2>3. Append(I(c), p) \in Seq(Nat)
    BY <1>1
  <2> QED BY <2>2, <2>3 DEF I
<1>4. Calmer(flow, flow', blocks[c].insts)
  <2>1. \A i \in 1..Len(I(c)) : UsedIn(stack, points, I(c)[i])
    BY DEF Emitted
  <2> QED BY <2>1 DEF Keeps, Calmer, I
<1>5. Appended(blocks, M, c, p) /\ Appended(M, blocks', c, q)
  BY <1>1, <1>3 DEF Appended, I
<1>6. Inside(M, flow', in2, c) /\ M[c].insts # <<>> /\ Last(M, c) = p
  BY <1>4, <1>5, InsideAppend
<1>7. Calmer(flow', flow', M[c].insts)
  BY DEF Calmer
<1>8. Goes(flow', Out(M, flow', in2, c), q)
  <2>1. Out(M, flow', in2, c) = IF Enters(flow', p) THEN {<<p, "next">>} ELSE {}
    BY <1>6 DEF Out
  <2> QED BY <2>1 DEF Goes
<1> QED BY <1>5, <1>6, <1>7, <1>8, InsideAppend, SMTT(30)

\* Opening a loop keeps the graph, in a form that the generator handles.
LEMMA GraphOpenFor ==
    ASSUME Known, NEW in, NEW rk, GraphNow(in, rk), NEW form \in Forms, OpenFor(form), ~odd'
    PROVE  \E in2, rk2 : GraphNext(in2, rk2)
<1>0. PICK p, q, c, s, t, k1, k2, k3, D, u : /\ p = points + 1 /\ q = points + 2 /\ c = Cur.block /\ s = stack'[Depth] /\ t = stack'[Depth + 1]
                                       /\ k1 = N + 1 /\ k2 = N + 2 /\ k3 = N + 3 /\ D = Depth + 1 /\ u = 1
  OBVIOUS
<1>00. PICK v : v = IF "def" \in form THEN points + 2 ELSE points + 1
  OBVIOUS
<1>1. Ranged /\ Typed /\ Formed /\ Struct /\ Emitted /\ Below
  BY Known1
<1>2. Cur.jumped = "no"
  BY DEF OpenFor, Dead
<1>3. points \in Nat /\ p \in Nat /\ ("def" \in form => v = q) /\ ("def" \notin form => v = p)
  BY <1>0, <1>00, <1>1, Sizes
<1>4. c \in 1..N /\ Inside(blocks, flow, in, c) /\ rk[c] = Depth /\ N \in Nat /\ Depth \in Nat /\ Depth >= 1 /\ Depth <= N
      /\ Out(blocks, flow, in, c) \subseteq exits
  BY <1>0, <1>2, CurNow
<1>5. Len(stack') = Depth + 1 /\ (\A d \in 1..Depth : d # Depth => stack'[d] = stack[d]) /\ Around(s) /\ Looped(form, t)
  BY <1>0, <1>1, OpenForStack
<1>34. Core(Cur, s) /\ Loops(Cur, s) /\ s.block = k3
  BY <1>0, <1>5 DEF Around
<1>6. /\ t.kind = "body" /\ t.block = k2 /\ t.first = k2 /\ t.cond = k1 /\ t.jumped = "no" /\ t.breaks = {} /\ t.continues = {} /\ t.form = form
      /\ t.point = v /\ t.saved = IF Reached /\ "cond" \in form THEN {<<v, "false">>} ELSE {}
  BY <1>0, <1>00, <1>5 DEF Looped
<1>7. /\ N' = k3 /\ OnlyAt({c}) /\ Fresh(k1) /\ Fresh(k3)
      /\ "def" \notin form /\ "cond" \notin form => Made(c, I(c), "br", <<k2>>) /\ Made(k2, <<p>>, "none", <<>>)
      /\ "def" \in form /\ "cond" \notin form => Made(c, Append(I(c), p), "br", <<k2>>) /\ Made(k2, <<q>>, "none", <<>>)
      /\ "def" \notin form /\ "cond" \in form => Made(c, Append(I(c), p), "cond", <<k2, k3>>) /\ Fresh(k2)
      /\ "def" \in form /\ "cond" \in form => Made(c, Append(Append(I(c), p), q), "cond", <<k2, k3>>) /\ Fresh(k2)
  <2>1. ForMade(form, c, p, q, k1, k2, k3)
    BY <1>0, <1>1, OpenForBlocks
  <2> QED BY <2>1 DEF ForMade
<1>35. Local(Depth - 1, {c})
  BY <1>0, <1>1, StructOpenFor
<1>8. \A d \in 1..Depth : Core(stack[d], stack'[d]) /\ Loops(stack[d], stack'[d])
  BY <1>0, <1>5, <1>34, SelfIs DEF Cur
\* what enters the body: the condition, the definition or what comes to the loop
<1>30. PICK F, E : /\ F = (IF "cond" \in form THEN exits'
                           ELSE IF "def" \in form THEN IF Reached THEN {<<p, "next">>} ELSE {} ELSE exits)
                   /\ E = {}
  OBVIOUS
<1>9. PICK in2 : Ext3(in2, in, N, k1, E, F, t.saved)
  BY <1>0, <1>4, Ext3Is
<1>10. PICK rk2 : Ext3(rk2, rk, N, k1, u, D, Depth)
  BY <1>0, <1>4, Ext3Is
<1>31. k1 + 1 = k2 /\ k1 + 2 = k3
  BY <1>0, <1>4
<1>11. (\A b \in 1..N : in2[b] = in[b]) /\ in2[k1] = {} /\ in2[k2] = F /\ in2[k3] = t.saved
  BY <1>9, <1>30, <1>31 DEF Ext3
<1>12. (\A b \in 1..N : rk2[b] = rk[b]) /\ rk2[k1] = 1 /\ rk2[k2] = D /\ rk2[k3] = Depth
  BY <1>0, <1>10, <1>31 DEF Ext3
<1>36. /\ flow \subseteq flow' /\ (\A f \in flow' : f \in flow \/ f[3] \notin 1..points)
       /\ (Enters(flow', v) => Reached) /\ (Enters(flow', p) => Reached)
       /\ Goes(flow', exits, p)
       /\ "def" \in form /\ Reached => <<p, "next", v>> \in flow'
       /\ exits' = IF Reached THEN {<<v, IF "cond" \in form THEN "true" ELSE "next">>} ELSE {}
  <2>1. ForFlow(form, p, v)
    BY <1>0, <1>00, <1>1, ForFlowIs
  <2> QED BY <2>1 DEF ForFlow
<1>13. Keeps(in, rk, in2, rk2, {})
  BY <1>1, <1>11, <1>12, <1>36, KeepsNew
<1>14. Goes(flow', Out(blocks, flow, in, c), p)
  BY <1>4, <1>36 DEF Goes
<1>37. in2[c] = in[c] /\ c \notin {}
  BY <1>4, <1>11
<1>15. Inside(blocks', flow', in2, c) /\ ("cond" \in form => blocks'[c].insts # <<>> /\ Last(blocks', c) = v)
       /\ ("def" \in form /\ "cond" \notin form => blocks'[c].insts # <<>> /\ Last(blocks', c) = p)
  <2>1. CASE "def" \notin form /\ "cond" \notin form
    <3>1. blocks'[c].insts = I(c)
      BY <1>7, <2>1 DEF Made
    <3> QED BY <1>1, <1>4, <1>13, <1>37, <2>1, <3>1, InsideKept
  <2>4. CASE "def" \in form /\ "cond" \notin form
    <3>1. blocks'[c].insts = Append(I(c), p)
      BY <1>7, <2>4 DEF Made
    <3>2. Inside(blocks', flow', in2, c) /\ blocks'[c].insts # <<>> /\ Last(blocks', c) = p
      BY <1>1, <1>4, <1>13, <1>14, <1>37, <3>1, InsideNext
    <3> QED BY <2>4, <3>2
  <2>2. CASE "def" \notin form /\ "cond" \in form
    <3>1. blocks'[c].insts = Append(I(c), p) /\ v = p
      BY <1>3, <1>7, <2>2 DEF Made
    <3>2. Inside(blocks', flow', in2, c) /\ blocks'[c].insts # <<>> /\ Last(blocks', c) = p
      BY <1>1, <1>4, <1>13, <1>14, <1>37, <3>1, InsideNext
    <3> QED BY <2>2, <3>1, <3>2
  <2>3. CASE "def" \in form /\ "cond" \in form
    <3>1. blocks'[c].insts = Append(Append(I(c), p), v)
      BY <1>3, <1>7, <2>3 DEF Made
    <3>2. Enters(flow', p) => <<p, "next", v>> \in flow'
      BY <1>36, <2>3
    <3>3. Inside(blocks', flow', in2, c) /\ blocks'[c].insts # <<>> /\ Last(blocks', c) = v
      BY <1>1, <1>3, <1>4, <1>13, <1>14, <1>37, <3>1, <3>2, InsideTwo
    <3> QED BY <2>3, <3>3
  <2> QED BY <2>1, <2>2, <2>3, <2>4
<1>39. "cond" \in form /\ Enters(flow', v) => <<v, "true">> \in in2[k2] /\ <<v, "false">> \in in2[k3]
  BY <1>6, <1>11, <1>30, <1>36
<1>16. Settled(in2, rk2, c)
  <2>3. CASE "def" \in form /\ "cond" \notin form
    <3>1. blocks'[c].term = "br" /\ blocks'[c].to = <<k2>> /\ blocks'[k2].insts = <<q>> /\ <<q>> # <<>>
      BY <1>7, <2>3 DEF Made
    <3>2. in2[k2] = IF Reached THEN {<<p, "next">>} ELSE {}
      BY <1>11, <1>30, <2>3
    <3>3. Out(blocks', flow', in2, c) \subseteq in2[k2]
      BY <1>15, <1>36, <2>3, <3>2, OutLast
    <3> QED BY <3>1, <3>3, WiredBr DEF Settled
  <2>1. CASE "def" \notin form /\ "cond" \notin form
    <3>1. blocks'[c].term = "br" /\ blocks'[c].to = <<k2>> /\ blocks'[c].insts = I(c) /\ blocks'[k2].insts = <<p>> /\ <<p>> # <<>>
      BY <1>7, <2>1 DEF Made
    <3>2. Out(blocks', flow', in2, c) = Out(blocks, flow, in, c)
      BY <1>1, <1>4, <1>13, <1>37, <3>1, OutKept
    <3>3. Out(blocks', flow', in2, c) \subseteq in2[k2]
      BY <1>4, <1>11, <1>30, <2>1, <3>2
    <3> QED BY <3>1, <3>3, WiredBr DEF Settled
  <2>2. CASE "cond" \in form
    <3>1. blocks'[c].term = "cond" /\ blocks'[c].to = <<k2, k3>>
      BY <1>7, <2>2 DEF Made
    <3> QED BY <1>15, <1>39, <2>2, <3>1, WiredCond DEF Settled
  <2> QED BY <2>1, <2>2, <2>3
<1>18. Joined(blocks', flow', in2, rk2, t, D, k3)
  <2>1. in2[k1] \subseteq t.continues /\ in2[k3] \subseteq t.saved \union t.breaks
    BY <1>11
  <2> QED BY <1>6, <1>12, <1>39, <2>1 DEF Joined
<1>19. Depth \in 1..Len(stack') /\ D \in 1..Len(stack')
  BY <1>0, <1>4, <1>5
<1>20. Settled(in2, rk2, k2) /\ Settled(in2, rk2, k3)
  BY <1>0, <1>6, <1>34, <1>19, SettledBlock
<1>33. Settled(in2, rk2, k1)
  <2>1. OpenAt(blocks', t, k1)
    BY <1>6 DEF OpenAt
  <2> QED BY <1>0, <1>19, <2>1, SettledOpen
<1>21. Inside(blocks', flow', in2, k1) /\ Inside(blocks', flow', in2, k3)
  BY <1>7, InsideEmpty DEF Fresh, Made
<1>40. ASSUME "cond" \notin form PROVE Inside(blocks', flow', in2, k2) /\ Out(blocks', flow', in2, k2) \subseteq exits'
  <2>1. blocks'[k2].insts = <<v>> /\ <<v>> # <<>> /\ Len(<<v>>) = 1 /\ <<v>>[1] = v
    BY <1>3, <1>7, <1>40 DEF Made
  <2>6. Goes(flow', in2[k2], v)
    <3>1. CASE "def" \in form
      BY <1>11, <1>30, <1>36, <1>40, <3>1 DEF Goes
    <3>2. CASE "def" \notin form
      BY <1>3, <1>11, <1>30, <1>36, <1>40, <3>2
    <3> QED BY <3>1, <3>2
  <2>2. Inside(blocks', flow', in2, k2)
    BY <2>1, <2>6 DEF Inside
  <2>3. Last(blocks', k2) = v
    BY <2>1 DEF Last
  <2>4. Enters(flow', v) => <<v, "next">> \in exits'
    BY <1>36, <1>40
  <2>5. Out(blocks', flow', in2, k2) \subseteq exits'
    BY <2>1, <2>3, <2>4, OutLast
  <2> QED BY <2>2, <2>5
<1>41. ASSUME "cond" \in form PROVE Inside(blocks', flow', in2, k2) /\ Out(blocks', flow', in2, k2) \subseteq exits'
  <2>1. blocks'[k2].insts = <<>> /\ in2[k2] = exits'
    BY <1>7, <1>11, <1>30, <1>41 DEF Made, Fresh
  <2>2. Inside(blocks', flow', in2, k2)
    BY <2>1, InsideEmpty
  <2>3. Out(blocks', flow', in2, k2) \subseteq exits'
    BY <2>1 DEF Out
  <2> QED BY <2>2, <2>3
<1>22. Inside(blocks', flow', in2, k2) /\ Here(blocks', flow', in2, rk2, t, exits')
  <2>1. Inside(blocks', flow', in2, k2) /\ Out(blocks', flow', in2, k2) \subseteq exits'
    BY <1>40, <1>41
  <2> QED BY <1>6, <2>1 DEF Here
<1>23. N' \in Nat /\ (\A b \in (N + 1)..N' : b = k1 \/ b = k2 \/ b = k3) /\ Depth \in 1..N' /\ D \in 1..N' /\ 1 \in 1..N'
  BY <1>0, <1>4, <1>7
<1>24. rk2[s.block] = Depth
  BY <1>34, <1>12
<1>26. \A b \in (N + 1)..N' : rk2[b] \in 1..N' /\ Inside(blocks', flow', in2, b) /\ Settled(in2, rk2, b)
  BY <1>12, <1>20, <1>21, <1>22, <1>23, <1>33
<1>27. Joined(blocks', flow', in2, rk2, t, Depth + 1, s.block)
  BY <1>0, <1>34, <1>18
<1>28. N' \in Nat
  BY <1>23
<1>25. GraphNext(in2, rk2)
  BY <1>0, <1>1, <1>5, <1>8, <1>13, <1>15, <1>16, <1>22, <1>24, <1>26, <1>27, <1>28, <1>35, GraphPush
<1> QED BY <1>25

\* Only the current scope works on its blocks.
LEMMA CurOpen ==
    ASSUME Ranged, Struct, NEW in, NEW rk, GraphNow(in, rk), NEW b \in 1..N, b \in Live(Cur)
    PROVE  OpenAt(blocks, Cur, b) \/ Wired(blocks, flow, in, rk, b)
<1>1. OpenIn(blocks, stack, b) \/ Wired(blocks, flow, in, rk, b)
  BY DEF GraphNow, Graph, N
<1>2. ASSUME NEW d \in 1..Depth, OpenAt(blocks, stack[d], b) PROVE d = Depth
  BY <1>2, OpenLive, LiveOnly, BaseIs DEF Cur
<1> QED BY <1>1, <1>2 DEF OpenIn, Cur, Depth

\* The block that a branch ends in, when what follows goes to the block B of the scope below.
LEMMA BranchEnd ==
    ASSUME Known, NEW in, NEW rk, GraphNow(in, rk), phase = "compile", ~odd, Depth > 1, Cur.tail # "open", Cur.kind # "body",
           NEW c, c = Cur.block, NEW B, B = Parent.block, NEW in2, NEW rk2, NEW G, Keeps(in, rk, in2, rk2, G), c \notin G,
           blocks'[c] = blocks[c], \A x \in 1..N : Heads(x), exits \subseteq in2[B] \/ (Cur.tail = "if" => ~Reached)
    PROVE  \/ c = Cur.first /\ Term(c) = "none" /\ Cur.jumped = "no"
           \/ Wired(blocks', flow', in2, rk2, c)
<1>1. Ranged /\ Typed /\ Formed /\ Struct /\ Emitted /\ Below
  BY Known1
<1>2. /\ c \in 1..N /\ rk[c] = Depth /\ Depth \in Nat /\ PendIn(blocks, c) /\ N \in Nat
      /\ Cur.jumped = "no" => Out(blocks, flow, in, c) \subseteq exits
  BY CurNow
<1>00. PICK m : m = Depth - 1
  OBVIOUS
<1>3. B \in 1..N /\ m \in 1..Depth /\ Parent = stack[m] /\ Under(stack, Depth) = B
  BY <1>00, <1>1, ParentIs
<1>4. rk[B] = m
  BY <1>3 DEF GraphNow, Graph, Joined, Depth
<1>5. rk2[B] < rk2[c]
  BY <1>00, <1>2, <1>3, <1>4 DEF Keeps
<1>6. Out(blocks', flow', in2, c) = Out(blocks, flow, in, c)
  BY <1>1, <1>2, OutKept DEF I
<1>7. TailIs(blocks, Cur, Depth, Under(stack, Depth), exits)
  BY DEF Known, Tails
<1>8. Cur.tail = "first" \/ Cur.tail = "if" \/ Cur.tail = "ended"
  <2>1. Cur \in Scope
    BY <1>1, CurIs
  <2>2. Cur.tail \in {"first", "if", "open", "ended"}
    BY <2>1 DEF Scope
  <2> QED BY <2>2
<1>9. Cur.tail # "ended" => Cur.jumped = "no"
  BY StillGoes
<1>10. CASE Cur.tail = "first"
  BY <1>7, <1>9, <1>10 DEF TailIs, Term
<1>11. CASE Cur.tail = "if"
  <2>1. blocks'[c].term = "br" /\ blocks'[c].to = <<B>>
    BY <1>3, <1>7, <1>11 DEF TailIs
  <2>2. Out(blocks', flow', in2, c) \subseteq in2[B]
    BY <1>2, <1>6, <1>9, <1>11 DEF Reached
  <2> QED BY <1>5, <2>1, <2>2, WiredBr
<1>12. CASE Cur.tail = "ended"
  <2>1. blocks[c].term # "none" /\ exits = {}
    BY <1>7, <1>12 DEF TailIs
  <2>2. CASE Cur.jumped = "no"
    <3>1. Out(blocks', flow', in2, c) = {}
      BY <1>2, <1>6, <2>1, <2>2
    <3>2. PendIn(blocks', c) /\ blocks'[c].term # "none"
      BY <1>2, <2>1 DEF PendIn
    <3> QED BY <3>1, <3>2, WiredEmpty
  <2>3. CASE Cur.jumped # "no"
    <3>1. Wired(blocks, flow, in, rk, c)
      BY <2>3 DEF GraphNow, Graph, Here, Cur, Depth
    <3> QED BY <1>1, <1>2, <3>1, WiredKept
  <2> QED BY <2>2, <2>3
<1> QED BY <1>8, <1>10, <1>11, <1>12

\* Going on to the else branch keeps the graph, in a form that the generator handles.
LEMMA GraphElse ==
    ASSUME Known, NEW in, NEW rk, GraphNow(in, rk), Else, ~odd'
    PROVE  \E in2, rk2 : GraphNext(in2, rk2)
<1>0. PICK c, B, t, m, a, f : c = Cur.block /\ B = Parent.block /\ t = stack'[Depth] /\ m = Depth - 1 /\ a = Cur.cond /\ f = Cur.first
  OBVIOUS
<1>1. Ranged /\ Typed /\ Formed /\ Struct /\ Emitted /\ Below
  BY Known1
<1>2. /\ phase = "compile" /\ ~odd /\ Depth > 1 /\ Cur.kind = "then" /\ Cur.tail # "open" /\ blocks' = blocks /\ flow' = flow
      /\ exits' = IF Came THEN {<<Cur.point, "false">>} ELSE {}
  BY DEF Else, Compiling
<1>3. /\ c \in 1..N /\ rk[c] = Depth /\ Depth \in Nat /\ N \in Nat
      /\ Joined(blocks, flow, in, rk, Cur, Depth, Under(stack, Depth))
      /\ Cur.jumped = "no" => Out(blocks, flow, in, c) \subseteq exits
  BY <1>0, CurNow
<1>4. /\ m \in Nat /\ m \in 1..Depth /\ m # Depth /\ Parent = stack[m] /\ B \in 1..N /\ B \in Live(Parent) /\ Keen(Parent)
      /\ Under(stack, Depth) = B /\ Shaped(blocks, Cur, B) /\ Cur = stack[Depth] /\ Depth \in 1..Depth
      /\ \A x \in Live(Cur) : x \in 1..N /\ x \notin Live(Parent) /\ x # B
  BY <1>0, <1>1, <1>2, ParentIs
<1>5. HasCond(Cur) /\ a \in Live(Cur) /\ f \in Live(Cur) /\ c \in Live(Cur) /\ BlankIn(blocks, B) /\ BlankIn(blocks, a) /\ a # c /\ a # f
  <2>1. HasCond(Cur) /\ Keen(Cur)
    BY <1>1, <1>2, <1>4 DEF HasCond, Struct
  <2> QED BY <1>0, <1>2, <1>4, <2>1 DEF Shaped, Live, Keen
<1>6. /\ rk[a] = Depth /\ rk[f] = Depth /\ in[B] \subseteq Cur.saved \union Cur.breaks
      /\ \A e \in in[a] : e = <<Cur.point, "false">> /\ Enters(flow, Cur.point)
  BY <1>0, <1>2, <1>3, <1>4, <1>5 DEF Joined
<1>7. in[B] = {}
  BY <1>1, <1>2, <1>4, <1>6 DEF Formed, FormedScope
<1>8. PICK in2 : More(in2, in, N, {B}, exits)
  BY <1>3, MoreIs
<1>9. (\A b \in 1..N : in[b] \subseteq in2[b] /\ (b \notin {B} => in2[b] = in[b])) /\ in2[B] = exits
  BY <1>4, <1>7, <1>8 DEF More
<1>10. Keeps(in, rk, in2, rk, {B})
  BY <1>2, <1>9, KeepsFlow
<1>11. Local(m, {}) /\ \A x \in 1..N : Heads(x)
  BY <1>0, <1>1, StructElse DEF Local
<1>12. c \notin {B} /\ a \notin {B} /\ f \notin {B} /\ a \in 1..N /\ f \in 1..N
  BY <1>4, <1>5
<1>13. \/ c = f /\ Term(c) = "none" /\ Cur.jumped = "no"
       \/ Wired(blocks', flow', in2, rk, c)
  BY <1>0, <1>2, <1>9, <1>10, <1>11, <1>12, BranchEnd
<1>14. /\ Len(stack') = Depth /\ (\A d \in 1..Depth : d # Depth => stack'[d] = stack[d])
       /\ Opened(Parent, t, "else", a) /\ t.point = Cur.point /\ t.cond = f /\ t.end = Cur.end /\ t.saved = exits
  BY <1>0, <1>1, ElseStack
<1>15. t.kind = "else" /\ t.block = a /\ t.first = a /\ t.jumped = "no" /\ t.breaks = {}
  BY <1>14 DEF Opened
<1>16. Term(f) = "none" => f = c /\ Cur.jumped = "no"
  <2>1. ASSUME Term(f) = "none" PROVE f = c
    <3>1. ~Wired(blocks, flow, in, rk, f)
      BY <2>1 DEF Wired, Term
    <3>2. OpenAt(blocks, Cur, f)
      BY <1>1, <1>5, <1>12, <3>1, CurOpen
    <3> QED BY <1>0, <1>2, <1>5, <3>2 DEF OpenAt
  <2>2. ASSUME Term(c) = "none" PROVE Cur.jumped = "no"
    <3>1. ~Wired(blocks', flow', in2, rk, c)
      BY <1>2, <2>2 DEF Wired, Term
    <3> QED BY <1>13, <3>1
  <2> QED BY <2>1, <2>2
<1>17. Out(blocks', flow', in2, c) = Out(blocks, flow, in, c)
  BY <1>1, <1>2, <1>3, <1>10, <1>12, OutKept DEF I
<1>18. Joined(blocks', flow', in2, rk, t, Depth, B)
  <2>1. blocks'[f].term = "none" => Out(blocks', flow', in2, f) \subseteq in2[B]
    BY <1>2, <1>3, <1>9, <1>16, <1>17 DEF Term
  <2> QED BY <1>6, <1>9, <1>14, <1>15, <2>1 DEF Joined
<1>19. Under(stack', Depth) = B
  BY <1>0, <1>3, <1>4, <1>14 DEF Under
<1>20. Here(blocks', flow', in2, rk, t, exits')
  <2>1. Out(blocks', flow', in2, a) = in[a]
    BY <1>2, <1>5, <1>9, <1>12 DEF BlankIn, Out
  <2>2. Enters(flow, Cur.point) => Came
    BY DEF Enters, Came
  <2> QED BY <1>2, <1>6, <1>15, <2>1, <2>2 DEF Here
<1>21. m \in 1..Len(stack') /\ Depth \in 1..Len(stack') /\ stack'[m].block = B
  BY <1>0, <1>4, <1>14
<1>22. ASSUME NEW b, b = B \/ OpenAt(blocks, Cur, b) PROVE Settled(in2, rk, b)
  <2>1. Settled(in2, rk, B)
    BY <1>21, SettledBlock
  <2>2. Settled(in2, rk, a)
    BY <1>0, <1>15, <1>21, SettledBlock
  <2>3. Settled(in2, rk, c)
    <3>1. CASE Wired(blocks', flow', in2, rk, c)
      BY <3>1 DEF Settled
    <3>2. CASE c = f /\ Term(c) = "none"
      <4>1. OpenAt(blocks', t, c)
        BY <1>2, <1>14, <1>15, <3>2 DEF OpenAt, Term
      <4> QED BY <1>0, <1>21, <4>1, SettledOpen
    <3> QED BY <1>13, <3>1, <3>2
  <2>4. b = B \/ b = a \/ b = c
    BY <1>0, <1>2, <1>22 DEF OpenAt
  <2> QED BY <2>1, <2>2, <2>3, <2>4
<1>23. ASSUME NEW d \in 1..m, (d > 1 /\ Under(stack, d) \in {B}) \/ (HasCond(stack[d]) /\ stack[d].cond \in {B}) PROVE FALSE
  <2>1. d \in 1..Depth /\ d \in Nat /\ d < Depth
    BY <1>0, <1>3, <1>23
  <2>2. ASSUME d > 1, Under(stack, d) = B PROVE FALSE
    <3>0. PICK e : e = d - 1
      OBVIOUS
    <3>1. e \in 1..Depth /\ B \in Live(stack[e]) /\ e # m
      BY <1>0, <1>1, <1>3, <2>1, <2>2, <3>0, UnderLive
    <3> QED BY <1>1, <1>4, <3>1, LiveOnly
  <2>3. ASSUME HasCond(stack[d]), stack[d].cond = B PROVE FALSE
    <3>1. B \in Live(stack[d])
      BY <2>3 DEF Live
    <3>2. d = m
      BY <1>1, <1>4, <2>1, <3>1, LiveOnly
    <3> QED BY <1>0, <1>4, <2>3, <3>2 DEF Keen
  <2> QED BY <1>23, <2>2, <2>3
<1>24. \A d \in 1..m : stack[d].breaks \subseteq stack'[d].breaks /\ stack[d].continues \subseteq stack'[d].continues
  BY <1>0, <1>3, <1>14
<1>25. \A d \in (m + 1)..Len(stack') : d = Depth
  BY <1>0, <1>3, <1>14
<1>26. \A d \in (m + 1)..Len(stack') : Joined(blocks', flow', in2, rk, stack'[d], d, Under(stack', d))
  BY <1>0, <1>18, <1>19, <1>25
<1>27. N' = N /\ N' \in Nat /\ Len(stack') \in Nat /\ (\A b \in (N + 1)..N' : FALSE)
  BY <1>2, <1>3, <1>14 DEF N
<1>28. \A b \in 1..N' : b \in {} \/ b \notin 1..N \/ (b \in {B} /\ I(b) # <<>>) => Inside(blocks', flow', in2, b)
  BY <1>5, <1>27 DEF BlankIn, I
<1>29. \A b \in 1..N' : b \in {} \/ b \notin 1..N \/ (b \in {B} /\ I(b) = <<>>) \/ (\E k \in (m + 1)..Depth : OpenAt(blocks, stack[k], b)) =>
               OpenIn(blocks', stack', b) \/ Wired(blocks', flow', in2, rk, b)
  <2>1. \A k \in (m + 1)..Depth : stack[k] = Cur
    BY <1>0, <1>3, <1>4
  <2> QED BY <1>22, <1>27, <2>1 DEF Settled
<1>30. Here(blocks', flow', in2, rk, stack'[Len(stack')], exits')
  BY <1>0, <1>14, <1>20
<1>31. GraphNext(in2, rk)
  BY <1>1, <1>10, <1>11, <1>23, <1>24, <1>26, <1>27, <1>28, <1>29, <1>30, GraphStep
<1> QED BY <1>31

\* The scope below has not jumped.
LEMMA ParentGoes == ASSUME Known, phase = "compile", ~odd, Depth > 1 PROVE Parent.jumped = "no"
<1>1. Depth \in Nat
  BY Known1, BaseIs
<1>2. Depth - 1 \in 1..Depth /\ Depth - 1 # Depth
  BY <1>1
<1> QED BY <1>2 DEF Known, Quiet, QuietIs, Parent

\* The scope below goes on as s when the current one is closed.
LEMMA PopKeeps ==
    ASSUME Known, Depth > 1, NEW b \in Nat, NEW x \in {"if", "open"}, Pop(b, x), NEW s, s = stack'[Depth - 1]
    PROVE  /\ Len(stack') = Depth - 1 /\ s.block = b /\ s.jumped = Parent.jumped /\ Core(Parent, s)
           /\ \A d \in 1..(Depth - 1) : Core(stack[d], stack'[d]) /\ Loops(stack[d], stack'[d])
<1>1. Typed /\ Depth \in Nat
  BY Known1, BaseIs
<1>2. /\ Len(stack') = Depth - 1 /\ \A d \in 1..(Depth - 2) : stack'[d] = stack[d]
      /\ Core(Parent, s) /\ Loops(Parent, s) /\ s.block = b /\ s.jumped = Parent.jumped
  BY <1>1, PopStack
<1>3. ASSUME NEW d \in 1..(Depth - 1) PROVE Core(stack[d], stack'[d]) /\ Loops(stack[d], stack'[d])
  <2>1. CASE d = Depth - 1
    BY <1>2, <2>1 DEF Parent
  <2>2. CASE d # Depth - 1
    <3>1. d \in 1..(Depth - 2)
      BY <1>1, <2>2
    <3> QED BY <1>2, <3>1, SelfIs
  <2> QED BY <2>1, <2>2
<1> QED BY <1>2, <1>3

\* The block that a branch begins with, made to go to k when nothing has ended it.
LEMMA BranchShut ==
    ASSUME Known, NEW in, NEW rk, GraphNow(in, rk), phase = "compile", ~odd, Depth > 1, Cur.tail # "open", Cur.kind = "if" \/ Cur.kind = "else",
           NEW a, a = Cur.first, NEW B, B = Parent.block, NEW k, Shut(a, k),
           NEW in2, NEW rk2, NEW G, Keeps(in, rk, in2, rk2, G), a \notin G,
           \A x \in 1..N : Heads(x), exits \subseteq in2[B] \/ (Cur.tail = "if" => ~Reached), exits \subseteq in2[k], rk2[k] < Depth
    PROVE  Wired(blocks', flow', in2, rk2, a) /\ Inside(blocks', flow', in2, a)
<1>0. PICK c : c = Cur.block
  OBVIOUS
<1>1. Ranged /\ Typed /\ Formed /\ Struct /\ Emitted /\ Below
  BY Known1
<1>2. /\ c \in 1..N /\ N \in Nat /\ Depth \in Nat /\ Joined(blocks, flow, in, rk, Cur, Depth, Under(stack, Depth))
      /\ Cur.jumped = "no" => Out(blocks, flow, in, c) \subseteq exits
  BY <1>0, CurNow
<1>3. a \in Live(Cur) /\ a \in 1..N /\ rk[a] = Depth /\ rk2[a] = Depth
  <2>1. a \in 1..N
    BY <1>1, CurFits
  <2> QED BY <1>2, <2>1 DEF Live, Joined, Keeps
<1>4. blocks'[a].insts = I(a)
  BY DEF Shut
<1>5. Inside(blocks', flow', in2, a)
  <2>1. Inside(blocks, flow, in, a)
    BY <1>3 DEF GraphNow, Graph, N
  <2> QED BY <1>1, <1>3, <1>4, <2>1, InsideKept
<1>6. OpenAt(blocks, Cur, a) => a = c
  <2>1. Keen(Cur)
    BY <1>1, BaseIs DEF Struct, Cur
  <2> QED BY <1>0, <2>1 DEF OpenAt, Keen, HasCond
<1>7. CASE Term(a) = "none"
  <2>1. ~Wired(blocks, flow, in, rk, a)
    BY <1>7 DEF Wired, Term
  <2>2. a = c
    BY <1>1, <1>3, <1>6, <2>1, CurOpen
  <2>3. Cur.jumped = "no"
    <3>1. Cur.jumped # "no" => Wired(blocks, flow, in, rk, c)
      BY <1>0 DEF GraphNow, Graph, Here, Cur, Depth
    <3> QED BY <2>1, <2>2, <3>1
  <2>4. Out(blocks', flow', in2, a) = Out(blocks, flow, in, a)
    BY <1>1, <1>3, <1>4, OutKept
  <2>5. Out(blocks', flow', in2, a) \subseteq in2[k]
    BY <1>2, <2>2, <2>3, <2>4
  <2>6. blocks'[a].term = "br" /\ blocks'[a].to = <<k>> /\ rk2[k] < rk2[a]
    BY <1>3, <1>7 DEF Shut
  <2> QED BY <1>5, <2>5, <2>6, WiredBr
<1>8. CASE Term(a) # "none"
  <2>1. blocks'[a] = blocks[a]
    BY <1>8 DEF Shut
  <2>2. CASE a # c
    <3>1. Wired(blocks, flow, in, rk, a)
      BY <1>1, <1>3, <1>6, <2>2, CurOpen
    <3> QED BY <1>1, <1>3, <1>5, <2>1, <3>1, WiredKept
  <2>3. CASE a = c
    <3>1. Wired(blocks', flow', in2, rk2, c)
      BY <1>0, <1>8, <2>1, <2>3, BranchEnd
    <3> QED BY <1>5, <2>3, <3>1
  <2> QED BY <2>2, <2>3
<1> QED BY <1>7, <1>8

\* Closing an if keeps the graph, in a form that the generator handles.
LEMMA GraphCloseIf ==
    ASSUME Known, NEW in, NEW rk, GraphNow(in, rk), CloseIf, ~odd'
    PROVE  \E in2, rk2 : GraphNext(in2, rk2)
<1>0. PICK c, b, a, k, m, s, p, T : c = Cur.block /\ b = Parent.block /\ a = Cur.first /\ k = N + 1 /\ m = Depth - 1 /\ s = stack'[m] /\ p = Cur.point /\ T = {a, b}
  OBVIOUS
<1>1. Ranged /\ Typed /\ Formed /\ Struct /\ Emitted /\ Below
  BY Known1
<1>2. /\ phase = "compile" /\ ~odd /\ Depth > 1 /\ Cur.kind = "if" /\ Cur.tail # "open" /\ (Cur.tail = "if" => ~Reached) /\ flow' = flow
      /\ exits' = exits \union Cur.saved /\ Pop(k, "if")
  BY <1>0 DEF CloseIf, Compiling, N
<1>3. /\ c \in 1..N /\ Depth \in Nat /\ N \in Nat /\ Depth <= N
      /\ Joined(blocks, flow, in, rk, Cur, Depth, Under(stack, Depth))
  BY <1>0, CurNow
<1>4. /\ m \in Nat /\ m \in 1..Depth /\ m # Depth /\ Parent = stack[m] /\ b \in 1..N /\ Under(stack, Depth) = b
      /\ \A x \in Live(Cur) : x \in 1..N /\ x \notin Live(Parent) /\ x # b
  BY <1>0, <1>1, <1>2, ParentIs
<1>5. a \in Live(Cur) /\ c \in Live(Cur) /\ a # b /\ c # b /\ a \in 1..N /\ ~HasCond(Cur)
  BY <1>0, <1>2, <1>4 DEF Live, HasCond
<1>6. /\ Goes(flow, Out(blocks, flow, in, b), p)
      /\ Enters(flow, p) => <<p, "true">> \in in[a] /\ <<p, "false">> \in Cur.saved
  BY <1>0, <1>2, <1>3, <1>4 DEF Joined
<1>7. /\ N' = k /\ OnlyAt({a, b}) /\ Made(b, Append(I(b), p), "cond", <<a, k>>) /\ Shut(a, k) /\ blocks'[k].insts = <<>>
  <2>1. IfClosed(a, b, k)
    BY <1>0, <1>1, <1>5, CloseIfBlocks
  <2>2. Depth = 2 \/ Depth > 2
    BY <1>2, <1>3
  <2> QED BY <1>0, <2>1, <2>2 DEF IfClosed, Fresh, Made
<1>8. Local(Depth - 2, T) /\ \A x \in 1..N : Heads(x)
  <2>1. Local(Depth - 2, T)
    BY <1>0, <1>1, StructCloseIf
  <2> QED BY <2>1 DEF Local
<1>9. PICK in2 : Ext(in2, in, N, k, exits')
  BY <1>0, <1>3, ExtIs
<1>10. PICK rk2 : Ext(rk2, rk, N, k, m)
  BY <1>0, <1>3, ExtIs
<1>11. (\A x \in 1..N : in2[x] = in[x]) /\ in2[k] = exits'
  BY <1>9 DEF Ext
<1>12. (\A x \in 1..N : rk2[x] = rk[x]) /\ rk2[k] = m
  BY <1>10 DEF Ext
<1>13. Keeps(in, rk, in2, rk2, {})
  BY <1>1, <1>2, <1>11, <1>12, KeepsNew
<1>14. Wired(blocks', flow', in2, rk2, a) /\ Inside(blocks', flow', in2, a)
  <2>1. a \notin {} /\ exits \subseteq in2[k] /\ rk2[k] < Depth
    BY <1>0, <1>2, <1>3, <1>11, <1>12
  <2> QED BY <1>0, <1>2, <1>7, <1>8, <1>13, <2>1, BranchShut
<1>15. Inside(blocks', flow', in2, b) /\ blocks'[b].insts # <<>> /\ Last(blocks', b) = p
  <2>1. Inside(blocks, flow, in, b)
    BY <1>4 DEF GraphNow, Graph, N
  <2>2. Goes(flow', Out(blocks, flow, in, b), p)
    BY <1>2, <1>6
  <2>3. blocks'[b].insts = Append(I(b), p) /\ in2[b] = in[b]
    BY <1>4, <1>7, <1>11 DEF Made
  <2> QED BY <1>1, <1>4, <1>13, <2>1, <2>2, <2>3, InsideNext
<1>16. Wired(blocks', flow', in2, rk2, b)
  <2>1. blocks'[b].term = "cond" /\ blocks'[b].to = <<a, k>>
    BY <1>7 DEF Made
  <2>2. Enters(flow', p) => <<p, "true">> \in in2[a] /\ <<p, "false">> \in in2[k]
    BY <1>2, <1>5, <1>6, <1>11
  <2> QED BY <1>15, <2>1, <2>2, WiredCond
<1>17. Wired(blocks', flow', in2, rk2, c)
  <2>1. CASE c = a
    BY <1>14, <2>1
  <2>2. CASE c # a
    <3>1. blocks'[c] = blocks[c] /\ c \notin {}
      BY <1>3, <1>5, <1>7, <2>2 DEF OnlyAt
    <3> QED BY <1>0, <1>2, <1>8, <1>13, <2>2, <3>1, BranchEnd
  <2> QED BY <2>1, <2>2
<1>18. Len(stack') = Depth - 1 /\ s.block = k /\ s.jumped = Parent.jumped
       /\ \A d \in 1..(Depth - 1) : Core(stack[d], stack'[d]) /\ Loops(stack[d], stack'[d])
  <2>1. k \in Nat /\ "if" \in {"if", "open"}
    BY <1>0, <1>3
  <2> QED BY <1>0, <1>2, <2>1, PopKeeps
<1>19. s.jumped = "no"
  BY <1>2, <1>18, ParentGoes
<1>20. Here(blocks', flow', in2, rk2, s, exits')
  <2>1. Out(blocks', flow', in2, k) = in2[k]
    BY <1>7 DEF Out
  <2> QED BY <1>11, <1>18, <1>19, <2>1 DEF Here
<1>21. N' \in Nat /\ rk2[k] \in 1..N' /\ \A x \in (N + 1)..N' : x = k
  BY <1>0, <1>2, <1>3, <1>7, <1>12
<1>22. Inside(blocks', flow', in2, k) /\ Settled(in2, rk2, k)
  <2>1. m \in 1..Len(stack')
    BY <1>0, <1>3, <1>4, <1>18
  <2> QED BY <1>0, <1>7, <1>18, <2>1, InsideEmpty, SettledBlock
<1>23. \A x \in T \union {} : Inside(blocks', flow', in2, x) /\ Settled(in2, rk2, x)
  BY <1>0, <1>14, <1>15, <1>16 DEF Settled
<1>24. Settled(in2, rk2, c) /\ Settled(in2, rk2, b)
  BY <1>16, <1>17 DEF Settled
<1>25. (\A x \in T : x \in Live(Cur) \/ x = Parent.block) /\ (\A x \in {} : x \in Live(Cur) \/ x = Parent.block)
  BY <1>0, <1>5
<1>26. rk2[s.block] = Depth - 1 /\ s = stack'[Depth - 1]
  BY <1>0, <1>12, <1>18
<1>27. GraphNext(in2, rk2)
  BY <1>0, <1>1, <1>2, <1>5, <1>8, <1>13, <1>18, <1>20, <1>21, <1>22, <1>23, <1>24, <1>25, <1>26, GraphPop
<1> QED BY <1>27

\* Closing an if/else keeps the graph, in a form that the generator handles.
LEMMA GraphCloseIfElse ==
    ASSUME Known, NEW in, NEW rk, GraphNow(in, rk), CloseIfElse, ~odd'
    PROVE  \E in2, rk2 : GraphNext(in2, rk2)
<1>0. PICK c, B, a, f, m, s, T, G : c = Cur.block /\ B = Parent.block /\ a = Cur.cond /\ f = Cur.first /\ m = Depth - 1 /\ s = stack'[m] /\ T = {a, f, B} /\ G = {B}
  OBVIOUS
<1>1. Ranged /\ Typed /\ Formed /\ Struct /\ Emitted /\ Below
  BY Known1
<1>2. /\ phase = "compile" /\ ~odd /\ Depth > 1 /\ Cur.kind = "else" /\ Cur.tail # "open" /\ flow' = flow
      /\ exits' = exits \union Cur.saved /\ Pop(Cur.end, "if")
  BY DEF CloseIfElse, Compiling
<1>3. /\ c \in 1..N /\ Depth \in Nat /\ N \in Nat
      /\ Joined(blocks, flow, in, rk, Cur, Depth, Under(stack, Depth))
  BY <1>0, CurNow
<1>4. /\ m \in Nat /\ m \in 1..Depth /\ m # Depth /\ Parent = stack[m] /\ B \in 1..N /\ Under(stack, Depth) = B /\ Shaped(blocks, Cur, B)
      /\ Cur = stack[Depth] /\ Depth \in 1..Depth
      /\ \A x \in Live(Cur) : x \in 1..N /\ x \notin Live(Parent) /\ x # B
  BY <1>0, <1>1, <1>2, ParentIs
<1>5. HasCond(Cur) /\ a \in Live(Cur) /\ f \in Live(Cur) /\ c \in Live(Cur) /\ BlankIn(blocks, B) /\ a # c /\ a # f /\ Cur.end = B
  <2>1. HasCond(Cur) /\ Keen(Cur)
    BY <1>1, <1>2, <1>4 DEF HasCond, Struct
  <2> QED BY <1>0, <1>2, <1>4, <2>1 DEF Shaped, Live, Keen
<1>6. /\ rk[a] = Depth /\ in[B] \subseteq Cur.saved \union Cur.breaks
      /\ Term(a) = "none" => Out(blocks, flow, in, a) \subseteq in[B]
  BY <1>0, <1>2, <1>3, <1>4, <1>5 DEF Joined, Term
<1>7. Cur.breaks = {}
  BY <1>1, <1>2, <1>4 DEF Formed, FormedScope
<1>8. PICK in2 : More(in2, in, N, G, exits)
  BY <1>3, MoreIs
<1>9. (\A b \in 1..N : in[b] \subseteq in2[b] /\ (b \notin G => in2[b] = in[b])) /\ in2[B] = in[B] \union exits
  BY <1>0, <1>4, <1>8 DEF More
<1>10. Keeps(in, rk, in2, rk, G)
  BY <1>2, <1>9, KeepsFlow
<1>11. Local(Depth - 2, T)
  BY <1>0, <1>1, <1>5, StructCloseIfElse
<1>12. \A x \in 1..N : Heads(x)
  BY <1>11 DEF Local
<1>13. a \notin G /\ f \notin G /\ c \notin G /\ a \in 1..N /\ f \in 1..N
  BY <1>0, <1>4, <1>5
<1>14. N' = N /\ OnlyAt(T) /\ Shut(a, B) /\ Shut(f, B) /\ blocks'[B].insts = <<>>
  <2>1. N' = N /\ OnlyAt({a, f, B}) /\ Shut(a, B) /\ Shut(f, B) /\ blocks'[B].insts = I(B)
    BY <1>0, <1>1, <1>4, <1>5, CloseIfElseBlocks
  <2> QED BY <1>0, <1>5, <2>1 DEF BlankIn, I
<1>15. rk[B] = m /\ rk[B] < Depth
  <2>1. rk[B] = m
    BY <1>0, <1>4 DEF GraphNow, Graph, Joined, Depth
  <2> QED BY <1>0, <1>3, <2>1
<1>16. exits \subseteq in2[B]
  BY <1>9
<1>17. Wired(blocks', flow', in2, rk, f) /\ Inside(blocks', flow', in2, f)
  BY <1>0, <1>2, <1>10, <1>12, <1>13, <1>14, <1>15, <1>16, BranchShut
<1>18. blocks'[a].insts = I(a)
  BY <1>14 DEF Shut
<1>19. Inside(blocks', flow', in2, a)
  <2>1. Inside(blocks, flow, in, a)
    BY <1>13 DEF GraphNow, Graph, N
  <2> QED BY <1>1, <1>10, <1>13, <1>18, <2>1, InsideKept
<1>20. Wired(blocks', flow', in2, rk, a)
  <2>1. CASE Term(a) = "none"
    <3>1. Out(blocks', flow', in2, a) = Out(blocks, flow, in, a)
      BY <1>1, <1>10, <1>13, <1>18, OutKept
    <3>2. Out(blocks', flow', in2, a) \subseteq in2[B]
      BY <1>6, <1>9, <2>1, <3>1
    <3>3. blocks'[a].term = "br" /\ blocks'[a].to = <<B>> /\ rk[B] < rk[a]
      BY <1>6, <1>14, <1>15, <2>1 DEF Shut
    <3> QED BY <3>2, <3>3, WiredBr
  <2>2. CASE Term(a) # "none"
    <3>1. blocks'[a] = blocks[a]
      BY <1>14, <2>2 DEF Shut
    <3>2. ~OpenAt(blocks, Cur, a)
      BY <1>0, <1>2, <1>5, <2>2 DEF OpenAt, Term
    <3>3. Wired(blocks, flow, in, rk, a)
      BY <1>1, <1>5, <1>13, <3>2, CurOpen
    <3> QED BY <1>1, <1>10, <1>12, <1>13, <3>1, <3>3, WiredKept
  <2> QED BY <2>1, <2>2
<1>21. Wired(blocks', flow', in2, rk, c)
  <2>1. CASE c = f
    BY <1>17, <2>1
  <2>2. CASE c # f
    <3>1. blocks'[c] = blocks[c]
      BY <1>0, <1>3, <1>5, <1>13, <1>14, <2>2 DEF OnlyAt
    <3> QED BY <1>0, <1>2, <1>10, <1>12, <1>13, <1>16, <2>2, <3>1, BranchEnd
  <2> QED BY <2>1, <2>2
<1>22. Len(stack') = Depth - 1 /\ s.block = B /\ s.jumped = Parent.jumped
       /\ \A d \in 1..(Depth - 1) : Core(stack[d], stack'[d]) /\ Loops(stack[d], stack'[d])
  <2>1. B \in Nat /\ "if" \in {"if", "open"} /\ Pop(B, "if")
    BY <1>2, <1>4, <1>5
  <2> QED BY <1>0, <1>2, <2>1, PopKeeps
<1>23. s.jumped = "no"
  BY <1>2, <1>22, ParentGoes
<1>24. Here(blocks', flow', in2, rk, s, exits')
  <2>1. Out(blocks', flow', in2, B) = in2[B]
    BY <1>14 DEF Out
  <2>2. in2[B] \subseteq exits'
    BY <1>2, <1>6, <1>7, <1>9
  <2> QED BY <1>22, <1>23, <2>1, <2>2 DEF Here
<1>25. N' \in Nat /\ \A x \in (N + 1)..N' : FALSE
  BY <1>3, <1>14
<1>26. Inside(blocks', flow', in2, B) /\ Settled(in2, rk, B)
  <2>1. m \in 1..Len(stack')
    BY <1>0, <1>3, <1>4, <1>22
  <2> QED BY <1>0, <1>14, <1>22, <2>1, InsideEmpty, SettledBlock
<1>27. \A x \in T \union G : Inside(blocks', flow', in2, x) /\ Settled(in2, rk, x)
  BY <1>0, <1>17, <1>19, <1>20, <1>26 DEF Settled
<1>28. Settled(in2, rk, c) /\ Settled(in2, rk, a)
  BY <1>20, <1>21 DEF Settled
<1>29. (\A x \in T : x \in Live(Cur) \/ x = Parent.block) /\ (\A x \in G : x \in Live(Cur) \/ x = Parent.block)
  BY <1>0, <1>5
<1>30. rk[s.block] = Depth - 1 /\ s = stack'[Depth - 1]
  BY <1>0, <1>15, <1>22
<1>31. GraphNext(in2, rk)
  BY <1>0, <1>1, <1>2, <1>10, <1>11, <1>22, <1>24, <1>25, <1>26, <1>27, <1>28, <1>29, <1>30, GraphPop
<1> QED BY <1>31

\* Closing a loop keeps the graph, in a form that the generator handles.
LEMMA GraphCloseFor ==
    ASSUME Known, NEW in, NEW rk, GraphNow(in, rk), CloseFor, ~odd'
    PROVE  \E in2, rk2 : GraphNext(in2, rk2)
<1>0. PICK c, B, a, f, m, s, T, p, q : c = Cur.block /\ B = Parent.block /\ a = Cur.cond /\ f = Cur.first /\ m = Depth - 1 /\ s = stack'[m] /\ T = {a, c}
                                    /\ p = Cur.point /\ q = Cur.post
  OBVIOUS
\* G: the blocks that get more exits; X: what the body gets from the block of the condition when that has no condition
<1>00. PICK G, X : /\ G = (IF "cond" \in Cur.form THEN {a} ELSE {a, f})
                   /\ X = IF "step" \in Cur.form THEN IF Back # {} THEN {<<q, "next">>} ELSE {} ELSE Back
  OBVIOUS
<1>1. Ranged /\ Typed /\ Formed /\ Struct /\ Emitted /\ Below /\ Entered /\ PostFree
  BY Known1 DEF Known, Source
<1>2. /\ phase = "compile" /\ ~odd /\ Depth > 1 /\ Cur.kind = "body" /\ Cur.jumped \notin {"break", "ret"} /\ Pop(Cur.end, "open")
  BY DEF CloseFor, Compiling
<1>3. /\ c \in 1..N /\ Depth \in Nat /\ N \in Nat /\ rk[c] = Depth /\ Inside(blocks, flow, in, c)
      /\ Joined(blocks, flow, in, rk, Cur, Depth, Under(stack, Depth))
      /\ Cur.jumped = "no" => Out(blocks, flow, in, c) \subseteq exits
  BY <1>0, CurNow
<1>4. /\ m \in Nat /\ m \in 1..Depth /\ m # Depth /\ Parent = stack[m] /\ B \in 1..N /\ Under(stack, Depth) = B /\ Shaped(blocks, Cur, B)
      /\ Cur = stack[Depth] /\ Depth \in 1..Depth
      /\ \A x \in Live(Cur) : x \in 1..N /\ x \notin Live(Parent) /\ x # B
  BY <1>0, <1>1, <1>2, ParentIs
<1>5. /\ HasCond(Cur) /\ a \in Live(Cur) /\ f \in Live(Cur) /\ c \in Live(Cur) /\ BlankIn(blocks, B) /\ BlankIn(blocks, a) /\ a # c /\ a # f /\ Cur.end = B
      /\ "cond" \notin Cur.form => I(f) # <<>> /\ I(f)[1] = p
  <2>1. HasCond(Cur) /\ Keen(Cur)
    BY <1>1, <1>2, <1>4 DEF HasCond, Struct
  <2> QED BY <1>0, <1>2, <1>4, <2>1 DEF Shaped, Live, Keen, I
<1>6. /\ rk[a] = 1 /\ in[a] \subseteq Cur.continues /\ in[B] \subseteq Cur.saved \union Cur.breaks
      /\ "cond" \in Cur.form /\ Enters(flow, p) => <<p, "true">> \in in[f] /\ <<p, "false">> \in in[B]
  BY <1>0, <1>2, <1>3, <1>4, <1>5 DEF Joined
<1>7. a \in 1..N /\ f \in 1..N /\ B \notin T /\ B \notin G /\ Cur.form \in Forms /\ I(a) = <<>>
  BY <1>0, <1>00, <1>1, <1>4, <1>5, StructCloseFor
<1>8. PICK in1 : More(in1, in, N, {a}, Back)
  BY <1>3, MoreIs
<1>08. PICK in2 : More(in2, in1, N, G \ {a}, X)
  BY <1>3, MoreIs
<1>9. (\A b \in 1..N : in[b] \subseteq in2[b] /\ (b \notin G => in2[b] = in[b])) /\ in2[a] = in[a] \union Back
      /\ ("cond" \notin Cur.form => in2[f] = in[f] \union X)
  <2>1. \A b \in 1..N : in1[b] = IF b \in {a} THEN in[b] \union Back ELSE in[b]
    BY <1>8 DEF More
  <2>2. \A b \in 1..N : in2[b] = IF b \in G \ {a} THEN in1[b] \union X ELSE in1[b]
    BY <1>08 DEF More
  <2>3. a \in G /\ a \notin G \ {a} /\ ("cond" \notin Cur.form => f \in G \ {a}) /\ f \notin {a}
    BY <1>00, <1>5
  <2> QED BY <1>7, <2>1, <2>2, <2>3
<1>10. in2[a] = Back
  BY <1>6, <1>9 DEF Back
<1>11. LoopBack
  BY <1>1, LoopBackIs
<1>12. Keeps(in, rk, in2, rk, G)
  <2>1. \A u : UsedIn(stack, points, u) /\ Enters(flow', u) => Enters(flow, u)
    <3>1. \A u : Enters(flow', u) => Seen(u) \/ u = Cur.post
      BY <1>1, <1>11, BackSeen
    <3>2. \A u : UsedIn(stack, points, u) => u # Cur.post
      BY <1>4 DEF UsedIn, Depth
    <3> QED BY <3>1, <3>2 DEF Seen
  <2> QED BY <1>9, <1>11, <2>1 DEF Keeps, LoopBack
<1>13. Local(Depth - 2, T)
  BY <1>0, <1>1, StructCloseFor
<1>14. \A x \in 1..N : Heads(x)
  BY <1>13 DEF Local
<1>15. /\ N' = N /\ OnlyAt(T) /\ Made(c, I(c), "br", <<a>>)
       /\ "step" \in Cur.form /\ "cond" \in Cur.form => Made(a, <<q, p>>, "cond", <<f, B>>)
       /\ "step" \notin Cur.form /\ "cond" \in Cur.form => Made(a, <<p>>, "cond", <<f, B>>)
       /\ "step" \in Cur.form /\ "cond" \notin Cur.form => Made(a, <<q>>, "br", <<f>>)
       /\ "step" \notin Cur.form /\ "cond" \notin Cur.form => Made(a, <<>>, "br", <<f>>)
  BY <1>0, <1>1, <1>5, <1>7, CloseForBlocks
<1>16. Out(blocks, flow, in, c) \subseteq Back
  <2>1. CASE Cur.jumped = "no"
    BY <1>3, <2>1 DEF Back
  <2>2. CASE Cur.jumped # "no"
    <3>1. Cur.jumped = "continue"
      <4>1. Cur \in Scope
        BY <1>1, CurIs
      <4>2. Cur.jumped \in {"no", "ret", "break", "continue"}
        BY <4>1 DEF Scope
      <4> QED BY <1>2, <2>2, <4>2
    <3>2. Out(blocks, flow, in, c) \subseteq Cur.continues
      BY <1>0, <1>2, <3>1 DEF GraphNow, Graph, Here, Cur, Depth
    <3> QED BY <3>2 DEF Back
  <2> QED BY <2>1, <2>2
<1>17. blocks'[c].insts = I(c) /\ blocks'[c].term = "br" /\ blocks'[c].to = <<a>>
  BY <1>15 DEF Made
<1>18. c \in G => c = f /\ "cond" \notin Cur.form /\ I(c) # <<>>
  BY <1>00, <1>5
<1>19. Out(blocks', flow', in2, c) = Out(blocks, flow, in, c)
  BY <1>1, <1>3, <1>12, <1>17, <1>18, OutKept
<1>20. "step" \notin Cur.form => BackTo = p
  BY <1>0, <1>1, <1>2, <1>4 DEF BackTo, Formed, FormedScope
<1>21. "step" \in Cur.form => BackTo = q /\ q # 0
  BY <1>0, <1>1, <1>2, <1>4 DEF BackTo, Formed, FormedScope
<1>22. Goes(flow', Back, BackTo) /\ flow \subseteq flow'
  BY <1>11 DEF LoopBack, Goes
<1>38. "step" \in Cur.form => (Enters(flow', q) => Back # {}) /\ (Back # {} => <<q, "next", p>> \in flow')
  <2> SUFFICES ASSUME "step" \in Cur.form
               PROVE  (Enters(flow', q) => Back # {}) /\ (Back # {} => <<q, "next", p>> \in flow')
    OBVIOUS
  <2>1. ~Enters(flow, q)
    BY <1>0, <1>1, <1>4, <1>21 DEF PostFree, Seen
  <2>2. ASSUME Enters(flow', q) PROVE Back # {}
    <3>1. PICK g \in flow' : g[3] = q
      BY <2>2 DEF Enters
    <3>2. g \notin flow
      BY <2>1, <3>1 DEF Enters
    <3>3. <<g[1], g[2]>> \in Back \/ Turns(g)
      BY <1>11, <3>1, <3>2 DEF LoopBack
    <3> QED BY <3>3 DEF Turns
  <2>3. Back # {} => <<q, "next", p>> \in flow'
    BY <1>0, <1>11, <1>21 DEF LoopBack
  <2> QED BY <2>2, <2>3
<1>39. Goes(flow', X, p)
  <2>1. CASE "step" \in Cur.form
    BY <1>00, <1>38, <2>1 DEF Goes
  <2>2. CASE "step" \notin Cur.form
    BY <1>00, <1>20, <1>22, <2>2
  <2> QED BY <2>1, <2>2
<1>23. "cond" \notin Cur.form => Inside(blocks', flow', in2, f) /\ blocks'[f].insts = I(f) /\ I(f) # <<>>
  <2> SUFFICES ASSUME "cond" \notin Cur.form PROVE Inside(blocks', flow', in2, f) /\ blocks'[f].insts = I(f)
    BY <1>5
  <2>1. blocks'[f].insts = I(f)
    <3>1. CASE f = c
      BY <1>17, <3>1
    <3>2. CASE f # c
      BY <1>0, <1>5, <1>7, <1>15, <3>2 DEF OnlyAt, I
    <3> QED BY <3>1, <3>2
  <2>2. Inside(blocks, flow, in, f)
    BY <1>7 DEF GraphNow, Graph, N
  <2>3. Goes(flow, in[f], I(f)[1])
    BY <1>5, <2>2 DEF Inside, I
  <2>4. Goes(flow', in2[f], I(f)[1])
    BY <1>5, <1>9, <1>22, <1>39, <2>3 DEF Goes
  <2> QED BY <1>1, <1>7, <1>12, <2>1, <2>2, <2>4, InsideKept
<1>24. Inside(blocks', flow', in2, c)
  <2>1. CASE c \in G
    BY <1>18, <1>23, <2>1
  <2>2. CASE c \notin G
    BY <1>1, <1>3, <1>12, <1>17, <2>2, InsideKept
  <2> QED BY <2>1, <2>2
<1>25. Wired(blocks', flow', in2, rk, c)
  <2>1. Out(blocks', flow', in2, c) \subseteq in2[a]
    BY <1>10, <1>16, <1>19
  <2>2. rk[a] < rk[c]
    BY <1>2, <1>3, <1>6
  <2> QED BY <1>17, <2>1, <2>2, WiredBr
<1>26. Inside(blocks', flow', in2, a) /\ Wired(blocks', flow', in2, rk, a)
  <2>6. CASE "step" \in Cur.form /\ "cond" \notin Cur.form
    <3>1. blocks'[a].insts = <<q>> /\ blocks'[a].term = "br" /\ blocks'[a].to = <<f>> /\ <<q>> # <<>> /\ Len(<<q>>) = 1 /\ <<q>>[1] = q
      BY <1>15, <2>6 DEF Made
    <3>2. Inside(blocks', flow', in2, a)
      BY <1>10, <1>21, <1>22, <2>6, <3>1 DEF Inside
    <3>3. Last(blocks', a) = q
      BY <3>1 DEF Last
    <3>4. Enters(flow', q) => <<q, "next">> \in in2[f]
      BY <1>00, <1>9, <1>38, <2>6
    <3>5. Out(blocks', flow', in2, a) \subseteq in2[f]
      BY <3>1, <3>3, <3>4, OutLast
    <3> QED BY <1>23, <2>6, <3>1, <3>2, <3>5, WiredBr
  <2>1. CASE "step" \notin Cur.form /\ "cond" \notin Cur.form
    <3>1. blocks'[a].insts = <<>> /\ blocks'[a].term = "br" /\ blocks'[a].to = <<f>>
      BY <1>15, <2>1 DEF Made
    <3>2. Out(blocks', flow', in2, a) \subseteq in2[f]
      BY <1>00, <1>9, <1>10, <2>1, <3>1 DEF Out
    <3> QED BY <1>23, <2>1, <3>1, <3>2, InsideEmpty, WiredBr
  <2>2. Enters(flow', p) => Enters(flow, p)
    <3>1. UsedIn(stack, points, p)
      BY <1>0, <1>1, <1>2, <1>4 DEF Emitted
    <3> QED BY <1>12, <3>1, EntersKept
  <2>3. "cond" \in Cur.form /\ Enters(flow', p) => <<p, "true">> \in in2[f] /\ <<p, "false">> \in in2[B]
    BY <1>4, <1>6, <1>7, <1>9, <2>2
  <2>4. CASE "step" \notin Cur.form /\ "cond" \in Cur.form
    <3>1. blocks'[a].insts = <<p>> /\ blocks'[a].term = "cond" /\ blocks'[a].to = <<f, B>> /\ <<p>> # <<>> /\ Len(<<p>>) = 1 /\ <<p>>[1] = p
      BY <1>15, <2>4 DEF Made
    <3>2. Inside(blocks', flow', in2, a)
      BY <1>10, <1>20, <1>22, <2>4, <3>1 DEF Inside
    <3>3. Last(blocks', a) = p
      BY <3>1 DEF Last
    <3> QED BY <2>3, <2>4, <3>1, <3>2, <3>3, WiredCond
  <2>5. CASE "step" \in Cur.form /\ "cond" \in Cur.form
    <3>1. /\ blocks'[a].insts = <<q, p>> /\ blocks'[a].term = "cond" /\ blocks'[a].to = <<f, B>>
          /\ <<q, p>> # <<>> /\ Len(<<q, p>>) = 2 /\ <<q, p>>[1] = q /\ <<q, p>>[2] = p
      BY <1>15, <2>5 DEF Made
    <3>2. Enters(flow', q) => <<q, "next", p>> \in flow'
      BY <1>38, <2>5
    <3>3. \A i \in 1..(Len(<<q, p>>) - 1) : i = 1 /\ i + 1 = 2
      BY <3>1
    <3>4. Goes(flow', in2[a], q)
      BY <1>10, <1>21, <1>22, <2>5
    <3>5. Inside(blocks', flow', in2, a)
      <4>1. \A i \in 1..(Len(blocks'[a].insts) - 1) :
               Enters(flow', blocks'[a].insts[i]) => <<blocks'[a].insts[i], "next", blocks'[a].insts[i + 1]>> \in flow'
        BY <3>1, <3>2, <3>3
      <4> QED BY <3>1, <3>4, <4>1 DEF Inside
    <3>6. Last(blocks', a) = p
      BY <3>1 DEF Last
    <3> QED BY <2>3, <2>5, <3>1, <3>5, <3>6, WiredCond
  <2> QED BY <2>1, <2>4, <2>5, <2>6
<1>27. "cond" \notin Cur.form => Wired(blocks', flow', in2, rk, f)
  <2> SUFFICES ASSUME "cond" \notin Cur.form PROVE Wired(blocks', flow', in2, rk, f)
    OBVIOUS
  <2>1. CASE f = c
    BY <1>25, <2>1
  <2>2. CASE f # c
    <3>1. ~OpenAt(blocks, Cur, f)
      BY <1>0, <1>2, <1>5, <2>2 DEF OpenAt
    <3>2. Wired(blocks, flow, in, rk, f)
      BY <1>1, <1>5, <1>7, <3>1, CurOpen
    <3>3. blocks'[f] = blocks[f] /\ I(f) # <<>>
      BY <1>0, <1>5, <1>7, <1>15, <2>2 DEF OnlyAt
    <3> QED BY <1>1, <1>7, <1>12, <1>14, <3>2, <3>3, WiredKept
  <2> QED BY <2>1, <2>2
<1>28. Len(stack') = Depth - 1 /\ s.block = B /\ s.jumped = Parent.jumped
       /\ \A d \in 1..(Depth - 1) : Core(stack[d], stack'[d]) /\ Loops(stack[d], stack'[d])
  <2>1. B \in Nat /\ "open" \in {"if", "open"} /\ Pop(B, "open")
    BY <1>2, <1>4, <1>5
  <2> QED BY <1>0, <1>2, <2>1, PopKeeps
<1>29. s.jumped = "no"
  BY <1>2, <1>28, ParentGoes
<1>30. Here(blocks', flow', in2, rk, s, exits')
  <2>1. blocks'[B].insts = <<>>
    BY <1>4, <1>5, <1>7, <1>15 DEF OnlyAt, BlankIn
  <2>2. Out(blocks', flow', in2, B) = in[B]
    BY <1>4, <1>7, <1>9, <2>1 DEF Out
  <2>3. in[B] \subseteq exits'
    BY <1>6, <1>11 DEF LoopBack, Early
  <2> QED BY <1>28, <1>29, <2>2, <2>3 DEF Here
<1>31. N' \in Nat /\ \A x \in (N + 1)..N' : FALSE
  BY <1>3, <1>15
<1>32. Settled(in2, rk, B)
  <2>1. m \in 1..Len(stack')
    BY <1>0, <1>3, <1>4, <1>28
  <2> QED BY <1>0, <1>28, <2>1, SettledBlock
<1>33. \A x \in T \union G : Inside(blocks', flow', in2, x) /\ Settled(in2, rk, x)
  BY <1>0, <1>00, <1>23, <1>24, <1>25, <1>26, <1>27 DEF Settled
<1>34. Settled(in2, rk, c) /\ Settled(in2, rk, a)
  BY <1>25, <1>26 DEF Settled
<1>35. (\A x \in T : x \in Live(Cur) \/ x = Parent.block) /\ (\A x \in G : x \in Live(Cur) \/ x = Parent.block)
  BY <1>0, <1>00, <1>5
<1>36. rk[s.block] = Depth - 1 /\ s = stack'[Depth - 1]
  <2>1. rk[B] = m
    BY <1>0, <1>4 DEF GraphNow, Graph, Joined, Depth
  <2> QED BY <1>0, <1>28, <2>1
<1>37. GraphNext(in2, rk)
  BY <1>0, <1>1, <1>2, <1>12, <1>13, <1>28, <1>30, <1>31, <1>32, <1>33, <1>34, <1>35, <1>36, GraphPop
<1> QED BY <1>37

\* At the end of the function every block is wired.
LEMMA GraphFinish ==
    ASSUME Known, NEW in, NEW rk, GraphNow(in, rk), Finish, ~odd'
    PROVE  Whole(blocks', flow', in, rk) /\ ~Enters(flow', Stray)
<1>0. PICK c : c = Cur.block
  OBVIOUS
<1>1. Ranged /\ Typed /\ Formed /\ Struct /\ Emitted /\ Below
  BY Known1
<1>2. /\ phase = "compile" /\ ~odd /\ Depth = 1 /\ flow' = flow \union To(Exit) /\ (mode # "gen" => exits = {})
      /\ (mode = "func" => Cur.tail \notin {"if", "open"})
  BY DEF Finish, Compiling
<1>3. Exit \notin 1..points
  BY <1>1, Sizes DEF Exit
<1>4. /\ c \in 1..N /\ PendIn(blocks, c) /\ N \in Nat
      /\ Cur.jumped = "no" => Out(blocks, flow, in, c) \subseteq exits
  BY <1>0, CurNow
<1>5. Keeps(in, rk, in, rk, {})
  BY <1>1, <1>2, <1>3, KeepsExt
<1>6. /\ N' = N /\ OnlyAt({c})
      /\ mode = "func" => blocks' = blocks
      /\ mode # "func" => Made(c, I(c), "ret", <<>>)
  BY <1>0, <1>1, FinishBlocks
<1>7. \A b \in 1..N : Heads(b)
  BY <1>0, <1>1, StructFinish DEF Local
<1>8. \A b \in 1..N : blocks'[b].insts = I(b)
  BY <1>6 DEF OnlyAt, Made, I
<1>9. QuietIs(stack, Depth, mode, flow)
  BY <1>2 DEF Known, Quiet
<1>10. TailIs(blocks, Cur, Depth, Under(stack, Depth), exits)
  BY <1>2 DEF Known, Tails
<1>11. Cur.kind = "fn"
  BY <1>1, <1>2 DEF Formed, FormedScope, Cur
<1>12. Out(blocks', flow', in, c) = Out(blocks, flow, in, c)
  BY <1>1, <1>4, <1>5, <1>8, OutKept
<1>13. Wired(blocks', flow', in, rk, c)
  <2>1. CASE mode = "func"
    <3>1. Cur.tail = "ended" /\ exits = {}
      <4>1. Cur \in Scope
        BY <1>1, CurIs
      <4>2. Cur.tail \in {"first", "if", "open", "ended"}
        BY <4>1 DEF Scope
      <4> QED BY <1>2, <1>10, <2>1, <4>2 DEF TailIs
    <3>2. blocks[c].term # "none" /\ blocks'[c] = blocks[c]
      BY <1>0, <1>6, <1>10, <2>1, <3>1 DEF TailIs
    <3>3. CASE Cur.jumped = "no"
      <4>1. Out(blocks', flow', in, c) = {}
        BY <1>4, <1>12, <3>1, <3>3
      <4>2. PendIn(blocks', c) /\ blocks'[c].term # "none"
        BY <1>4, <3>2 DEF PendIn
      <4> QED BY <4>1, <4>2, WiredEmpty
    <3>4. CASE Cur.jumped # "no"
      <4>1. Wired(blocks, flow, in, rk, c)
        BY <1>0, <1>11, <3>4 DEF GraphNow, Graph, Here, Cur, Depth
      <4> QED BY <1>1, <1>4, <1>5, <1>7, <3>2, <4>1, WiredKept
    <3> QED BY <3>3, <3>4
  <2>2. CASE mode # "func"
    <3>1. Cur.jumped = "no"
      BY <1>2, <1>9, <2>2 DEF QuietIs, Cur
    <3>2. Goes(flow', Out(blocks', flow', in, c), Exit)
      BY <1>2, <1>4, <1>12, <3>1 DEF Goes, To
    <3>3. blocks'[c].term = "ret"
      BY <1>6, <2>2 DEF Made
    <3> QED BY <3>2, <3>3, WiredRet
  <2> QED BY <2>1, <2>2
<1>14. ASSUME NEW b \in 1..N PROVE rk[b] \in 1..N /\ Inside(blocks', flow', in, b) /\ Wired(blocks', flow', in, rk, b)
  <2>1. rk[b] \in 1..N /\ Inside(blocks, flow, in, b) /\ (OpenIn(blocks, stack, b) \/ Wired(blocks, flow, in, rk, b))
    BY DEF GraphNow, Graph, N
  <2>2. Inside(blocks', flow', in, b)
    BY <1>1, <1>5, <1>8, <2>1, InsideKept
  <2>3. Wired(blocks', flow', in, rk, b)
    <3>1. CASE b = c
      BY <1>13, <3>1
    <3>2. CASE b # c
      <4>1. ~OpenIn(blocks, stack, b)
        BY <1>0, <1>2, <1>11, <3>2 DEF OpenIn, OpenAt, Cur, Depth
      <4>2. blocks'[b] = blocks[b]
        BY <1>6, <3>2 DEF OnlyAt
      <4> QED BY <1>1, <1>5, <1>7, <2>1, <4>1, <4>2, WiredKept
    <3> QED BY <3>1, <3>2
  <2> QED BY <2>1, <2>2, <2>3
<1>15. <<Start, "next">> \in in[1]
  BY DEF GraphNow, Graph
<1>16. ~Enters(flow', Stray)
  <2>1. Exit # Stray
    BY DEF Exit, Stray
  <2> QED BY <1>2, <1>9, <2>1, ToThird DEF QuietIs
<1> QED BY <1>6, <1>14, <1>15, <1>16 DEF Whole, N

\* While the source keeps to the forms that are handled, the blocks do with its exits what the source asks for.
LinkIs(ph, o, bs, F, st, X) ==
    /\ ph = "compile" /\ ~o => \E in, rk : Graph(bs, F, st, X, in, rk)
    /\ ph = "done" /\ ~o => Len(st) = 1 /\ ~Enters(F, Stray) /\ \E in, rk : Whole(bs, F, in, rk)
Link == LinkIs(phase, odd, blocks, flow, stack, exits)

\* Link in the next state.
LEMMA LinkTo ==
    ASSUME phase' = "compile", ~odd' => \E in, rk : GraphNext(in, rk)
    PROVE  Link'
  BY DEF Link, LinkIs, GraphNext

\* The initial state has Link.
LEMMA LinkInit == Init => Link
<1> SUFFICES ASSUME Init PROVE Link
  OBVIOUS
<1>0. PICK in, rk, one : in = [b \in {1} |-> {<<Start, "next">>}] /\ rk = [b \in {1} |-> 1] /\ one = 1
  OBVIOUS
<1>1. /\ phase = "compile" /\ blocks = <<NewBlock>> /\ exits = {<<Start, "next">>}
      /\ stack = <<AddChildScope("fn", 1, [breakBlock |-> Nil, continueBlock |-> Nil, stale |-> FALSE])>>
  BY DEF Init
<1>2. Len(blocks) = 1 /\ blocks[1].insts = <<>>
  BY <1>1 DEF NewBlock
<1>3. Len(stack) = 1 /\ stack[1].kind = "fn" /\ stack[1].block = 1 /\ stack[1].first = 1 /\ stack[1].jumped = "no"
  BY <1>1 DEF AddChildScope
<1>4. in[1] = {<<Start, "next">>} /\ rk[1] = 1
  BY <1>0
<1>5. Inside(blocks, flow, in, one)
  BY <1>0, <1>2, InsideEmpty
<1>6. OpenIn(blocks, stack, 1)
  BY <1>3 DEF OpenIn, OpenAt
<1>7. Joined(blocks, flow, in, rk, stack[1], 1, Under(stack, 1))
  BY <1>3, <1>4 DEF Joined, HasCond
<1>8. Here(blocks, flow, in, rk, stack[1], exits)
  BY <1>1, <1>2, <1>3, <1>4 DEF Here, Out
<1>9. \A x \in 1..1 : x = 1
  OBVIOUS
<1>10. Graph(blocks, flow, stack, exits, in, rk)
  BY <1>0, <1>2, <1>3, <1>4, <1>5, <1>6, <1>7, <1>8, <1>9 DEF Graph
<1> QED BY <1>1, <1>10 DEF Link, LinkIs

\* what every step of the compiler keeps
LEMMA StillCompiling ==
    ASSUME Next, ~Finish, ~Break, ~Continue, ~Ended
    PROVE  phase = "compile" /\ phase' = "compile" /\ (~odd' => ~odd)
<1>1. ASSUME NEW isDef \in BOOLEAN, Statement(isDef) PROVE phase = "compile" /\ phase' = "compile" /\ (~odd' => ~odd)
  BY <1>1 DEF Statement, Room, Compiling
<1>2. ASSUME NEW form \in Forms, OpenFor(form) PROVE phase = "compile" /\ phase' = "compile" /\ (~odd' => ~odd)
  BY <1>2 DEF OpenFor, Room, Compiling
<1>3. CASE Suspend
  BY <1>3 DEF Suspend, Room, Compiling
<1>4. CASE Ret
  BY <1>4 DEF Ret, Room, Compiling
<1>5. CASE OpenIf
  BY <1>5 DEF OpenIf, Room, Compiling
<1>6. CASE CloseIf
  BY <1>6 DEF CloseIf, Room, Compiling
<1>7. CASE OpenIfElse
  BY <1>7 DEF OpenIfElse, Room, Compiling
<1>8. CASE Else
  BY <1>8 DEF Else, Room, Compiling
<1>9. CASE CloseIfElse
  BY <1>9 DEF CloseIfElse, Room, Compiling
<1>10. CASE CloseFor
  BY <1>10 DEF CloseFor, Room, Compiling
<1> QED BY <1>1, <1>2, <1>3, <1>4, <1>5, <1>6, <1>7, <1>8, <1>9, <1>10 DEF Next

\* Every step keeps Link.
LEMMA LinkNext == Known /\ Link /\ [Next]_vars => Link'
<1> SUFFICES ASSUME Known, Link, [Next]_vars PROVE Link'
  OBVIOUS
<1>1. CASE Ended \/ UNCHANGED vars
  <2>1. phase' = phase /\ odd' = odd /\ blocks' = blocks /\ flow' = flow /\ stack' = stack /\ exits' = exits
    BY <1>1 DEF Ended, vars
  <2> QED BY <2>1 DEF Link
<1>2. CASE Finish
  <2>1. phase = "compile" /\ phase' = "done" /\ (~odd' => ~odd) /\ Len(stack') = 1
    BY <1>2 DEF Finish, Compiling, Depth
  <2>2. ASSUME ~odd' PROVE ~Enters(flow', Stray) /\ \E in, rk : Whole(blocks', flow', in, rk)
    <3>1. PICK in, rk : GraphNow(in, rk)
      BY <2>1, <2>2 DEF Link, LinkIs, GraphNow
    <3>2. Whole(blocks', flow', in, rk) /\ ~Enters(flow', Stray)
      BY <1>2, <2>2, <3>1, GraphFinish
    <3> QED BY <3>2
  <2> QED BY <2>1, <2>2 DEF Link, LinkIs
<1>3. CASE Break \/ Continue
  <2>1. phase = "compile" /\ (~odd' => ~odd)
    BY <1>3 DEF Break, Continue, BreakOrContinue, Room, Compiling
  <2>2. CASE phase' = "compile"
    <3>1. ASSUME ~odd' PROVE \E in2, rk2 : GraphNext(in2, rk2)
      <4>1. PICK in, rk : GraphNow(in, rk)
        BY <2>1, <3>1 DEF Link, LinkIs, GraphNow
      <4> QED BY <1>3, <2>2, <3>1, <4>1, GraphJump
    <3> QED BY <2>2, <3>1, LinkTo
  <2>3. CASE phase' # "compile"
    <3>1. phase' = "error"
      BY <1>3, <2>1, <2>3 DEF Break, Continue, BreakOrContinue
    <3> QED BY <3>1 DEF Link, LinkIs
  <2> QED BY <2>2, <2>3
<1>4. CASE Next /\ ~Finish /\ ~Break /\ ~Continue /\ ~Ended
  <2>1. phase = "compile" /\ phase' = "compile" /\ (~odd' => ~odd)
    BY <1>4, StillCompiling
  <2>2. ASSUME ~odd' PROVE \E in2, rk2 : GraphNext(in2, rk2)
    <3>1. PICK in, rk : GraphNow(in, rk)
      BY <2>1, <2>2 DEF Link, LinkIs, GraphNow
    <3>2. ASSUME NEW isDef \in BOOLEAN, Statement(isDef) PROVE \E in2, rk2 : GraphNext(in2, rk2)
      <4>1. GraphNext(in, rk)
        BY <2>2, <3>1, <3>2, GraphStatement
      <4> QED BY <4>1
    <3>3. CASE Suspend
      BY <2>2, <3>1, <3>3, GraphSuspend
    <3>4. CASE Ret
      BY <2>2, <3>1, <3>4, GraphRet
    <3>5. CASE OpenIf
      BY <2>2, <3>1, <3>5, GraphOpenIf
    <3>6. CASE CloseIf
      BY <2>2, <3>1, <3>6, GraphCloseIf
    <3>7. CASE OpenIfElse
      BY <2>2, <3>1, <3>7, GraphOpenIfElse
    <3>8. CASE Else
      BY <2>2, <3>1, <3>8, GraphElse
    <3>9. CASE CloseIfElse
      BY <2>2, <3>1, <3>9, GraphCloseIfElse
    <3>10. ASSUME NEW form \in Forms, OpenFor(form) PROVE \E in2, rk2 : GraphNext(in2, rk2)
      BY <2>2, <3>1, <3>10, GraphOpenFor
    <3>11. CASE CloseFor
      BY <2>2, <3>1, <3>11, GraphCloseFor
    <3> QED BY <1>4, <3>2, <3>3, <3>4, <3>5, <3>6, <3>7, <3>8, <3>9, <3>10, <3>11 DEF Next
  <2> QED BY <2>1, <2>2, LinkTo
<1> QED BY <1>1, <1>2, <1>3, <1>4

\* The initial state has everything the graph rests on.
LEMMA KnownInit == Init => Known
  BY RangedInit, SourceInit, StructInit, PlacedInit, TailsInit, QuietInit, TargetsInit DEF Known

\* Every step keeps everything the graph rests on.
LEMMA KnownNext == Known /\ [Next]_vars => Known'
<1> SUFFICES ASSUME Known, [Next]_vars PROVE Known'
  OBVIOUS
<1>1. Ranged /\ Source /\ Formed /\ Struct /\ Placed /\ Tails /\ Quiet /\ Targets
  BY DEF Known, Source
<1>2. Ranged'
  BY <1>1, RangedNext
<1>3. Source'
  BY <1>1, SourceNext
<1>4. Struct'
  BY <1>1, StructNext
<1>5. Placed'
  BY <1>1, PlacedNext
<1>6. Tails'
  BY <1>1, TailsNext
<1>7. Quiet'
  BY <1>1, QuietNext
<1>8. Targets'
  BY <1>1, TargetsNext
<1> QED BY <1>2, <1>3, <1>4, <1>5, <1>6, <1>7, <1>8 DEF Known

\* where block b begins, when h tells where the others do
Begin(h, n, b) ==
    IF blocks[b].insts # <<>> THEN blocks[b].insts[1]
    ELSE IF blocks[b].term = "ret" THEN Exit
    ELSE IF blocks[b].term = "br" /\ n > 0 THEN h[blocks[b].to[1]]
    ELSE Spin

\* FirstIn is what its recursive definition says.
LEMMA FirstDef ==
    ASSUME Ranged, Struct
    PROVE  \A n \in 0..N : \A b \in 1..N : FirstIn[n][b] = Begin(FirstIn[n - 1], n, b)
<1>0. PICK S : S = [1..N -> Int]
  OBVIOUS
<1> DEFINE a == [b \in 1..N |-> Begin(<<>>, 0, b)]
           step == [i \in 0..N |-> [h \in S |-> [b \in 1..N |-> Begin(h, 1, b)]]]
           Is(g) == g = [n \in 0..N |-> [b \in 1..N |-> Begin(g[n - 1], n, b)]]
<1>1. N \in Nat /\ Exit \in Int /\ Spin \in Int
  BY BaseIs DEF Exit, Spin
<1>2. ASSUME NEW b \in 1..N, NEW h, NEW n, h \in S \/ n = 0 PROVE Begin(h, n, b) \in Int
  <2>1. I(b) \in Seq(Nat)
    BY InstsIs
  <2>2. I(b) # <<>> => I(b)[1] \in Nat
    BY <2>1
  <2>3. Term(b) = "br" => Tos(b)[1] \in 1..N
    BY TosIs
  <2>4. n # 0 /\ Term(b) = "br" => h[Tos(b)[1]] \in Int
    BY <1>0, <1>2, <2>3
  <2>5. n > 0 => n # 0
    OBVIOUS
  <2> QED BY <1>1, <2>2, <2>4, <2>5 DEF Begin, I, Term, Tos
<1>3. a \in S
  BY <1>0, <1>2
<1>4. step \in [0..N -> [S -> S]]
  <2>1. ASSUME NEW h \in S PROVE [b \in 1..N |-> Begin(h, 1, b)] \in S
    BY <1>0, <1>2, <2>1
  <2> QED BY <2>1
<1>5. PICK g \in [0..N -> S] : Iterates(g, 0, N, a, step)
  <2> HIDE DEF step, a
  <2>1. 0 \in Int /\ N \in Int
    BY <1>1
  <2> QED BY <1>3, <1>4, <2>1, IntervalRecursion
<1>6. Is(g)
  <2>1. ASSUME NEW n \in 0..N PROVE g[n] = [b \in 1..N |-> Begin(g[n - 1], n, b)]
    <3>1. CASE n = 0
      <4>1. g[n] = a
        BY <1>5, <3>1 DEF Iterates
      <4>2. \A b \in 1..N : Begin(<<>>, 0, b) = Begin(g[n - 1], n, b)
        BY <3>1 DEF Begin
      <4> QED BY <4>1, <4>2
    <3>2. CASE n # 0
      <4>1. n - 1 \in 0..N /\ n > 0 /\ 1 > 0
        BY <1>1, <3>2
      <4>2. g[n] = step[n][g[n - 1]] /\ g[n - 1] \in S
        BY <1>5, <3>2, <4>1 DEF Iterates
      <4>3. g[n] = [b \in 1..N |-> Begin(g[n - 1], 1, b)]
        BY <4>2
      <4>4. \A b \in 1..N : Begin(g[n - 1], 1, b) = Begin(g[n - 1], n, b)
        BY <4>1 DEF Begin
      <4> QED BY <4>3, <4>4
    <3> QED BY <3>1, <3>2
  <2> QED BY <2>1
<1>7. FirstIn = CHOOSE g_1 : Is(g_1)
  BY DEF FirstIn, Begin, N
<1>8. Is(FirstIn)
  <2> HIDE DEF Is
  <2> QED BY <1>6, <1>7
<1> HIDE DEF step, a, Is
<1>9. PICK w : w = FirstIn
  OBVIOUS
<1>10. Is(w)
  BY <1>8, <1>9
<1>11. \A n \in 0..N : \A b \in 1..N : w[n][b] = Begin(w[n - 1], n, b)
  <2>1. w = [n \in 0..N |-> [b \in 1..N |-> Begin(w[n - 1], n, b)]]
    BY <1>10 DEF Is
  <2>2. ASSUME NEW n \in 0..N PROVE w[n] = [b \in 1..N |-> Begin(w[n - 1], n, b)]
    BY ONLY <2>1, n \in 0..N
  <2> QED BY ONLY <2>2
<1> QED BY <1>9, <1>11

\* The exits that lead to a block lead to where it begins.
LEMMA IntoIs ==
    ASSUME Ranged, Struct, NEW in, NEW rk, Whole(blocks, flow, in, rk)
    PROVE  \A b \in 1..N : Goes(flow, in[b], Into(b))
<1> DEFINE Q == {n \in 0..N : \A b \in 1..N : rk[b] <= n => Goes(flow, in[b], FirstIn[n][b])}
<1>1. N \in Nat
  BY BaseIs
<1>2. \A b \in 1..N : rk[b] \in 1..N /\ Inside(blocks, flow, in, b) /\ Wired(blocks, flow, in, rk, b)
  BY DEF Whole, N
<1>3. 0 \in Q
  BY <1>1, <1>2
<1>4. ASSUME NEW n \in 0..(N - 1), n \in Q PROVE n + 1 \in Q
  <2>0. PICK k : k = n + 1
    OBVIOUS
  <2>1. k \in 0..N /\ k > 0 /\ n \in 0..N /\ k - 1 = n
    BY <1>1, <2>0
  <2>2. ASSUME NEW b \in 1..N, rk[b] <= k PROVE Goes(flow, in[b], FirstIn[k][b])
    <3>1. FirstIn[k][b] = Begin(FirstIn[n], k, b)
      BY <2>1, FirstDef
    <3>2. CASE I(b) # <<>>
      BY <1>2, <3>1, <3>2 DEF Begin, Inside, I
    <3>3. CASE I(b) = <<>>
      <4>1. Out(blocks, flow, in, b) = in[b]
        BY <3>3 DEF Out, I
      <4>2. Term(b) # "none" /\ Term(b) \notin {"cond", "yield"}
        BY <1>2, <3>3 DEF Wired, Term, I
      <4>3. Term(b) = "br" \/ Term(b) = "ret"
        <5>1. Term(b) \in Terms
          BY BaseIs, BlockIs
        <5> QED BY <4>2, <5>1 DEF Terms
      <4>4. CASE Term(b) = "ret"
        BY <1>2, <3>1, <3>3, <4>1, <4>4 DEF Begin, Wired, I, Term
      <4>5. CASE Term(b) = "br"
        <5>0. PICK t : t = Tos(b)[1]
          OBVIOUS
        <5>1. t \in 1..N
          BY <4>5, <5>0, TosIs
        <5>2. in[b] \subseteq in[t] /\ (in[b] # {} => I(t) # <<>> \/ rk[t] < rk[b])
          BY <1>2, <3>3, <4>1, <4>5, <5>0 DEF Wired, Leads, I, Term, Tos
        <5>3. FirstIn[k][b] = FirstIn[n][t]
          BY <2>1, <3>1, <3>3, <4>5, <5>0 DEF Begin, I, Term, Tos
        <5>4. CASE in[b] = {}
          BY <5>4 DEF Goes
        <5>5. CASE in[b] # {} /\ I(t) # <<>>
          <6>1. FirstIn[n][t] = I(t)[1]
            BY <2>1, <5>1, <5>5, FirstDef DEF Begin, I
          <6>2. Goes(flow, in[t], I(t)[1])
            BY <1>2, <5>1, <5>5 DEF Inside, I
          <6> QED BY <5>2, <5>3, <6>1, <6>2 DEF Goes
        <5>6. CASE in[b] # {} /\ rk[t] < rk[b]
          <6>1. rk[t] <= n
            BY <1>1, <1>2, <2>0, <2>2, <5>1, <5>6
          <6>2. Goes(flow, in[t], FirstIn[n][t])
            BY <1>4, <5>1, <6>1
          <6> QED BY <5>2, <5>3, <6>2 DEF Goes
        <5> QED BY <5>2, <5>4, <5>5, <5>6
      <4> QED BY <4>3, <4>4, <4>5
    <3> QED BY <3>2, <3>3
  <2> QED BY <2>0, <2>1, <2>2
<1> HIDE DEF Q
<1>5. \A n \in 0..N : n \in Q
  BY <1>1, <1>3, <1>4, IntervalInduction
<1>6. N \in Q
  BY <1>1, <1>5
<1>7. \A b \in 1..N : Goes(flow, in[b], FirstIn[N][b])
  BY <1>1, <1>2, <1>6 DEF Q
<1> QED BY <1>7 DEF Into, N

\* g is an edge of block b
EdgeAt(g, b) ==
    /\ I(b) # <<>>
    /\ \/ \E i \in 1..(Len(I(b)) - 1) : g = <<I(b)[i], "next", I(b)[i + 1]>>
       \/ g \in Leaving(b, Last(blocks, b))
\* the edge into the function
FirstEdge == <<Start, "next", Into(1)>>

\* The edges of the blocks, one by one.
LEMMA EdgesAre == \A g : g \in Edges <=> g = FirstEdge \/ \E b \in 1..N : EdgeAt(g, b)
<1> DEFINE At(b) == LET is == blocks[b].insts IN
           IF is = <<>> THEN {}
           ELSE {<<is[i], "next", is[i + 1]>> : i \in 1..(Len(is) - 1)} \union Leaving(b, is[Len(is)])
<1>1. \A b, g : g \in At(b) <=> EdgeAt(g, b)
  BY DEF EdgeAt, I, Last
<1>2. Edges = {FirstEdge} \union UNION {At(b) : b \in 1..N}
  BY DEF Edges, FirstEdge, N
<1> HIDE DEF At
<1> QED BY <1>1, <1>2

\* one step along the edges
Along(r) == r \union {e[3] : e \in {f \in Edges : f[1] \in r}}

\* ReachedIn is what its recursive definition says.
LEMMA ReachedDef ==
    ASSUME points \in Nat
    PROVE  /\ ReachedIn[0] = {Start}
           /\ \A n \in 1..(points + 1) : ReachedIn[n] = Along(ReachedIn[n - 1])
<1>0. PICK m : m = points + 1
  OBVIOUS
<1>1. PICK S : S = SUBSET ({Start} \union {g[3] : g \in Edges})
  OBVIOUS
<1> DEFINE step == [i \in 0..m |-> [r \in S |-> Along(r)]]
           Is(g) == g = [n \in 0..m |-> IF n = 0 THEN {Start} ELSE Along(g[n - 1])]
<1>2. m \in Nat /\ 0 \in 0..m /\ 0 \in Int /\ m \in Int
  BY <1>0
<1>3. {Start} \in S
  BY <1>1
<1>4. step \in [0..m -> [S -> S]]
  <2>1. ASSUME NEW r \in S PROVE Along(r) \in S
    BY <1>1, <2>1 DEF Along
  <2> QED BY <2>1
<1>5. PICK g \in [0..m -> S] : Iterates(g, 0, m, {Start}, step)
  <2>1. PICK a : a = {Start}
    OBVIOUS
  <2>2. a \in S
    BY <1>3, <2>1
  <2> HIDE DEF step
  <2>3. \E g \in [0..m -> S] : Iterates(g, 0, m, a, step)
    BY <1>2, <1>4, <2>2, IntervalRecursion
  <2> QED BY <2>1, <2>3
<1>6. Is(g)
  <2>1. ASSUME NEW n \in 0..m PROVE g[n] = IF n = 0 THEN {Start} ELSE Along(g[n - 1])
    <3>1. CASE n = 0
      BY <1>5, <3>1 DEF Iterates
    <3>2. CASE n # 0
      <4>1. n - 1 \in 0..m
        BY <1>2, <3>2
      <4>2. g[n] = step[n][g[n - 1]] /\ g[n - 1] \in S
        BY <1>5, <3>2, <4>1 DEF Iterates
      <4> QED BY <3>2, <4>2
    <3> QED BY <3>1, <3>2
  <2> QED BY <2>1
<1>7. ReachedIn = CHOOSE g_1 : Is(g_1)
  BY <1>0 DEF ReachedIn, Along
<1> HIDE DEF step, Is
<1>8. PICK w : w = ReachedIn
  OBVIOUS
<1>9. Is(w)
  BY <1>6, <1>7, <1>8
<1>10. w = [n \in 0..m |-> IF n = 0 THEN {Start} ELSE Along(w[n - 1])]
  BY <1>9 DEF Is
<1>11. w[0] = {Start}
  BY ONLY <1>2, <1>10
<1>12. ASSUME NEW n \in 1..m PROVE w[n] = Along(w[n - 1])
  <2>1. n \in 0..m /\ n # 0
    BY <1>2
  <2> QED BY ONLY <1>10, <2>1
<1> QED BY <1>0, <1>8, <1>11, <1>12

\* What leaves the end of block b.
LEMMA LeavingIs ==
    ASSUME NEW b, NEW p, NEW g
    PROVE  /\ Term(b) = "br" => (g \in Leaving(b, p) <=> g = <<p, "next", Into(Tos(b)[1])>>)
           /\ Term(b) = "cond" => (g \in Leaving(b, p) <=> g = <<p, "true", Into(Tos(b)[1])>> \/ g = <<p, "false", Into(Tos(b)[2])>>)
           /\ Term(b) = "yield" => (g \in Leaving(b, p) <=> g = <<p, "resume", Into(Tos(b)[1])>>)
           /\ Term(b) = "ret" => (g \in Leaving(b, p) <=> g = <<p, "next", Exit>>)
           /\ Term(b) \notin {"br", "cond", "yield", "ret"} => g \notin Leaving(b, p)
  BY DEF Leaving, Term, Tos

\* An exit e leads to p.
LEMMA GoesTo == ASSUME NEW F, NEW X, NEW p, Goes(F, X, p), NEW x, NEW l, <<x, l>> \in X PROVE <<x, l, p>> \in F
  BY DEF Goes

\* An edge of the blocks from a point that the source comes to is one of the source.
LEMMA EdgeInFlow ==
    ASSUME Ranged, Struct, Emitted, NEW in, NEW rk, Whole(blocks, flow, in, rk), NEW g \in Edges, g[1] = Start \/ Seen(g[1])
    PROVE  g \in flow
<1>1. N \in Nat /\ 1 \in 1..N
  BY BaseIs
<1>2. \A b \in 1..N : Inside(blocks, flow, in, b) /\ Wired(blocks, flow, in, rk, b) /\ Goes(flow, in[b], Into(b))
  BY IntoIs DEF Whole, N
<1>3. CASE g = FirstEdge
  <2>1. <<Start, "next">> \in in[1]
    BY DEF Whole
  <2>2. Goes(flow, in[1], Into(1))
    BY <1>1, <1>2
  <2>3. <<Start, "next", Into(1)>> \in flow
    BY <2>1, <2>2, GoesTo
  <2> QED BY <1>3, <2>3 DEF FirstEdge
<1>4. ASSUME NEW b \in 1..N, EdgeAt(g, b) PROVE g \in flow
  <2>1. I(b) \in Seq(Nat) /\ Len(I(b)) \in Nat /\ I(b) # <<>>
    BY <1>4, InstsIs DEF EdgeAt
  <2>2. ASSUME NEW i \in 1..Len(I(b)), g[1] = I(b)[i] PROVE Enters(flow, I(b)[i])
    <3>1. I(b)[i] \in 1..points
      BY <2>2 DEF Emitted, UsedIn
    <3>2. g[1] # Start
      BY <2>2, <3>1 DEF Start
    <3> QED BY <2>2, <3>2 DEF Seen
  <2>3. ASSUME NEW i \in 1..(Len(I(b)) - 1), g = <<I(b)[i], "next", I(b)[i + 1]>> PROVE g \in flow
    <3>1. i \in 1..Len(I(b)) /\ g[1] = I(b)[i]
      BY <2>1, <2>3
    <3>2. Enters(flow, I(b)[i])
      BY <2>2, <3>1
    <3> QED BY <1>2, <2>3, <3>2 DEF Inside, I
  <2>4. ASSUME g \in Leaving(b, Last(blocks, b)) PROVE g \in flow
    <3>1. PICK p : p = Last(blocks, b)
      OBVIOUS
    <3>2. Len(I(b)) \in 1..Len(I(b)) /\ p = I(b)[Len(I(b))]
      BY <2>1, <3>1, LastIs
    <3>3. Wired(blocks, flow, in, rk, b)
      BY <1>2
    <3>4. Term(b) \in {"br", "cond", "yield", "ret"}
      BY <2>4, LeavingIs
    <3>5. g[1] = p
      BY <2>4, <3>1, <3>4, LeavingIs
    <3>6. Enters(flow, p)
      BY <2>2, <3>2, <3>5
    <3>7. Out(blocks, flow, in, b) = {<<p, "next">>}
      BY <2>1, <3>1, <3>6 DEF Out, I
    <3>8. CASE Term(b) = "br"
      <4>1. PICK t : t = Tos(b)[1]
        OBVIOUS
      <4>2. t \in 1..N
        BY <3>8, <4>1, TosIs
      <4>3. <<p, "next">> \in in[t]
        BY <3>3, <3>7, <3>8, <4>1 DEF Wired, Leads, Term, Tos
      <4>4. <<p, "next", Into(t)>> \in flow
        BY <1>2, <4>2, <4>3, GoesTo
      <4> QED BY <2>4, <3>1, <3>8, <4>1, <4>4, LeavingIs
    <3>9. CASE Term(b) = "ret"
      <4>1. Goes(flow, Out(blocks, flow, in, b), Exit)
        BY <3>3, <3>9 DEF Wired, Term
      <4>2. <<p, "next", Exit>> \in flow
        BY <3>7, <4>1 DEF Goes
      <4> QED BY <2>4, <3>1, <3>9, <4>2, LeavingIs
    <3>10. CASE Term(b) = "yield"
      <4>1. PICK t : t = Tos(b)[1]
        OBVIOUS
      <4>2. t \in 1..N
        BY <3>10, <4>1, TosIs
      <4>3. <<p, "resume">> \in in[t]
        BY <3>1, <3>3, <3>6, <3>10, <4>1 DEF Wired, Term, Tos
      <4>4. <<p, "resume", Into(t)>> \in flow
        BY <1>2, <4>2, <4>3, GoesTo
      <4> QED BY <2>4, <3>1, <3>10, <4>1, <4>4, LeavingIs
    <3>11. CASE Term(b) = "cond"
      <4>1. PICK t, u : t = Tos(b)[1] /\ u = Tos(b)[2]
        OBVIOUS
      <4>2. t \in 1..N /\ u \in 1..N
        BY <3>11, <4>1, TosIs
      <4>3. <<p, "true">> \in in[t] /\ <<p, "false">> \in in[u]
        BY <3>1, <3>3, <3>6, <3>11, <4>1 DEF Wired, Term, Tos
      <4>4. <<p, "true", Into(t)>> \in flow /\ <<p, "false", Into(u)>> \in flow
        BY <1>2, <4>2, <4>3, GoesTo
      <4> QED BY <2>4, <3>1, <3>11, <4>1, <4>4, LeavingIs
    <3> QED BY <3>4, <3>8, <3>9, <3>10, <3>11
  <2> QED BY <1>4, <2>3, <2>4 DEF EdgeAt
<1> QED BY <1>3, <1>4, EdgesAre

\* where control comes to
Visited == {Start} \union {p \in Int : Seen(p)}

\* What the source's flow consists of, and where it goes.
LEMMA FlowIs ==
    ASSUME Known, NEW f \in flow
    PROVE  /\ f = <<f[1], f[2], f[3]>> /\ f[1] \in Nat /\ f[2] \in Labels /\ f[3] \in Int
           /\ f[1] \in Visited /\ f[3] \in Visited
<1>1. f \in Nat \X Labels \X Int
  BY Known1 DEF Typed
<1>2. f = <<f[1], f[2], f[3]>> /\ f[1] \in Nat /\ f[2] \in Labels /\ f[3] \in Int
  BY <1>1
<1>3. \A e \in flow : e[3] \in Visited
  <2>1. \A e \in flow : e[3] \in Int
    BY Known1 DEF Typed
  <2> QED BY <2>1 DEF Visited, Seen, Enters
<1>4. Closed(Visited)
  BY <1>3 DEF Closed, Visited
<1>5. Visited \in SUBSET Int
  BY DEF Visited, Start
<1>6. f[1] \in Visited
  BY <1>4, <1>5 DEF Known, Source, Reach
<1> QED BY <1>2, <1>3, <1>6

\* Every edge of the source is one of the blocks.
LEMMA FlowInEdges ==
    ASSUME Known, Len(stack) = 1, NEW in, NEW rk, Whole(blocks, flow, in, rk), NEW f \in flow
    PROVE  f \in Edges
<1>1. Ranged /\ Struct /\ Emitted /\ FlowFun /\ Sourced /\ N \in Nat
  BY Known1, BaseIs DEF Known, Source, Placed
<1>2. ASSUME NEW g \in Edges, g[1] = f[1], g[2] = f[2] PROVE f \in Edges
  <2>1. g[1] = Start \/ Seen(g[1])
    BY <1>2, FlowIs DEF Visited
  <2>2. g \in flow
    BY <1>1, <2>1, EdgeInFlow
  <2>3. g = f
    BY <1>1, <1>2, <2>2 DEF FlowFun
  <2> QED BY <1>2, <2>3
<1>3. Offered(blocks, stack, f[1], f[2]) /\ ~ByIf(stack, f[1], f[2])
  <2>1. Offered(blocks, stack, f[1], f[2])
    BY <1>1 DEF Sourced
  <2> QED BY <2>1 DEF ByIf
<1>4. CASE f[1] = Start /\ f[2] = "next"
  <2>1. PICK g : g = FirstEdge
    OBVIOUS
  <2>2. g \in Edges /\ g[1] = Start /\ g[2] = "next"
    BY <2>1, EdgesAre DEF FirstEdge
  <2> QED BY <1>2, <1>4, <2>2
<1>5. CASE OffersIn(blocks, f[1], f[2])
  <2>0. PICK b \in 1..N : \E i \in 1..Len(I(b)) : I(b)[i] = f[1] /\ OffersAt(blocks[b], i, f[2])
    BY <1>5 DEF OffersIn, N, I
  <2>1. PICK i \in 1..Len(I(b)) : I(b)[i] = f[1] /\ OffersAt(blocks[b], i, f[2])
    BY <2>0
  <2>2. Len(I(b)) \in Nat /\ I(b) # <<>>
    BY <1>1, <2>1, InstsIs
  <2>3. \A g : EdgeAt(g, b) => g \in Edges
    BY EdgesAre
  <2>4. CASE i < Len(I(b))
    <3>1. PICK g : g = <<I(b)[i], "next", I(b)[i + 1]>>
      OBVIOUS
    <3>2. f[2] = "next"
      BY <2>1, <2>4 DEF OffersAt, I
    <3>3. i \in 1..(Len(I(b)) - 1)
      BY <2>2, <2>4
    <3>4. EdgeAt(g, b)
      BY <2>2, <3>1, <3>3 DEF EdgeAt
    <3>5. g[1] = f[1] /\ g[2] = f[2]
      BY <2>1, <3>1, <3>2
    <3> QED BY <1>2, <2>3, <3>4, <3>5
  <2>5. CASE ~(i < Len(I(b)))
    <3>1. i = Len(I(b))
      BY <2>2, <2>5
    <3>2. PICK p : p = Last(blocks, b)
      OBVIOUS
    <3>3. p = f[1]
      BY <1>1, <2>1, <2>2, <3>1, <3>2, LastIs
    <3>4. Term(b) # "none"
      BY DEF Whole, N, Wired, Term
    <3>5. \/ f[2] = "next" /\ Term(b) \in {"br", "ret"}
          \/ f[2] \in {"true", "false"} /\ Term(b) = "cond"
          \/ f[2] = "resume" /\ Term(b) = "yield"
      BY <2>1, <2>5, <3>4 DEF OffersAt, I, Term
    <3>6. \A g : g \in Leaving(b, p) => g \in Edges
      BY <2>2, <2>3, <3>2 DEF EdgeAt
    <3>7. \E g \in Leaving(b, p) : g[1] = p /\ g[2] = f[2]
      <4>0. PICK t, u : t = Into(Tos(b)[1]) /\ u = Into(Tos(b)[2])
        OBVIOUS
      <4>1. Term(b) = "br" => <<p, "next", t>> \in Leaving(b, p)
        BY <4>0, LeavingIs
      <4>2. Term(b) = "cond" => <<p, "true", t>> \in Leaving(b, p) /\ <<p, "false", u>> \in Leaving(b, p)
        BY <4>0, LeavingIs
      <4>3. Term(b) = "yield" => <<p, "resume", t>> \in Leaving(b, p)
        BY <4>0, LeavingIs
      <4>4. Term(b) = "ret" => <<p, "next", Exit>> \in Leaving(b, p)
        BY LeavingIs
      <4>5. CASE f[2] = "next" /\ Term(b) \in {"br", "ret"}
        BY <4>1, <4>4, <4>5
      <4>6. CASE f[2] \in {"true", "false"} /\ Term(b) = "cond"
        BY <4>2, <4>6
      <4>7. CASE f[2] = "resume" /\ Term(b) = "yield"
        BY <4>3, <4>7
      <4> QED BY <3>5, <4>5, <4>6, <4>7
    <3> QED BY <1>2, <3>3, <3>6, <3>7
  <2> QED BY <2>4, <2>5
<1> QED BY <1>3, <1>4, <1>5 DEF Offered

\* From points of the source the edges lead to points of the source.
LEMMA VisitedFrom ==
    ASSUME Known, NEW in, NEW rk, Whole(blocks, flow, in, rk), NEW r, r \subseteq Visited
    PROVE  /\ Along(r) \subseteq Visited
           /\ \A g \in Edges : g[1] \in r => g \in flow
<1>1. ASSUME NEW g \in Edges, g[1] \in r PROVE g \in flow
  <2>1. g[1] = Start \/ Seen(g[1])
    BY <1>1 DEF Visited
  <2> QED BY <2>1, Known1, EdgeInFlow
<1>2. \A f \in flow : f[3] \in Visited
  BY FlowIs
<1> QED BY <1>1, <1>2 DEF Along

\* Control stays with the points of the source.
LEMMA ReachedIsVisited ==
    ASSUME Known, NEW in, NEW rk, Whole(blocks, flow, in, rk)
    PROVE  \A n \in 0..(points + 1) : ReachedIn[n] \subseteq Visited
<1> DEFINE Q == {n \in 0..(points + 1) : ReachedIn[n] \subseteq Visited}
<1>1. points \in Nat
  BY Known1, BaseIs
<1>2. 0 \in Q
  BY <1>1, ReachedDef DEF Visited
<1>3. ASSUME NEW n \in 0..points, n \in Q PROVE n + 1 \in Q
  <2>1. PICK k : k = n + 1
    OBVIOUS
  <2>2. k \in 1..(points + 1) /\ k \in 0..(points + 1) /\ k - 1 = n
    BY <1>1, <2>1
  <2>3. ReachedIn[k] = Along(ReachedIn[n])
    BY <1>1, <2>2, ReachedDef
  <2>4. ReachedIn[k] \subseteq Visited
    BY <1>3, <2>3, VisitedFrom
  <2> QED BY <2>1, <2>2, <2>4
<1> HIDE DEF Q
<1>4. PICK m : m = points + 1 /\ m \in Int /\ m - 1 = points
  BY <1>1
<1>5. 0 \in Int /\ \A n \in 0..(m - 1) : n \in Q => n + 1 \in Q
  BY <1>3, <1>4
<1>6. \A n \in 0..m : n \in Q
  BY <1>2, <1>4, <1>5, IntervalInduction
<1> QED BY <1>4, <1>6 DEF Q

\* Few points are left to come to.
LEMMA VisitedIsBounded ==
    ASSUME Known, ~Enters(flow, Stray)
    PROVE  Visited \subseteq Exit..points
<1>1. points \in Nat
  BY Known1, BaseIs
<1>2. ASSUME NEW p, Seen(p) PROVE p \in Exit..points
  <2>1. PICK f \in flow : f[3] = p
    BY <1>2 DEF Seen, Enters
  <2>2. p \in 1..points \/ p \in {Exit, Stray}
    BY <2>1, Known1 DEF Below
  <2>3. p # Stray
    BY <1>2 DEF Seen
  <2> QED BY <1>1, <2>2, <2>3 DEF Exit
<1> QED BY <1>1, <1>2 DEF Visited, Start, Exit

\* The start is among the points that are reached.
LEMMA StartReached ==
    ASSUME points \in Nat
    PROVE  \A n \in 0..(points + 1) : Start \in ReachedIn[n]
<1> DEFINE Q == {n \in 0..(points + 1) : Start \in ReachedIn[n]}
<1>2. 0 \in Q
  BY ReachedDef
<1>3. ASSUME NEW n \in 0..points, n \in Q PROVE n + 1 \in Q
  <2>1. PICK k : k = n + 1
    OBVIOUS
  <2>2. k \in 1..(points + 1) /\ k \in 0..(points + 1) /\ k - 1 = n
    BY <2>1
  <2>3. ReachedIn[k] = Along(ReachedIn[n])
    BY <2>2, ReachedDef
  <2>4. Start \in ReachedIn[k]
    BY <1>3, <2>3 DEF Along
  <2> QED BY <2>1, <2>2, <2>4
<1> HIDE DEF Q
<1>4. PICK m : m = points + 1 /\ m \in Int /\ m - 1 = points
  OBVIOUS
<1>5. 0 \in Int /\ \A n \in 0..(m - 1) : n \in Q => n + 1 \in Q
  BY <1>3, <1>4
<1>6. \A n \in 0..m : n \in Q
  BY <1>2, <1>4, <1>5, IntervalInduction
<1> QED BY <1>4, <1>6 DEF Q

\* what the blocks come to in at most n steps is all, or is more than n points
Enough(n) == Closed(ReachedIn[n]) \/ Cardinality(ReachedIn[n]) >= n + 1

\* In points + 1 steps the blocks come to all points that the source comes to: every step finds a new point,
\* or there are none left.
LEMMA ReachedIsClosed ==
    ASSUME Known, Len(stack) = 1, NEW in, NEW rk, Whole(blocks, flow, in, rk), ~Enters(flow, Stray)
    PROVE  Closed(ReachedIn[points + 1])
<1> DEFINE Q == {n \in 0..(points + 1) : Enough(n)}
<1>1. points \in Nat /\ Exit \in Int /\ Exit = 0 - 1
  BY Known1, BaseIs DEF Exit
<1>2. PICK U : U = Exit..points
  OBVIOUS
<1>3. IsFiniteSet(U) /\ Cardinality(U) = points + 2
  BY <1>1, <1>2, FS_Interval
<1>4. ASSUME NEW n \in 0..(points + 1)
      PROVE  ReachedIn[n] \subseteq Visited /\ ReachedIn[n] \subseteq U /\ IsFiniteSet(ReachedIn[n]) /\ Cardinality(ReachedIn[n]) \in Nat
  <2>1. ReachedIn[n] \subseteq Visited /\ ReachedIn[n] \in SUBSET U
    BY <1>2, ReachedIsVisited, VisitedIsBounded
  <2>2. IsFiniteSet(ReachedIn[n])
    BY <1>3, <2>1, FS_Subset
  <2> QED BY <2>1, <2>2, FS_CardinalityType
<1>5. 0 \in Q
  <2>1. PICK s : s = Start
    OBVIOUS
  <2>2. Cardinality({s}) = 1
    BY FS_Singleton
  <2>3. ReachedIn[0] = {s}
    BY <1>1, <2>1, ReachedDef
  <2>4. Cardinality(ReachedIn[0]) >= 0 + 1
    BY <2>2, <2>3
  <2>5. Enough(0)
    BY <2>4 DEF Enough
  <2> QED BY <1>1, <2>5
<1>6. ASSUME NEW n \in 0..points, n \in Q PROVE n + 1 \in Q
  <2>1. PICK k : k = n + 1
    OBVIOUS
  <2>2. k \in 1..(points + 1) /\ k \in 0..(points + 1) /\ k - 1 = n /\ n \in 0..(points + 1)
    BY <1>1, <2>1
  <2>3. PICK r, q : r = ReachedIn[n] /\ q = ReachedIn[k]
    OBVIOUS
  <2>4. q = Along(r)
    BY <1>1, <2>2, <2>3, ReachedDef
  <2>5. r \subseteq Visited /\ IsFiniteSet(r) /\ IsFiniteSet(q) /\ Cardinality(r) \in Nat /\ Cardinality(q) \in Nat
    BY <1>4, <2>2, <2>3
  <2>6. CASE Closed(r)
    <3>1. \A g \in Edges : g[1] \in r => g \in flow
      BY <2>5, VisitedFrom
    <3>2. q = r
      BY <2>4, <2>6, <3>1 DEF Along, Closed
    <3> QED BY <2>1, <2>2, <2>3, <2>6, <3>2 DEF Enough
  <2>7. CASE ~Closed(r) /\ Cardinality(r) >= n + 1
    <3>1. Start \in r
      BY <1>1, <2>2, <2>3, StartReached
    <3>2. PICK f \in flow : f[1] \in r /\ f[3] \notin r
      BY <2>7, <3>1 DEF Closed
    <3>3. f \in Edges
      BY FlowInEdges
    <3>4. PICK x : x = f[3]
      OBVIOUS
    <3>5. x \in q /\ x \notin r /\ r \subseteq q
      BY <2>4, <3>2, <3>3, <3>4 DEF Along
    <3>6. Cardinality(r \union {x}) = Cardinality(r) + 1
      BY <2>5, <3>5, FS_AddElement
    <3>7. r \union {x} \in SUBSET q
      BY <3>5
    <3>8. Cardinality(r \union {x}) <= Cardinality(q)
      BY <2>5, <3>7, FS_Subset
    <3>9. Cardinality(q) >= k + 1
      BY <2>1, <2>2, <2>5, <2>7, <3>6, <3>8
    <3> QED BY <2>1, <2>2, <2>3, <3>9 DEF Enough
  <2>8. Closed(r) \/ Cardinality(r) >= n + 1
    BY <1>6, <2>3 DEF Enough
  <2> QED BY <2>6, <2>7, <2>8
<1> HIDE DEF Q
<1>7. PICK m : m = points + 1 /\ m \in Int /\ m - 1 = points
  BY <1>1
<1>8. 0 \in Int /\ \A n \in 0..(m - 1) : n \in Q => n + 1 \in Q
  BY <1>6, <1>7
<1>9. \A n \in 0..m : n \in Q
  BY <1>5, <1>7, <1>8, IntervalInduction
<1>10. m \in Q /\ m \in 0..(points + 1)
  BY <1>1, <1>7, <1>9
<1>11. CASE Cardinality(ReachedIn[m]) >= m + 1
  <2>1. PICK q : q = ReachedIn[m]
    OBVIOUS
  <2>2. q \subseteq U /\ Cardinality(q) \in Nat /\ Cardinality(q) >= points + 2
    BY <1>1, <1>4, <1>7, <1>10, <1>11, <2>1
  <2>3. q \in SUBSET U
    BY <2>2
  <2>4. Cardinality(q) <= Cardinality(U)
    BY <1>3, <2>3, FS_Subset
  <2>5. Cardinality(U) = Cardinality(q)
    BY <1>1, <1>3, <2>2, <2>4
  <2>6. q = U
    BY <1>3, <2>3, <2>5, FS_Subset
  <2>7. \A f \in flow : f[3] \in U
    BY <1>2, FlowIs, VisitedIsBounded
  <2>8. Start \in U
    BY <1>1, <1>2 DEF Start
  <2> QED BY <1>7, <2>1, <2>6, <2>7, <2>8 DEF Closed
<1>12. CASE Closed(ReachedIn[m])
  BY <1>7, <1>12
<1> QED BY <1>10, <1>11, <1>12 DEF Q, Enough

\* A function whose blocks are all wired does what the source asks for.
LEMMA DoneIsFaithful ==
    ASSUME Known, Len(stack) = 1, NEW in, NEW rk, Whole(blocks, flow, in, rk), ~Enters(flow, Stray)
    PROVE  Faithful
<1>1. Terminated
  BY DEF Whole, Wired, Terminated
<1>2. PICK r : r = ReachedIn[points + 1]
  OBVIOUS
<1>3. points \in Nat /\ points + 1 \in 0..(points + 1)
  BY Known1, BaseIs
<1>4. r \subseteq Visited
  BY <1>2, <1>3, ReachedIsVisited
<1>5. EmittedFlow = {e \in Edges : e[1] \in r}
  BY <1>2 DEF EmittedFlow
<1>6. \A g \in Edges : g[1] \in r => g \in flow
  BY <1>4, VisitedFrom
<1>7. \A f \in flow : f \in Edges
  BY FlowInEdges
<1>8. \A f \in flow : f[1] \in r
  <2>1. Closed(r)
    BY <1>2, ReachedIsClosed
  <2>2. r \in SUBSET Int
    BY <1>4 DEF Visited, Start
  <2> QED BY <2>1, <2>2 DEF Known, Source, Reach
<1>9. EmittedFlow = flow
  BY <1>5, <1>6, <1>7, <1>8
<1> QED BY <1>1, <1>9 DEF Faithful

\* The invariant implies the property.
LEMMA LinkIsFaithful == Known /\ Link => FlowFaithful
<1> SUFFICES ASSUME Known, Link, phase = "done", ~odd PROVE Faithful
  BY DEF FlowFaithful
<1>1. Len(stack) = 1 /\ ~Enters(flow, Stray) /\ \E in, rk : Whole(blocks, flow, in, rk)
  BY DEF Link, LinkIs
<1> QED BY <1>1, DoneIsFaithful

\* The blocks that cond.go, loop.go, RetNode, YieldNode and AwaitNode make run the statements of a function in
\* the order the source asks for, when the source keeps to the forms they handle: for any number of statements
\* and any nesting.
THEOREM FlowIsFaithful == Spec => []FlowFaithful
<1>1. Init => Known /\ Link
  BY KnownInit, LinkInit
<1>2. Known /\ Link /\ [Next]_vars => (Known /\ Link)'
  BY KnownNext, LinkNext
<1>3. Known /\ Link => FlowFaithful
  BY LinkIsFaithful
<1> QED BY <1>1, <1>2, <1>3, PTL DEF Spec
=============================================================================
