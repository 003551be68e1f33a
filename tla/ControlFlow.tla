---------------------------- MODULE ControlFlow ----------------------------
(***************************************************************************)
(* compiler/ast: how a function body becomes basic blocks (cond.go,        *)
(* loop.go, RetNode, YieldNode, AwaitNode, addChildScope) and which        *)
(* variables of a generator get a field of its frame (buildCtx).           *)
(*                                                                         *)
(* The source text is chosen one statement at a time, and each action is   *)
(* the code generator's step for that piece of source.  Beside the blocks  *)
(* the module keeps the flow the source asks for, built from dangling      *)
(* exits: it never looks at the blocks.                                    *)
(***************************************************************************)
EXTENDS Integers, Sequences

CONSTANTS
    MaxSize,    \* bound: statements of the function, a return at its end not counted
    MaxDepth,   \* bound: nesting of scopes
    Forms       \* what the header of a loop has: sets of "def", "cond" and "step"

ASSUME BoundAssumption == MaxSize \in Nat /\ MaxDepth \in Nat
ASSUME FormsAssumption == Forms \subseteq SUBSET {"def", "cond", "step"}

VARIABLES
    mode,       \* "func", "gen" (yields, ends by itself) or "async" (awaits, returns)
    phase,      \* "compile", "done" or "error"
    blocks,     \* basic blocks: the points they execute and their terminator
    stack,      \* the scopes from the function's own to the current one
    points,     \* points handed out: statements, conditions, loop steps
    size,       \* statements so far
    defs,       \* points that define a variable
    frame,      \* those that buildCtx gives a field
    \* the source's own flow
    exits,      \* dangling exits <<point, label>>: control leaves here for what follows
    flow,       \* edges <<point, label, point>>
    uses,       \* <<d, u>>: u may read the variable that d defines
    odd         \* the source left the forms the generator handles

vars == <<mode, phase, blocks, stack, points, size, defs, frame, exits, flow, uses, odd>>

Nil == 0            \* no block
Exit == -1          \* the function returns
Spin == -2          \* control goes round in an empty loop
Stray == -3         \* a break or continue that has no loop
Start == 0          \* the point before the first

-----------------------------------------------------------------------------
(* Basic blocks (llir): NewBr, NewCondBr and NewRet replace the terminator. *)

NewBlock == [insts |-> <<>>, term |-> "none", to |-> <<>>]
SetTerm(bs, b, t, to) == [bs EXCEPT ![b].term = t, ![b].to = to]
NewBr(bs, b, to) == SetTerm(bs, b, "br", <<to>>)
NewCondBr(bs, b, tt, tf) == SetTerm(bs, b, "cond", <<tt, tf>>)
NewRet(bs, b) == SetTerm(bs, b, "ret", <<>>)
NewYield(bs, b, to) == SetTerm(bs, b, "yield", <<to>>)
Emit(bs, b, p) == [bs EXCEPT ![b].insts = Append(@, p)]
BrIfOpen(bs, b, to) == IF bs[b].term = "none" THEN NewBr(bs, b, to) ELSE bs

-----------------------------------------------------------------------------
(* Scopes.  tail, jumped, stale and vars describe the source: what the     *)
(* scope's last structure was, a jump that ends it, a loop compiled here.  *)

Depth == Len(stack)
Cur == stack[Depth]
Parent == stack[Depth - 1]
\* s.parent.block, nil for the function's own scope
ParentBlock(d) == IF d = 1 THEN Nil ELSE stack[d - 1].block

AddChildScope(kind, block, s) ==
    [kind |-> kind, block |-> block, first |-> block,
     breakBlock |-> s.breakBlock, continueBlock |-> s.continueBlock,
     cond |-> Nil, end |-> Nil, form |-> {}, point |-> 0, post |-> 0,
     tail |-> "first", jumped |-> "no", stale |-> s.stale, vars |-> {},
     saved |-> {}, breaks |-> {}, continues |-> {}]

SetCur(s) == stack' = [stack EXCEPT ![Depth] = s]

Reached == exits # {}
To(p) == {<<e[1], e[2], p>> : e \in exits}
LoopDepths == {d \in 1..Depth : stack[d].kind = "body"}
InnerLoop == CHOOSE d \in LoopDepths : \A e \in LoopDepths : e <= d

\* every variable in scope may be read at point p
InScope == UNION {stack[d].vars : d \in 1..Depth}
Reads(p) == InScope \X {p}

\* code behind a jump goes into the block that the jump ends
Dead == Cur.jumped # "no"

Init ==
    /\ mode \in {"func", "gen", "async"}
    /\ phase = "compile" /\ blocks = <<NewBlock>>
    /\ stack = <<AddChildScope("fn", 1, [breakBlock |-> Nil, continueBlock |-> Nil, stale |-> FALSE])>>
    /\ points = 0 /\ size = 0 /\ defs = {} /\ frame = {}
    /\ exits = {<<Start, "next">>} /\ flow = {} /\ uses = {} /\ odd = FALSE

Compiling == phase = "compile"
\* more statements may come; none after the first form the generator does not handle
Room == Compiling /\ size < MaxSize /\ ~odd

-----------------------------------------------------------------------------
(* Simple statements.  A definition gets a field of the frame when          *)
(* buildCtx, which goes down the bodies of if and for and the first branch  *)
(* of if/else, comes across it.                                            *)

InFrame == \A d \in 1..Depth : stack[d].kind # "else"

Statement(isDef) ==
    LET p == points + 1 IN
    /\ Room /\ size' = size + 1 /\ points' = p
    /\ isDef => mode # "func"
    /\ blocks' = Emit(blocks, Cur.block, p)
    /\ IF isDef
       THEN /\ defs' = defs \union {p}
            /\ frame' = IF InFrame THEN frame \union {p} ELSE frame
            /\ SetCur([Cur EXCEPT !.vars = @ \union {p}])
       ELSE UNCHANGED <<defs, frame, stack>>
    /\ flow' = flow \union To(p)
    /\ exits' = IF Reached THEN {<<p, "next">>} ELSE {}
    /\ uses' = uses \union Reads(p)
    /\ odd' = (odd \/ Dead)
    /\ UNCHANGED <<mode, phase>>

\* yield, and await: the address of a new block is stored and StepNext returns
Suspend ==
    LET p == points + 1
        nb == Len(blocks) + 1 IN
    /\ Room /\ size' = size + 1 /\ mode # "func" /\ points' = p
    /\ blocks' = NewYield(Emit(Append(blocks, NewBlock), Cur.block, p), Cur.block, nb)
    /\ SetCur([Cur EXCEPT !.block = nb, !.tail = "open"])
    /\ flow' = flow \union To(p)
    /\ exits' = IF Reached THEN {<<p, "resume">>} ELSE {}
    /\ uses' = uses \union Reads(p)
    /\ odd' = (odd \/ Dead)
    /\ UNCHANGED <<mode, phase, defs, frame>>

\* the end of a statement list in the source, when j jumps away
Jump(j) == [Cur EXCEPT !.tail = "ended", !.jumped = IF Reached THEN j ELSE @]

\* return.  In an async function the code behind it gets a block of its own.
Ret ==
    /\ mode # "gen" /\ Cur.tail # "ended"
    /\ IF Depth = 1 THEN Compiling /\ UNCHANGED size ELSE Room /\ size' = size + 1
    /\ IF mode = "async"
       THEN LET nb == Len(blocks) + 1 IN
            /\ blocks' = NewRet(NewRet(Append(blocks, NewBlock), Cur.block), nb)
            /\ SetCur([Cur EXCEPT !.block = nb, !.tail = "ended"])
       ELSE /\ blocks' = NewRet(blocks, Cur.block)
            /\ SetCur(Jump("ret"))
    /\ flow' = flow \union To(Exit)
    /\ exits' = {}
    /\ UNCHANGED <<mode, phase, points, defs, frame, uses, odd>>

\* break and continue: the target is the one the scope was given
BreakOrContinue(j, target) ==
    /\ Room /\ size' = size + 1 /\ Cur.tail # "ended"
    /\ IF target = Nil
       THEN phase' = "error" /\ UNCHANGED <<blocks, stack, exits, flow, odd>>
       ELSE /\ blocks' = NewBr(blocks, Cur.block, target)
            /\ IF LoopDepths = {}
               THEN /\ odd' = (odd \/ Reached) /\ SetCur(Jump(j))
                    /\ flow' = flow \union To(Stray)
               ELSE /\ UNCHANGED flow
                    /\ stack' = [d \in 1..Depth |->
                         LET s == IF d = Depth THEN Jump(j) ELSE stack[d] IN
                         IF d # InnerLoop THEN s
                         ELSE IF j = "break" THEN [s EXCEPT !.breaks = @ \union exits]
                         ELSE [s EXCEPT !.continues = @ \union exits]]
                    \* a stale target; behind it the loop's own branch back repairs a continue
                    /\ odd' = (odd \/ /\ Reached /\ Cur.stale
                                      /\ j = "continue" => Cur.kind # "body")
            /\ exits' = {}
            /\ UNCHANGED phase
    /\ UNCHANGED <<mode, points, defs, frame, uses>>

Break == BreakOrContinue("break", Cur.breakBlock)
Continue == BreakOrContinue("continue", Cur.continueBlock)

-----------------------------------------------------------------------------
(* if: the body is compiled first, then the block behind the if is made and *)
(* the condition goes into the block in front of it.                       *)

OpenIf ==
    LET p == points + 1
        tt == Len(blocks) + 1 IN
    /\ Room /\ size' = size + 1 /\ Depth < MaxDepth /\ points' = p
    /\ blocks' = Append(blocks, NewBlock)
    /\ stack' = Append(stack, [AddChildScope("if", tt, Cur) EXCEPT !.point = p,
                                  !.saved = IF Reached THEN {<<p, "false">>} ELSE {}])
    /\ flow' = flow \union To(p)
    /\ exits' = IF Reached THEN {<<p, "true">>} ELSE {}
    /\ uses' = uses \union Reads(p)
    /\ odd' = (odd \/ Dead)
    /\ UNCHANGED <<mode, phase, defs, frame>>

\* pop the scope; its parent goes on in block b
Pop(b, tail) == stack' = [SubSeq(stack, 1, Depth - 1) EXCEPT ![Depth - 1].block = b,
                                                             ![Depth - 1].tail = tail]

\* the block behind an if or if/else of the parent scope goes back to the
\* parent's parent, until something else ends it
BrToParent(bs, end) ==
    IF ParentBlock(Depth - 1) = Nil THEN bs ELSE NewBr(bs, end, ParentBlock(Depth - 1))

CloseIf ==
    LET tt == Cur.first
        end == Len(blocks) + 1
        b == Parent.block
        b1 == NewCondBr(Emit(Append(blocks, NewBlock), b, Cur.point), b, tt, end) IN
    /\ Compiling /\ Depth > 1 /\ Cur.kind = "if"
    /\ blocks' = BrToParent(BrIfOpen(b1, tt, end), end)
    /\ Pop(end, "if")
    /\ exits' = exits \union Cur.saved
    /\ odd' = (odd \/ Cur.tail = "open" \/ (Cur.tail = "if" /\ Reached))
    /\ UNCHANGED <<mode, size, phase, points, defs, frame, flow, uses>>

-----------------------------------------------------------------------------
(* if/else: all blocks are made first and the scope goes on in the last of  *)
(* them while the branches are compiled.                                   *)

OpenIfElse ==
    LET p == points + 1
        tt == Len(blocks) + 1
        tf == tt + 1
        end == tt + 2
        s == [Cur EXCEPT !.block = end] IN
    /\ Room /\ size' = size + 1 /\ Depth < MaxDepth /\ points' = p
    /\ blocks' = NewCondBr(Emit(blocks \o <<NewBlock, NewBlock, NewBlock>>, Cur.block, p),
                           Cur.block, tt, tf)
    /\ stack' = Append([stack EXCEPT ![Depth] = s],
                       [AddChildScope("then", tt, s) EXCEPT !.point = p, !.cond = tf, !.end = end])
    /\ flow' = flow \union To(p)
    /\ exits' = IF Reached THEN {<<p, "true">>} ELSE {}
    /\ uses' = uses \union Reads(p)
    /\ odd' = (odd \/ Dead)
    /\ UNCHANGED <<mode, phase, defs, frame>>

\* was the condition of the if/else that the scope belongs to reached
Came == \E e \in flow : e[3] = Cur.point

Else ==
    /\ Compiling /\ Depth > 1 /\ Cur.kind = "then"
    /\ stack' = [stack EXCEPT ![Depth] =
                   [AddChildScope("else", Cur.cond, Parent) EXCEPT
                       !.point = Cur.point, !.cond = Cur.first, !.end = Cur.end, !.saved = exits]]
    /\ exits' = IF Came THEN {<<Cur.point, "false">>} ELSE {}
    /\ odd' = (odd \/ Cur.tail = "open")
    /\ UNCHANGED <<mode, size, phase, blocks, points, defs, frame, flow, uses>>

CloseIfElse ==
    LET end == Cur.end IN
    /\ Compiling /\ Depth > 1 /\ Cur.kind = "else"
    /\ blocks' = BrToParent(BrIfOpen(BrIfOpen(blocks, Cur.cond, end), Cur.first, end), end)
    /\ Pop(end, "if")
    /\ exits' = exits \union Cur.saved
    /\ odd' = (odd \/ Cur.tail = "open")
    /\ UNCHANGED <<mode, size, phase, points, defs, frame, flow, uses>>

-----------------------------------------------------------------------------
(* for.  The header has a definition, a condition and a step, each of them *)
(* or not.  The condition is compiled twice, before the loop and in the     *)
(* block that continue goes to.  The body of a loop without condition       *)
(* begins with a simple statement, so that no loop is empty.               *)

\* s.continueBlock and s.breakBlock: set on the scope the loop stands in
SetTargets(s, cond, end) == [s EXCEPT !.continueBlock = cond, !.breakBlock = end]

OpenFor(form) ==
    LET header == IF "def" \in form THEN {points + 1} ELSE {}
        c == IF "def" \in form THEN points + 2 ELSE points + 1   \* the condition, or the first statement
        post == IF "step" \in form THEN c + 1 ELSE 0
        cond == Len(blocks) + 1
        body == cond + 1
        end == cond + 2
        s == [SetTargets(Cur, cond, end) EXCEPT !.block = end, !.stale = TRUE]
        b0 == blocks \o <<NewBlock, NewBlock, NewBlock>>
        b1 == IF "def" \in form THEN Emit(b0, Cur.block, points + 1) ELSE b0 IN
    /\ Room /\ size' = size + 1 /\ Depth < MaxDepth
    /\ points' = IF "step" \in form THEN post ELSE c
    /\ blocks' = IF "cond" \in form
                 THEN NewCondBr(Emit(b1, Cur.block, c), Cur.block, body, end)
                 ELSE Emit(NewBr(b1, Cur.block, body), body, c)
    /\ stack' = Append([stack EXCEPT ![Depth] = s],
                  [AddChildScope("body", body, s) EXCEPT
                      !.stale = FALSE, !.vars = header, !.cond = cond, !.end = end,
                      !.form = form, !.point = c, !.post = post,
                      !.saved = IF Reached /\ "cond" \in form THEN {<<c, "false">>} ELSE {}])
    /\ flow' = flow \union (IF "def" \in form /\ Reached THEN To(c - 1) \union {<<c - 1, "next", c>>}
                             ELSE To(c))
    /\ exits' = IF Reached THEN {<<c, IF "cond" \in form THEN "true" ELSE "next">>} ELSE {}
    /\ defs' = defs \union header
    /\ uses' = uses \union (InScope \X header)
                    \union ((InScope \union header) \X ({c, post} \ {0}))
    /\ odd' = (odd \/ Dead)
    /\ UNCHANGED <<mode, phase, frame>>

\* mutant: the step of a loop is compiled only together with a condition
CondBlock_StepNeedsCond(bs, s) ==
    IF "cond" \notin s.form THEN NewBr(bs, s.cond, s.first)
    ELSE LET b1 == IF "step" \in s.form THEN Emit(bs, s.cond, s.post) ELSE bs IN
         NewCondBr(Emit(b1, s.cond, s.point), s.cond, s.first, s.end)

\* the block that continue goes to: the step, the condition again
CondBlock(bs, s) ==
    LET b1 == IF "step" \in s.form THEN Emit(bs, s.cond, s.post) ELSE bs IN
    IF "cond" \in s.form THEN NewCondBr(Emit(b1, s.cond, s.point), s.cond, s.first, s.end)
    ELSE NewBr(b1, s.cond, s.first)

CloseFor ==
    LET out == exits \union Cur.continues
        back == IF out # {} /\ "step" \in Cur.form THEN {<<Cur.post, "next">>} ELSE out IN
    /\ Compiling /\ Depth > 1 /\ Cur.kind = "body"
    /\ blocks' = NewBr(CondBlock(blocks, Cur), Cur.block, Cur.cond)
    /\ Pop(Cur.end, "open")
    /\ flow' = flow \union {<<e[1], e[2], Cur.point>> : e \in back}
                    \union (IF "step" \in Cur.form THEN {<<e[1], e[2], Cur.post>> : e \in out} ELSE {})
    /\ exits' = Cur.saved \union Cur.breaks
    /\ odd' = (odd \/ Cur.jumped \in {"break", "ret"})
    /\ UNCHANGED <<mode, size, phase, points, defs, frame, uses>>

-----------------------------------------------------------------------------
\* The end of the body.  StepNext of a generator gets its own return; any
\* other function is ended by the source, which may not fall off its end.
Finish ==
    /\ Compiling /\ Depth = 1 /\ points > 0
    /\ mode # "gen" => exits = {}
    /\ phase' = "done"
    /\ blocks' = IF mode = "func" THEN blocks ELSE NewRet(blocks, Cur.block)
    /\ flow' = flow \union To(Exit) /\ exits' = {}
    /\ odd' = (odd \/ (mode = "func" /\ Cur.tail \in {"if", "open"}))
    /\ UNCHANGED <<mode, size, stack, points, defs, frame, uses>>

Ended == phase # "compile" /\ UNCHANGED vars

Next ==
    \/ \E isDef \in BOOLEAN : Statement(isDef)
    \/ Suspend \/ Ret \/ Break \/ Continue
    \/ OpenIf \/ CloseIf \/ OpenIfElse \/ Else \/ CloseIfElse
    \/ \E form \in Forms : OpenFor(form)
    \/ CloseFor \/ Finish \/ Ended

Spec == Init /\ [][Next]_vars

-----------------------------------------------------------------------------
(* What the blocks do. *)

\* the first point executed from block b on, through at most n empty blocks
FirstIn[n \in 0..Len(blocks)] ==
    [b \in 1..Len(blocks) |->
        IF blocks[b].insts # <<>> THEN blocks[b].insts[1]
        ELSE IF blocks[b].term = "ret" THEN Exit
        ELSE IF blocks[b].term = "br" /\ n > 0 THEN FirstIn[n - 1][blocks[b].to[1]]
        ELSE Spin]

Into(b) == FirstIn[Len(blocks)][b]

Leaving(b, p) ==
    CASE blocks[b].term = "br" -> {<<p, "next", Into(blocks[b].to[1])>>}
      [] blocks[b].term = "cond" -> {<<p, "true", Into(blocks[b].to[1])>>,
                                     <<p, "false", Into(blocks[b].to[2])>>}
      [] blocks[b].term = "yield" -> {<<p, "resume", Into(blocks[b].to[1])>>}
      [] blocks[b].term = "ret" -> {<<p, "next", Exit>>}
      [] OTHER -> {}

Edges == {<<Start, "next", Into(1)>>} \union
    UNION {LET is == blocks[b].insts IN
           IF is = <<>> THEN {}
           ELSE {<<is[i], "next", is[i + 1]>> : i \in 1..(Len(is) - 1)} \union Leaving(b, is[Len(is)])
           : b \in 1..Len(blocks)}

ReachedIn[n \in 0..(points + 1)] ==
    IF n = 0 THEN {Start}
    ELSE LET r == ReachedIn[n - 1] IN r \union {e[3] : e \in {f \in Edges : f[1] \in r}}

EmittedFlow == LET r == ReachedIn[points + 1] IN {e \in Edges : e[1] \in r}

\* every block must have a terminator for the module to be printed
Terminated == \A b \in 1..Len(blocks) : blocks[b].term # "none"

\* points the source reaches from a point of S without passing d
Reaches(S, d) ==
    LET R[n \in Nat] == IF n = 0 THEN S
                        ELSE LET r == R[n - 1] IN
                             r \union {e[3] : e \in {f \in flow : f[1] \in r /\ f[3] # d}}
    IN R[points]

\* points where the variable defined at d may be read after StepNext returned
AfterSuspend(d) ==
    Reaches({e[3] : e \in {f \in flow : f[2] = "resume" /\ f[1] \in Reaches({d}, d)}} \ {d}, d)

-----------------------------------------------------------------------------
(* Properties *)

\* Every variable has its type.
TypeOK ==
    /\ mode \in {"func", "gen", "async"} /\ phase \in {"compile", "done", "error"}
    /\ \A b \in 1..Len(blocks) :
          /\ blocks[b].term \in {"none", "br", "cond", "ret", "yield"}
          /\ \A i \in 1..Len(blocks[b].to) : blocks[b].to[i] \in 1..Len(blocks)
    /\ \A d \in 1..Depth : stack[d].block \in 1..Len(blocks)
    /\ frame \subseteq defs /\ defs \subseteq 1..points

Faithful == Terminated /\ EmittedFlow = flow

\* The blocks of a compiled function run its statements in the order the
\* source asks for, along every branch, loop, break, continue, yield and
\* return, when the source keeps to the forms that the generator handles.
FlowFaithful == phase = "done" /\ ~odd => Faithful

\* the source has no dead code: control comes to every point
AllLive == \A p \in 1..points : \E e \in flow : e[3] = p

\* ... and it ends in a return, as the functions of the repository do
Returns == blocks[Cur.block].term = "ret"

\* So should the blocks of every such function: the grammar derives them all,
\* and the compiler reports none.  The code does not keep it, and odd tells why:
\* IfNode.calc and IfElseNode.calc close the block that a branch begins with and
\* not the one it ends in, they leave an inner if for the block the outer scope is
\* in, and ForNode.calc sets the targets of break and continue on the scope around
\* and overwrites how the body ends.
AsSource == phase = "done" /\ AllLive /\ Returns => EmittedFlow = flow

\* A variable of a generator or async function that is read after a yield or
\* await lives in the frame and not on the stack of the StepNext call that
\* returned (buildCtx looks for its definition).  This fails for variables of a
\* loop header or below else, where buildCtx does not look, and for no others.
FramesKept ==
    phase = "done" /\ ~odd =>
        \A p \in uses : p[2] \in AfterSuspend(p[1]) => p[1] \in frame
=============================================================================
