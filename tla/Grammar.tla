------------------------------ MODULE Grammar ------------------------------
(***************************************************************************)
(* The expression grammar of README.md ("all_exp" to "take_val_exp"), as   *)
(* the set of trees that derive a sequence of tokens.  A chain of binary   *)
(* operators groups to the left.  Brackets leave no node.                  *)
(*                                                                         *)
(* In two rules the parser departs from README.md, and so there are two    *)
(* grammars: that of README.md, and that of the parser.                    *)
(***************************************************************************)
EXTENDS Naturals, Sequences

CONSTANT Rules  \* "README" or "parser"

\* the trees of  C -> T | C op T
RECURSIVE Chain(_, _, _)
Chain(T(_), ops, w) ==
    T(w) \cup
    UNION {{<<w[k], l, r>> : l \in Chain(T, ops, SubSeq(w, 1, k - 1)),
                             r \in T(SubSeq(w, k + 1, Len(w)))} :
           k \in {k \in 2..(Len(w) - 1) : w[k] \in ops}}

RECURSIVE AE(_), BE(_), E(_), B(_)

\* what is between a first and a last token
Inside(T(_), first, last, w) ==
    IF Len(w) > 2 /\ w[1] = first /\ w[Len(w)] = last
    THEN T(SubSeq(w, 2, Len(w) - 1)) ELSE {}

VC(w) == IF w = <<"id">> THEN {w} ELSE {}

\* arguments, separated by commas; README.md has an E for the first one
RECURSIVE Rest(_)
Rest(w) ==
    {<<e>> : e \in AE(w)} \cup
    UNION {{<<e>> \o r : e \in AE(SubSeq(w, 1, k - 1)), r \in Rest(SubSeq(w, k + 1, Len(w)))} :
           k \in {k \in 2..(Len(w) - 1) : w[k] = ","}}
First(w) == IF Rules = "README" THEN E(w) ELSE AE(w)
Args(w) ==
    {<<e>> : e \in First(w)} \cup
    UNION {{<<e>> \o r : e \in First(SubSeq(w, 1, k - 1)), r \in Rest(SubSeq(w, k + 1, Len(w)))} :
           k \in {k \in 2..(Len(w) - 1) : w[k] = ","}}

CF(w) ==
    IF Len(w) < 3 \/ Head(w) # "id" THEN {}
    ELSE {<<"call", <<"id">>, p, <<>>>> :
             p \in IF Tail(w) = <<"(", ")">> THEN {<<>>} ELSE Inside(Args, "(", ")", Tail(w))}

RECURSIVE Unstar(_)
Unstar(w) == IF w # <<>> /\ Head(w) = "*" THEN Unstar(Tail(w)) ELSE w

TVE(w) ==
    LET v == Unstar(w)
    IN  {IF v = w THEN n ELSE <<"val", n>> : n \in VC(v) \cup CF(v)}

N(w) == (IF w \in {<<"num">>, <<"str">>} THEN {w} ELSE {}) \cup Inside(E, "(", ")", w) \cup TVE(w)

S(w) == N(w) \cup (IF Len(w) > 1 /\ w[1] \in {"+", "-"} THEN {<<w[1], n>> : n \in N(Tail(w))} ELSE {})

F(w) == Chain(S, {"*", "/", "%"}, w)
AF(w) == Chain(F, {"+", "-"}, w)
E(w) == Chain(AF, {"<<", ">>"}, w)

B(w) ==
    (IF w \in {<<"true">>, <<"false">>, <<"nil">>} THEN {w} ELSE {}) \cup E(w)
    \cup Inside(BE, "(", ")", w)
    \cup (IF Len(w) > 1 /\ w[1] = "!" THEN {<<"!", b>> : b \in B(Tail(w))} ELSE {})

C(w) == Chain(B, {"==", "!=", ">", "<", ">=", "<="}, w)
BO(w) == Chain(C, {"&", "^"}, w)

\* README.md: BE -> BO ((AND|OR) BE)?.  boolexp takes one connective, and behind
\* it a comparison.
Second(w) == IF Rules = "README" THEN BE(w) ELSE C(w)
BE(w) ==
    BO(w) \cup
    UNION {{<<w[k], l, r>> : l \in BO(SubSeq(w, 1, k - 1)), r \in Second(SubSeq(w, k + 1, Len(w)))} :
           k \in {k \in 2..(Len(w) - 1) : w[k] \in {"&&", "||"}}}

AE(w) == BE(w) \cup (IF Len(w) > 1 /\ w[1] = "&" THEN {<<"ptr", v>> : v \in VC(Tail(w))} ELSE {})
=============================================================================
