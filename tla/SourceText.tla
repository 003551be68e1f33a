----------------------------- MODULE SourceText -----------------------------
(***************************************************************************)
(* The parser on short texts.  A text is put into the body of a function,  *)
(* in front of a line that is correct, and the file is given to the lexer. *)
(* A text is either a line, any sequence of letters, or a block, put       *)
(* together from statements whose trees are known.                         *)
(***************************************************************************)
EXTENDS Parser

CONSTANTS
    Alphabets,      \* records: the letters of a line, and its greatest length
    MaxBlock,       \* how often a block is extended
    NoAlphabet      \* the text is a block

\* A line holds no brace and no line break.
ASSUME AlphabetsAssumption ==
    /\ NoAlphabet \notin Alphabets /\ MaxBlock \in Nat
    /\ \A a \in Alphabets : a.max \in Nat /\ a.letters \cap {"{", "}", NL} = {}

VARIABLES
    alphabet,       \* the alphabet of a line
    text,           \* the letters of the line or the block
    tree,           \* the statements of a block
    size            \* the extensions so far

vars == <<input, alphabet, text, tree, size>>

Package == <<"package", "a", NL>>
FuncHead == <<"func", "a", "(", ")", "int", "{", NL>>
Good == <<"b", ":", "=", "b", NL>>

Start == Len(Package \o FuncHead) + 1

\* imports and declarations in front of a block
Header == <<
    NL, "import", "(", NL, "s", "a", NL, "s", NL, ")", NL,
    "type", "a", "<", "a", ",", "b", ">", "struct", "{", NL, "a", "*", "b", NL, "}", NL,
    "type", "b", "interface", "{", NL, "a", "(", ")", "a", ".", "b", NL, "}", NL,
    "var", "a", "func", "(", "a", "int", ",", "b", "a", ")", "int", NL,
    "var", "b", "=", "1", NL,
    "func", "a", "<", "b", ">", "(", "this", "a", "b", ")", "a", "async", "{", NL, "return", NL, "}", NL>>

\* the file that holds the text t
FileOf(t) ==
    Package \o (IF alphabet = NoAlphabet THEN Header ELSE <<>>) \o FuncHead \o t
    \o <<NL>> \o Good \o <<"}", NL>>

\* Lexer.SetInput
SetInput(s) == input' = s

A == <<"id">>
Named == <<"named", <<>>>>
Empty == <<"empty">>
Generic(t) == <<"named", <<"targs", t>>>>
GoodTree == <<<<"defassign", A>>, Empty>>
HeaderTree == <<
    <<A, <<>>>>,
    <<"type", <<A, A>>, <<"struct", Named>>>>,
    <<"type", <<>>, <<"interface", <<<<")">>, Named>>>>>>,
    <<"define", <<"functype", <<"params", <<"int">>, Named>>, <<"int">>>>>>,
    <<"defassign", <<"num">>>>,
    <<"func", <<"params", Named>>, Named, <<Empty, <<"return">>>>>>>>
FuncTree(body) == <<"func", <<")">>, <<"int">>, body>>

-----------------------------------------------------------------------------
(* Lines                                                                   *)

TypeLetter ==
    /\ alphabet \in Alphabets
    /\ \E l \in alphabet.letters : text' = Append(text, l)
    /\ size < alphabet.max
    /\ UNCHANGED tree

(* Blocks: a statement is [t: its letters, n: its trees]                   *)

Simple == {
    [t |-> <<NL>>, n |-> <<Empty>>],
    [t |-> <<"a", ":", "=", "a", NL>>, n |-> <<<<"defassign", A>>, Empty>>],
    [t |-> <<"var", "a", "=", "[", "1", "]", "int", "{", "a", ",", "a", "}", NL>>,
     n |-> <<<<"defassign", <<"arrayinit", A, A>>>>, Empty>>],
    [t |-> <<"*", "a", ".", "b", "=", "&", "a", "{", NL, "b", ":", "a", ",", NL, "}", NL>>,
     n |-> <<<<"assign", <<".", A, A>>, <<"ptr", <<"structinit", A>>>>>>, Empty>>],
    [t |-> <<"var", "a", "[", "]", "a", "<", "a", "<", "int", ">", ">", NL>>,
     n |-> <<<<"define", <<"array", Generic(Generic(<<"int">>))>>>>>>],
    [t |-> <<"a", "<", "int", ">", "(", "1", ")", ".", "a", "[", "a", "]", NL>>,
     n |-> <<<<"call", A, <<<<"num">>>>, <<"index", A, A>>>>>>],
    [t |-> <<"await", "a", "(", ")", NL>>,
     n |-> <<<<"await", <<"call", A, <<>>, <<>>>>>>, Empty>>],
    [t |-> <<"break", NL>>, n |-> <<<<"break">>>>],
    [t |-> <<"continue", NL>>, n |-> <<<<"continue">>>>],
    [t |-> <<"yield", "a", NL>>, n |-> <<<<"yield", A>>>>],
    [t |-> <<"return", NL>>, n |-> <<<<"return">>>>],
    [t |-> <<"return", "a", "<", "a", NL>>, n |-> <<<<"return", <<"<", A, A>>>>, Empty>>]}

\* statements around a block
Compound(t, n) == {
    [t |-> <<"if", "a", "{", NL>> \o t \o <<"}", NL>>,
     n |-> <<<<"if", A, <<Empty>> \o n>>, Empty>>],
    [t |-> <<"if", "true", "{">> \o t \o <<"}", "else", "if", "a", "{">> \o t \o
           <<"}", "else", "{">> \o t \o <<"}", NL>>,
     n |-> <<<<"ifelse", <<"true">>, n, <<"ifelse", A, n, n>>>>, Empty>>],
    [t |-> <<"for", "{", NL>> \o t \o <<"}", NL>>,
     n |-> <<<<"for", <<>>, <<Empty>> \o n>>, Empty>>],
    [t |-> <<"for", "a", ":", "=", "1", ";", "a", "<", "a", ";", "a", "=", "a", "{", NL>> \o t \o
           <<"}", NL>>,
     n |-> <<<<"for", <<"defassign", <<"num">>>>, <<"<", A, A>>, <<"assign", A, A>>,
               <<Empty>> \o n>>, Empty>>],
    [t |-> <<"a", "(", "func", "(", "a", "int", ")", "int", "async", "{", NL>> \o t \o
           <<"}", ")", NL>>,
     n |-> <<<<"call", A, <<<<"closure", <<Empty>> \o n>>>>, <<>>>>>>]}

Put(t, n) == text' = t /\ tree' = n

AddStatement == \E s \in Simple : Put(text \o s.t, tree \o s.n)

\* a block of empty lines is not put into a compound statement
Enclose ==
    /\ \E k \in 1..Len(tree) : tree[k] # Empty
    /\ \E s \in Compound(text, tree) : Put(s.t, s.n)

ExtendBlock ==
    /\ alphabet = NoAlphabet
    /\ size < MaxBlock
    /\ AddStatement \/ Enclose

-----------------------------------------------------------------------------

Init ==
    /\ alphabet \in Alphabets \cup {NoAlphabet}
    /\ text = <<>> /\ tree = <<>> /\ size = 0
    /\ input = FileOf(<<>>)

Next ==
    /\ TypeLetter \/ ExtendBlock
    /\ SetInput(FileOf(text'))
    /\ size' = size + 1
    /\ UNCHANGED alphabet

Spec == Init /\ [][Next]_vars

-----------------------------------------------------------------------------

RECURSIVE TokensFrom(_)
TokensFrom(i) ==
    LET s == Scan(i) IN IF s.code = NL THEN <<>> ELSE <<s.code>> \o TokensFrom(s.pos)

\* the trees that the expression parser finds for the whole line
Whole(r) == IF r.k = "ok" /\ r.i = Start + Len(text) THEN {r.n} ELSE {}
Parsed == Whole(parse["boolexp", Start])

\* a file of one function, whose body ends in the correct line
EndsWell(body) == SubSeq(body, Len(body) - 1, Len(body)) = GoodTree
Contained(r) ==
    r.k = "ok" /\ r.n = <<<<>>, FuncTree(r.n[2][4])>> /\ EndsWell(r.n[2][4])

Taken == INSTANCE Grammar WITH Rules <- "parser"
Readme == INSTANCE Grammar WITH Rules <- "README"

\* The lines on which the parser and the grammar of README.md may differ: behind
\* a connective stands another operator of boolexp or bitOp, or a call has an
\* argument that is no E.
Logical == {"&&", "||", "&", "^"}
Compares == {"==", "!=", ">", "<", ">=", "<="}
Departs(w) ==
    \E i, j \in 1..Len(w) : i < j /\
        \/ w[i] \in {"&&", "||"} /\ w[j] \in Logical
        \/ w[i] = "id" /\ w[i + 1] = "("
              /\ w[j] \in Logical \cup Compares \cup {"!", "nil", "true", "false"}

(***************************************************************************)
(* boolexp accepts exactly the lines that README.md derives and gives them *)
(* the tree of their one derivation: the alternatives it tries and         *)
(* abandons, the panics it catches and the positions it goes back to lose  *)
(* no expression and change the grouping of none.  Where it departs from   *)
(* README.md it follows the two rules that module Grammar names.  README   *)
(* derives a && a && a, for one, which boolexp does not take.              *)
(***************************************************************************)
ExpGrammar ==
    alphabet \in Alphabets =>
        LET w == TokensFrom(Start)
        IN  Parsed = IF Departs(w) THEN Taken!BE(w) ELSE Readme!BE(w)

(***************************************************************************)
(* Whatever is on the line, the file is parsed to its end and the correct  *)
(* line that follows is parsed as on its own: an error in a function body  *)
(* becomes an error node of its line (statement, SkipLn; docs/lsp.md).     *)
(***************************************************************************)
ErrorContained ==
    alphabet \in Alphabets =>
        Contained(program(parse, 1))

(***************************************************************************)
(* A file of correct declarations, with a block of correct statements      *)
(* nested in ifs, loops and closures, is parsed to exactly those, though   *)
(* most of the alternatives that statement, allexp and takeValExp try      *)
(* first run on into the next statement or block before they fail.         *)
(***************************************************************************)
BlockParsed ==
    alphabet = NoAlphabet =>
        program(parse, 1) =
            Ok(Append(HeaderTree, FuncTree(<<Empty>> \o tree \o <<Empty>> \o GoodTree)),
               Len(input) + 1)
=============================================================================
