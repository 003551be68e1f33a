------------------------------- MODULE Lexer -------------------------------
(***************************************************************************)
(* compiler/lexer/lexer.go.  The input is a sequence of letters.  A run of *)
(* characters that the lexer always takes as one token (an identifier, a   *)
(* keyword, a number, a string) is a single letter; every other letter is  *)
(* one character, so that operators of two characters are put together by  *)
(* Scan.  A position is an index into the input; a checkpoint is a         *)
(* position, which the operators below take and return instead of storing. *)
(***************************************************************************)
EXTENDS Naturals, Sequences

VARIABLE input

NL == "\n"

Ends(i) == i > Len(input)
Peek(i) == IF Ends(i) THEN "" ELSE input[i]

\* tokens of two characters; "|" alone is an or as well, see below
Digraph == [d \in {"==", ":=", "&&", "||", ">=", "<=", ">>", "<<", "!="} |->
    CASE d = "==" -> <<"=", "=">> [] d = ":=" -> <<":", "=">>
      [] d = "&&" -> <<"&", "&">> [] d = "||" -> <<"|", "|">>
      [] d = ">=" -> <<">", "=">> [] d = "<=" -> <<"<", "=">>
      [] d = ">>" -> <<">", ">">> [] d = "<<" -> <<"<", "<">>
      [] d = "!=" -> <<"!", "=">>]

\* the token of a single letter: TYPE_VAR, TYPE_INT, TYPE_STR, or itself
Code(ch) ==
    CASE ch \in {"a", "b"} -> "id"
      [] ch = "1" -> "num"
      [] ch = "s" -> "str"
      [] ch = "|" -> "||"
      [] OTHER -> ch

Eos(code, i) == [code |-> code, pos |-> i, eos |-> TRUE]

RECURSIVE Scan(_)

\* a comment runs to the end of its line, the line break included
SkipComment(i) ==
    LET ends == {j \in i..Len(input) : input[j] = NL}
    IN  IF ends = {} THEN Eos("none", Len(input) + 2)
        ELSE Scan((CHOOSE j \in ends : \A k \in ends : j <= k) + 1)

\* At the end of the input the code is the zero value, which is TYPE_INT.
Scan(i) ==
    IF Ends(i) THEN Eos("num", i + 1)
    ELSE IF Peek(i) = " " THEN Scan(i + 1)
    ELSE IF Peek(i) = "/" /\ Peek(i + 1) = "/" THEN SkipComment(i + 1)
    ELSE LET two == {d \in DOMAIN Digraph : Digraph[d] = <<Peek(i), Peek(i + 1)>>}
         IN  IF two # {} THEN [code |-> CHOOSE d \in two : TRUE, pos |-> i + 2, eos |-> FALSE]
             ELSE [code |-> Code(Peek(i)), pos |-> i + 1, eos |-> FALSE]

(***************************************************************************)
(* Results of the scanner and the parser: a node and the position behind   *)
(* it; an error and the position the lexer is left at; a panic; or an      *)
(* endless loop.                                                           *)
(***************************************************************************)
Ok(n, i) == [k |-> "ok", n |-> n, i |-> i]
Err(i) == [k |-> "err", n |-> <<>>, i |-> i]
Panic == [k |-> "panic", n |-> <<>>, i |-> 0]
Hang == [k |-> "hang", n |-> <<>>, i |-> 0]

RECURSIVE SkipBlank(_)
SkipBlank(i) == IF Peek(i) = " " THEN SkipBlank(i + 1) ELSE i

\* mutant: ">>" is not split
ScanType_NoSplit(code, i) ==
    LET s == Scan(i) IN IF s.code = code THEN Ok(<<code>>, s.pos) ELSE Err(i)

\* ">" is taken from ">>" and ">=" when it is asked for: A<B<C>>.  At the end of
\* the input the position is not taken back.
ScanType(code, i) ==
    LET s == Scan(i)
        j == SkipBlank(i)
    IN  IF code = ">" /\ Peek(j) = ">" THEN Ok(<<">">>, j + 1)
        ELSE IF s.code = code THEN Ok(<<code>>, s.pos)
        ELSE Err(IF s.eos THEN s.pos ELSE i)

\* skip the rest of the line; without a line break ahead this never ends
RECURSIVE SkipLn(_)
SkipLn(i) ==
    LET s == Scan(i)
    IN  IF s.code = NL THEN Ok(<<"error">>, s.pos)
        ELSE IF s.eos THEN Hang
        ELSE SkipLn(s.pos)
=============================================================================
