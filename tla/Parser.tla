------------------------------- MODULE Parser -------------------------------
(***************************************************************************)
(* compiler/parser: the recursive descent parser for types, expressions    *)
(* and statements.  One operator per method of Parser; its argument is the *)
(* position of the lexer and its value what the method returns, with the   *)
(* position at which it leaves the lexer.  A syntax tree is a tuple whose  *)
(* first component names the node.  Methods that call each other in a      *)
(* circle do so through P, the function of all of them (parse, at the end).*)
(***************************************************************************)
EXTENDS Lexer

\* if err != nil { return nil, err }
Then(r, F(_)) == IF r.k = "ok" THEN F(r) ELSE r
\* if err != nil { panic(err) }
Must(r) == IF r.k = "err" THEN Panic ELSE r
\* if err == nil { return n }, else the next alternative
Or(r, alternative) == IF r.k = "err" THEN alternative ELSE r
\* the same, from where the first alternative left the lexer
Else(r, F(_)) == IF r.k = "err" THEN F(r) ELSE r
\* runWithCatch and its variants: errors and panics become errors at i
Catch(r, i) == IF r.k \in {"err", "panic"} THEN Err(i) ELSE r
\* defer func() { if err != nil { GobackTo(i) } }
Restore(r, i) == IF r.k = "err" THEN Err(i) ELSE r
\* a result whose error is ignored
Optional(r) == IF r.k = "err" THEN Ok(<<>>, r.i) ELSE r
\* a token behind r
Follow(r, code) == Then(r, LAMBDA x : Then(ScanType(code, x.i), LAMBDA z : Ok(x.n, z.i)))

RECURSIVE Stars(_)
Stars(i) == LET s == ScanType("*", i) IN IF s.k = "ok" THEN Stars(s.i) ELSE i

empty(i) == Must(ScanType(NL, i))

-----------------------------------------------------------------------------
(* Types (types.go, typedef.go, func.go)                                   *)

funcParam(P, i) == Then(Must(ScanType("id", i)), LAMBDA v : Must(P["allTypes", v.i]))

RECURSIVE ParamLoop(_, _)
ParamLoop(P, p) ==
    Or(Follow(p, ")"),
       Then(Must(ScanType(",", p.i)), LAMBDA c :
           Then(funcParam(P, c.i), LAMBDA q : ParamLoop(P, Ok(Append(p.n, q.n), q.i)))))

extFuncParam(P, i) == Then(ScanType("this", i), LAMBDA t : funcParam(P, t.i))

funcParams(P, i) ==
    Then(Must(ScanType("(", i)), LAMBDA l :
        Or(ScanType(")", l.i),
           Then(Or(extFuncParam(P, l.i), funcParam(P, l.i)), LAMBDA p :
               ParamLoop(P, Ok(<<"params", p.n>>, p.i)))))

RECURSIVE TypeArgLoop(_, _)
TypeArgLoop(P, t) ==
    Or(Follow(t, ">"),
       Then(ScanType(",", t.i), LAMBDA c :
           Then(P["allTypes", c.i], LAMBDA u : TypeArgLoop(P, Ok(Append(t.n, u.n), u.i)))))

genericCallParams(P, i) ==
    Restore(Then(ScanType("<", i), LAMBDA l :
                Then(P["allTypes", l.i], LAMBDA t : TypeArgLoop(P, Ok(<<"targs", t.n>>, t.i)))), i)

RECURSIVE FieldLoop(_, _)
FieldLoop(P, f) ==
    Or(Follow(f, "}"),
       LET v == ScanType("id", f.i)
       IN  IF v.k = "ok"
           THEN Then(Must(P["allTypes", v.i]), LAMBDA t : FieldLoop(P, Ok(Append(f.n, t.n), t.i)))
           ELSE Then(empty(f.i), LAMBDA e : FieldLoop(P, Ok(f.n, e.i))))

structType(P, i) ==
    Then(Follow(ScanType("struct", i), "{"), LAMBDA l : FieldLoop(P, Ok(<<"struct">>, l.i)))

RECURSIVE MethodLoop(_, _)
MethodLoop(P, f) ==
    Or(Follow(f, "}"),
       LET v == ScanType("id", f.i)
       IN  IF v.k = "ok"
           THEN Then(funcParams(P, v.i), LAMBDA p :
                    Then(Must(P["allTypes", p.i]), LAMBDA t :
                        Then(empty(t.i), LAMBDA e :
                            MethodLoop(P, Ok(Append(f.n, <<p.n, t.n>>), e.i)))))
           ELSE Then(empty(f.i), LAMBDA e : MethodLoop(P, Ok(f.n, e.i))))

interfaceType(P, i) ==
    Then(Follow(ScanType("interface", i), "{"), LAMBDA l : MethodLoop(P, Ok(<<"interface">>, l.i)))

\* a reserved type, or a name, with its module and type arguments
basicTypes(P, i) ==
    LET s == Scan(i)
        dot == ScanType(".", s.pos)
        name == IF dot.k = "ok" THEN ScanType("id", dot.i) ELSE Ok(<<>>, s.pos)
    IN  Restore(IF s.eos THEN Err(i)
                ELSE IF s.code = "int" THEN Ok(<<"int">>, s.pos)
                ELSE IF s.code # "id" THEN Err(i)
                ELSE Then(name, LAMBDA m :
                         Then(Optional(genericCallParams(P, m.i)), LAMBDA g :
                             Ok(<<"named", g.n>>, g.i))), i)

arrayTypes(P, i) ==
    Restore(Then(ScanType("[", i), LAMBDA l :
                Then(Follow(Optional(ScanType("num", l.i)), "]"), LAMBDA n :
                    Then(P["allTypes", n.i], LAMBDA t : Ok(<<"array", t.n>>, t.i)))), i)

\* the result type may be missing
funcTypes(P, i) ==
    Then(ScanType("func", i), LAMBDA f :
        Then(funcParams(P, f.i), LAMBDA p :
            Then(Optional(P["allTypes", p.i]), LAMBDA t : Ok(<<"functype", p.n, t.n>>, t.i))))

\* Alternatives that fail behind their keyword leave the lexer there.
allTypes(P, i) ==
    Else(structType(P, Stars(i)), LAMBDA st :
        Else(interfaceType(P, st.i), LAMBDA it :
            Or(basicTypes(P, it.i), Or(arrayTypes(P, it.i), funcTypes(P, it.i)))))

-----------------------------------------------------------------------------
(* Expressions (numeric.go, bool.go, parser.go)                            *)

RECURSIVE IndexLoop(_, _)
IndexLoop(P, v) ==
    LET l == ScanType("[", v.i)
    IN  IF l.k # "ok" THEN v
        ELSE Then(Follow(P["allexp", l.i], "]"), LAMBDA e : IndexLoop(P, Ok(<<"index", v.n, e.n>>, e.i)))

varBlock(P, i) == Then(ScanType("id", i), LAMBDA v : IndexLoop(P, v))

RECURSIVE DotLoop(_, _)
DotLoop(P, v) ==
    LET d == ScanType(".", v.i)
    IN  IF d.k # "ok" THEN v
        ELSE Then(varBlock(P, d.i), LAMBDA n : DotLoop(P, Ok(<<".", v.n, n.n>>, n.i)))

varChain(P, i) == Then(varBlock(P, i), LAMBDA v : DotLoop(P, v))

RECURSIVE ArgLoop(_, _)
ArgLoop(P, p) ==
    Or(Follow(p, ")"),
       Then(Must(ScanType(",", p.i)), LAMBDA c :
           Then(P["allexp", c.i], LAMBDA e : ArgLoop(P, Ok(Append(p.n, e.n), e.i)))))

RECURSIVE NextLoop(_, _)
NextLoop(P, f) ==
    LET d == ScanType(".", f.i)
    IN  IF d.k # "ok" THEN f
        ELSE Then(Or(Catch(P["callFunc", d.i], d.i), Must(P["varChain", d.i])), LAMBDA n :
                 NextLoop(P, Ok([f.n EXCEPT ![4] = n.n], n.i)))

callFunc(P, i) ==
    Then(Must(Catch(P["varChain", i], i)), LAMBDA f :
        Then(Optional(genericCallParams(P, f.i)), LAMBDA g :
            Then(Must(ScanType("(", g.i)), LAMBDA l :
                Then(Or(Follow(Ok(<<>>, l.i), ")"),
                        Then(P["allexp", l.i], LAMBDA e : ArgLoop(P, Ok(<<e.n>>, e.i)))), LAMBDA p :
                    NextLoop(P, Ok(<<"call", f.n, p.n, <<>>>>, p.i))))))

RECURSIVE ElementLoop(_, _)
ElementLoop(P, a) ==
    Or(Follow(a, "}"),
       Or(Then(ScanType(NL, a.i), LAMBDA e : ElementLoop(P, Ok(a.n, e.i))),
          Then(P["allexp", a.i], LAMBDA e :
              LET c == ScanType(",", e.i)
              IN  IF c.k = "ok" THEN ElementLoop(P, Ok(Append(a.n, e.n), c.i))
                  ELSE Follow(Ok(Append(a.n, e.n), e.i), "}"))))

arrayInit(P, i) ==
    Then(Follow(arrayTypes(P, i), "{"), LAMBDA t : ElementLoop(P, Ok(<<"arrayinit">>, t.i)))

RECURSIVE InitLoop(_, _)
InitLoop(P, a) ==
    Or(Follow(a, "}"),
       LET v == ScanType("id", a.i)
       IN  IF v.k # "ok" THEN Then(empty(a.i), LAMBDA e : InitLoop(P, Ok(a.n, e.i)))
           ELSE Then(ScanType(":", v.i), LAMBDA c :
                    Then(P["allexp", c.i], LAMBDA e :
                        LET m == ScanType(",", e.i)
                        IN  IF m.k = "ok" THEN InitLoop(P, Ok(Append(a.n, e.n), m.i))
                            ELSE Follow(Ok(Append(a.n, e.n), e.i), "}"))))

structInit(P, i) ==
    Then(Follow(P["allTypes", i], "{"), LAMBDA t : InitLoop(P, Ok(<<"structinit">>, t.i)))

takePtrExp(P, i) ==
    Then(ScanType("&", i), LAMBDA a :
        Then(Or(Catch(arrayInit(P, a.i), a.i),
                Or(Catch(structInit(P, a.i), a.i), Catch(P["varChain", a.i], a.i))), LAMBDA n :
            Ok(<<"ptr", n.n>>, n.i)))

takeValExp(P, i) ==
    LET j == Stars(i)
    IN  Then(Or(Catch(arrayInit(P, j), j),
                Or(Catch(structInit(P, j), j),
                   Or(Catch(P["callFunc", j], j), Catch(P["varChain", j], j)))), LAMBDA n :
            Ok(IF i = j THEN n.n ELSE <<"val", n.n>>, n.i))

strExp(i) == ScanType("str", i)
nilExp(i) == ScanType("nil", i)

number(P, i) ==
    LET s == Scan(i)
    IN  Or(Catch(strExp(i), i),
           Or(Catch(takeValExp(P, i), i),
              IF s.eos THEN Panic
              ELSE IF s.code = "num" THEN Ok(<<"num">>, s.pos)
              ELSE Then(Must(ScanType("(", i)), LAMBDA l : Must(Follow(P["exp", l.i], ")")))))

symbol(P, i) ==
    LET s == Scan(i)
    IN  IF s.eos THEN Panic
        ELSE IF s.code \in {"+", "-"}
             THEN Then(P["number", s.pos], LAMBDA n : Ok(<<s.code, n.n>>, n.i))
             ELSE P["number", i]

RECURSIVE FactorLoop(_, _), AddLoop(_, _), ShiftLoop(_, _)

FactorLoop(P, a) ==
    LET s == Scan(a.i)
    IN  IF s.eos \/ s.code \notin {"*", "/", "%"} THEN a
        ELSE Then(symbol(P, s.pos), LAMBDA b : FactorLoop(P, Ok(<<s.code, a.n, b.n>>, b.i)))

factor(P, i) == Then(symbol(P, i), LAMBDA a : FactorLoop(P, a))

\* mutant: what follows an operator is parsed as a sum of its own
AddLoop_Right(P, a) ==
    LET s == Scan(a.i)
    IN  IF s.eos \/ s.code \notin {"+", "-"} THEN a
        ELSE Then(factor(P, s.pos), LAMBDA b :
                 Then(AddLoop(P, b), LAMBDA c : Ok(<<s.code, a.n, c.n>>, c.i)))

AddLoop(P, a) ==
    LET s == Scan(a.i)
    IN  IF s.eos \/ s.code \notin {"+", "-"} THEN a
        ELSE Then(factor(P, s.pos), LAMBDA b : AddLoop(P, Ok(<<s.code, a.n, b.n>>, b.i)))

addedFactor(P, i) == Then(factor(P, i), LAMBDA a : AddLoop(P, a))

ShiftLoop(P, a) ==
    LET s == Scan(a.i)
    IN  IF s.eos \/ s.code \notin {"<<", ">>"} THEN a
        ELSE Then(addedFactor(P, s.pos), LAMBDA b : ShiftLoop(P, Ok(<<s.code, a.n, b.n>>, b.i)))

exp(P, i) == Then(addedFactor(P, i), LAMBDA a : ShiftLoop(P, a))

boolean(P, i) ==
    LET s == Scan(i)
    IN  Restore(Or(ScanType("true", i), Or(ScanType("false", i),
            Or(Catch(P["exp", i], i), Or(nilExp(i),
               CASE s.eos -> Err(i)
                 [] ~s.eos /\ s.code = "!" ->
                        Then(P["boolean", s.pos], LAMBDA b : Ok(<<"!", b.n>>, b.i))
                 [] ~s.eos /\ s.code = "(" -> Follow(P["boolexp", s.pos], ")")
                 [] OTHER -> Err(i))))), i)

Comparisons == {"==", "!=", ">", "<", ">=", "<="}

RECURSIVE CompareLoop(_, _), BitLoop(_, _)
CompareLoop(P, a) ==
    LET s == Scan(a.i)
    IN  IF s.eos THEN Err(a.i)
        ELSE IF s.code \notin Comparisons THEN a
        ELSE Then(Catch(P["boolean", s.pos], s.pos), LAMBDA b :
                 CompareLoop(P, Ok(<<s.code, a.n, b.n>>, b.i)))

compare(P, i) == Restore(Then(Catch(P["boolean", i], i), LAMBDA a : CompareLoop(P, a)), i)

BitLoop(P, a) ==
    LET s == Scan(a.i)
    IN  IF s.eos \/ s.code \notin {"&", "^"} THEN a
        ELSE Then(compare(P, s.pos), LAMBDA b : BitLoop(P, Ok(<<s.code, a.n, b.n>>, b.i)))

bitOp(P, i) == Restore(Then(compare(P, i), LAMBDA a : BitLoop(P, a)), i)

\* at most one && or ||: its right side is a comparison
boolexp(P, i) ==
    Restore(Then(bitOp(P, i), LAMBDA a :
        LET s == Scan(a.i)
        IN  IF s.eos THEN Err(i)
            ELSE IF s.code \notin {"&&", "||"} THEN a
            ELSE Then(compare(P, s.pos), LAMBDA b : Ok(<<s.code, a.n, b.n>>, b.i))), i)

inlineFunc(P, i) ==
    Then(funcTypes(P, i), LAMBDA t :
        Then(Optional(ScanType("async", t.i)), LAMBDA a :
            Then(Catch(P["statementBlock", a.i], a.i), LAMBDA b : Ok(<<"closure", b.n>>, b.i))))

allexp(P, i) ==
    LET a == ScanType("await", i)
    IN  IF a.k = "ok" THEN Then(P["allexp", a.i], LAMBDA e : Ok(<<"await", e.n>>, e.i))
        ELSE Or(Catch(takePtrExp(P, i), i), Or(Catch(inlineFunc(P, i), i), Must(P["boolexp", i])))

-----------------------------------------------------------------------------
(* Statements (parser.go, func.go)                                         *)

assign(P, i) ==
    Restore(Then(Follow(Catch(P["varChain", Stars(i)], Stars(i)), "="), LAMBDA v :
                Then(P["allexp", v.i], LAMBDA e : Ok(<<"assign", v.n, e.n>>, e.i))), i)

define(P, i) ==
    Restore(Then(ScanType("var", i), LAMBDA v :
                Then(ScanType("id", v.i), LAMBDA d :
                    Then(Must(P["allTypes", d.i]), LAMBDA t :
                        Then(empty(t.i), LAMBDA e : Ok(<<"define", t.n>>, e.i))))), i)

\* var a = e, or a := e
defineAndAssign(P, i) ==
    LET v == ScanType("var", i)
        head == IF v.k = "ok" THEN Follow(ScanType("id", v.i), "=")
                ELSE Follow(ScanType("id", i), ":=")
    IN  Restore(Then(head, LAMBDA d :
                    Then(P["allexp", d.i], LAMBDA e : Ok(<<"defassign", e.n>>, e.i))), i)

breakST(i) ==
    Then(ScanType("break", i), LAMBDA b : Then(empty(b.i), LAMBDA e : Ok(<<"break">>, e.i)))

continueST(i) ==
    Then(ScanType("continue", i), LAMBDA c :
        Then(empty(c.i), LAMBDA e : Ok(<<"continue">>, e.i)))

yield(P, i) ==
    Then(ScanType("yield", i), LAMBDA y :
        Then(Optional(Catch(P["allexp", y.i], y.i)), LAMBDA v :
            Then(empty(v.i), LAMBDA e : Ok(<<"yield", v.n>>, e.i))))

returnST(P, i) ==
    Then(ScanType("return", i), LAMBDA r :
        Or(Then(Catch(empty(r.i), r.i), LAMBDA e : Ok(<<"return">>, e.i)),
           Then(P["allexp", r.i], LAMBDA e : Ok(<<"return", e.n>>, e.i))))

\* else: a failed attempt at another if leaves the lexer where it failed
ifstatement(P, i) ==
    Then(ScanType("if", i), LAMBDA f :
        Then(P["boolexp", f.i], LAMBDA b :
            Then(P["statementBlock", b.i], LAMBDA s :
                LET el == ScanType("else", s.i)
                IN  IF el.k # "ok" THEN Ok(<<"if", b.n, s.n>>, s.i)
                    ELSE Then(Else(P["ifstatement", el.i], LAMBDA x : P["statementBlock", x.i]),
                              LAMBDA t : Ok(<<"ifelse", b.n, s.n, t.n>>, t.i)))))

\* the errors of the three parts of the header are ignored
forloop(P, i) ==
    Then(ScanType("for", i), LAMBDA f :
        Then(Optional(Or(Catch(defineAndAssign(P, f.i), f.i), Catch(assign(P, f.i), f.i))), LAMBDA d :
            LET semi == ScanType(";", d.i)
            IN  IF semi.k # "ok"
                THEN Then(P["statementBlock", d.i], LAMBDA s : Ok(<<"for", d.n, s.n>>, s.i))
                ELSE Then(Follow(Optional(P["boolexp", semi.i]), ";"), LAMBDA b :
                         Then(Optional(assign(P, b.i)), LAMBDA a :
                             Then(P["statementBlock", a.i], LAMBDA s :
                                 Ok(<<"for", d.n, b.n, a.n, s.n>>, s.i))))))

\* a call, an empty line, or a line that is no statement
CallOrEmpty(P, i) ==
    LET c == Scan(i).code
    IN  CASE c = "id" -> Then(P["callFunc", i], LAMBDA f : Then(empty(f.i), LAMBDA e : Ok(f.n, e.i)))
          [] c = NL -> Then(empty(i), LAMBDA e : Ok(<<"empty">>, e.i))
          [] OTHER -> SkipLn(i)

Alternatives(P, i) ==
    LET w == ScanType("await", i)
    IN  IF w.k = "ok" THEN Then(P["allexp", w.i], LAMBDA e : Ok(<<"await", e.n>>, e.i))
        ELSE Or(Catch(continueST(i), i), Or(Catch(breakST(i), i), Or(Catch(yield(P, i), i),
             Or(Catch(forloop(P, i), i), Or(Catch(defineAndAssign(P, i), i),
             Or(Catch(P["ifstatement", i], i), Or(Catch(assign(P, i), i), Or(Catch(define(P, i), i),
             Or(Catch(returnST(P, i), i), CallOrEmpty(P, i))))))))))

\* mutant: statement does not recover
statement_NoRecover(P, i) == Alternatives(P, i)

Recover(r, i) == IF r.k = "panic" THEN SkipLn(i) ELSE r

\* a panic that reaches statement makes the whole line an error node
statement(P, i) == Recover(Alternatives(P, i), i)

RECURSIVE StatementLoop(_, _)
StatementLoop(P, l) ==
    Then(statement(P, l.i), LAMBDA s :
        LET n == Ok(Append(l.n, s.n), s.i)
        IN  IF Scan(n.i).code = "}" THEN n ELSE StatementLoop(P, n))

statementList(P, i) == StatementLoop(P, Ok(<<>>, i))

statementBlock(P, i) ==
    Then(ScanType("{", i), LAMBDA l : Follow(statementList(P, l.i), "}"))

-----------------------------------------------------------------------------
(* Files (package.go, typedef.go, func.go, parser.go)                      *)

RECURSIVE GenericLoop(_)
GenericLoop(g) ==
    Or(Follow(g, ">"),
       Then(ScanType(",", g.i), LAMBDA c :
           Then(ScanType("id", c.i), LAMBDA t : GenericLoop(Ok(Append(g.n, t.n), t.i)))))

genericParams(i) ==
    Restore(Then(ScanType("<", i), LAMBDA l :
                Then(ScanType("id", l.i), LAMBDA t : GenericLoop(Ok(<<t.n>>, t.i)))), i)

typeDef(P, i) ==
    Then(ScanType("type", i), LAMBDA k :
        Then(ScanType("id", k.i), LAMBDA d :
            Then(Optional(genericParams(d.i)), LAMBDA g :
                Then(P["allTypes", g.i], LAMBDA t : Ok(<<"type", g.n, t.n>>, t.i)))))

\* a function without a body is accepted
function(P, i) ==
    Then(Must(ScanType("func", i)), LAMBDA k :
        Then(Must(ScanType("id", k.i)), LAMBDA d :
            Then(Optional(genericParams(d.i)), LAMBDA g :
                Then(funcParams(P, g.i), LAMBDA p :
                    Then(Must(P["allTypes", p.i]), LAMBDA t :
                        Then(Optional(ScanType("async", t.i)), LAMBDA a :
                            Then(Optional(P["statementBlock", a.i]), LAMBDA b :
                                Ok(<<"func", p.n, t.n, b.n>>, b.i))))))))

pkgDeclare(i) ==
    Then(Follow(ScanType("package", i), "id"), LAMBDA p :
        Then(Catch(empty(p.i), p.i), LAMBDA e : Ok(<<"package">>, e.i)))

RECURSIVE ImportLoop(_)
ImportLoop(m) ==
    Or(Follow(m, ")"),
       Or(Then(ScanType(NL, m.i), LAMBDA e : ImportLoop(Ok(m.n, e.i))),
          Then(ScanType("str", m.i), LAMBDA s :
              Then(Optional(ScanType("id", s.i)), LAMBDA v :
                  ImportLoop(Ok(Append(m.n, v.n), v.i))))))

\* a string, or a list of strings with optional names
importStatement(i) ==
    Then(ScanType("import", i), LAMBDA k :
        Or(Then(ScanType("str", k.i), LAMBDA s : Ok(<<<<>>>>, s.i)),
           Then(ScanType("(", k.i), LAMBDA l : ImportLoop(Ok(<<>>, l.i)))))

RECURSIVE EmptyLines(_)
EmptyLines(i) == LET e == ScanType(NL, i) IN IF e.k = "ok" THEN EmptyLines(e.i) ELSE i

RECURSIVE DeclarationLoop(_, _)
DeclarationLoop(P, l) ==
    LET s == Scan(l.i)
    IN  IF s.code = NL THEN DeclarationLoop(P, Ok(l.n, s.pos))
        ELSE IF s.eos THEN l
        ELSE Then(Or(Catch(typeDef(P, l.i), l.i), Or(Catch(define(P, l.i), l.i),
                  Or(Catch(defineAndAssign(P, l.i), l.i), function(P, l.i)))), LAMBDA d :
                 DeclarationLoop(P, Ok(Append(l.n, d.n), d.i)))

\* ModuleLoader has the loading of the imports; an import that cannot be
\* parsed is ignored, as far as the lexer came
program(P, i) ==
    Then(Must(pkgDeclare(i)), LAMBDA p :
        Then(Optional(importStatement(EmptyLines(p.i))), LAMBDA m :
            DeclarationLoop(P, Ok(<<m.n>>, m.i))))

-----------------------------------------------------------------------------
(* The parser: the methods that call each other, at a position.            *)

Methods == {"allTypes", "varChain", "callFunc", "number", "exp", "boolean", "boolexp",
            "allexp", "statementBlock", "ifstatement"}

parse[m \in Methods, i \in Nat] ==
    CASE m = "allTypes" -> allTypes(parse, i)
      [] m = "varChain" -> varChain(parse, i)
      [] m = "callFunc" -> callFunc(parse, i)
      [] m = "number" -> number(parse, i)
      [] m = "exp" -> exp(parse, i)
      [] m = "boolean" -> boolean(parse, i)
      [] m = "boolexp" -> boolexp(parse, i)
      [] m = "allexp" -> allexp(parse, i)
      [] m = "statementBlock" -> statementBlock(parse, i)
      [] m = "ifstatement" -> ifstatement(parse, i)
=============================================================================
