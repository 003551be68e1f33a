-------------------------- MODULE MCModuleLoader --------------------------
\* Import graphs for TLC.
EXTENDS ModuleLoader, TLC

CONSTANTS runtime, main, a, b, c, rt, m1, m2, a1, b1, c1,
          t1, t2, t3, aa, cc, nowhere

\* ParseDir loads the runtime before main.
MCRoots == <<runtime, main>>

MCMod == [f \in {rt, m1, m2, a1, b1, c1} |->
    CASE f = rt -> runtime [] f \in {m1, m2} -> main
      [] f = a1 -> a [] f = b1 -> b [] OTHER -> c]

\* Two files of main import a and b, which share c; everybody imports runtime.
Diamond == [f \in {rt, m1, m2, a1, b1, c1} |->
    CASE f = rt -> {} [] f = m1 -> {a, runtime} [] f = m2 -> {b}
      [] f = a1 -> {c} [] f = b1 -> {c} [] OTHER -> {runtime}]

\* As Diamond, but a and b import each other.
SplitLoop == [f \in {rt, m1, m2, a1, b1, c1} |->
    CASE f = rt -> {} [] f = m1 -> {a, runtime} [] f = m2 -> {b}
      [] f = a1 -> {b} [] f = b1 -> {a} [] OTHER -> {runtime}]

MCHome == [t \in {t1, t2, t3, aa, cc, nowhere} |->
    CASE t = aa -> a [] t = cc -> c [] OTHER -> main]

MCTypesIn == [f \in {rt, m1, m2, a1, b1, c1} |->
    CASE f = m1 -> <<t1, t3>> [] f = m2 -> <<t2>> [] f = a1 -> <<aa>> [] f = c1 -> <<cc>> [] OTHER -> <<>>]

\* a chain through both files of main that ends in module a; two types that
\* need each other; a name that is defined nowhere
Names3(x, y, z) == [t \in {t1, t2, t3, aa, cc, nowhere} |->
    CASE t = t1 -> x [] t = t2 -> y [] t = t3 -> z [] t = aa -> {aa, cc} [] OTHER -> {}]
Programs == {Names3({t2}, {t3}, {t3, aa}), Names3({t2}, {t1}, {t1}), Names3({}, {nowhere}, {t1})}
OneProgram == {Names3({t2}, {t3}, {t3, aa})}
=============================================================================
