------------------------------ MODULE MCParser ------------------------------
EXTENDS SourceText

Line(letters, max) == [letters |-> letters, max |-> max]

\* Each alphabet has the letters that one part of the grammar tells apart.
MCAlphabets == {
    Line({"a", "-", "*", "(", ")"}, 6),                 \* arithmetic, pointers, calls
    Line({"a", "!", "&", "<", "="}, 5),                 \* logic, comparisons, shifts
    Line({"a", "&"}, 7),                                \* connectives, repeated
    Line({"a", "(", ")", ","}, 6),                      \* arguments
    Line({"a", "1", "+", "%", "nil", "s", "^"}, 4),     \* values
    Line({"a", ":", "=", "var", "int", "*", "await"}, 4),
    Line({"a", "for", "if", ";", "=", "else"}, 4),
    Line({"a", "func", "(", ")", "return", "yield", "break", "continue"}, 4)}
=============================================================================
