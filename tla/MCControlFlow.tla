--------------------------- MODULE MCControlFlow ---------------------------
\* Small functions for TLC.
EXTENDS ControlFlow

\* every header the parser takes
MCAllForms == SUBSET {"def", "cond", "step"}

\* for i := 0; i < n; i = i + 1 {...}, for i := 0; ; i = i + 1 {...},
\* for ; i < n; {...} and for {...}
MCForms == {{"def", "cond", "step"}, {"def", "step"}, {"cond"}, {}}
=============================================================================
