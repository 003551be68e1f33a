\* Lines over eight alphabets, blocks of up to three extensions.
SPECIFICATION Spec
CONSTANTS
    Alphabets <- MCAlphabets
    MaxBlock = 3
    NoAlphabet = NoAlphabet
INVARIANTS
    ExpGrammar
    ErrorContained
    BlockParsed
CHECK_DEADLOCK FALSE
