SPECIFICATION Spec
CONSTANTS
    MaxSize = 3
    MaxDepth = 3
    Forms <- MCAllForms
INVARIANT
    AsSource
