SPECIFICATION Spec
CONSTANTS
    MaxSize = 4
    MaxDepth = 4
    Forms <- MCForms
INVARIANT
    FlowFaithful
