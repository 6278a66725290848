\* The users of the CFG of every body of up to 4 statements nested 2 deep:
\* Connect is sound, and complete from the entry; the emitBlock walk emits
\* each statement once per path to its block, returns only on loop-free
\* CFGs, and on those it always ends.
CONSTANTS
    MaxStmts <- MCMaxStmts
    MaxDepth <- MCMaxDepth
    AllowBareBlocks = FALSE
    StackLimit <- MCStackLimit
SPECIFICATION Spec
INVARIANTS
    ConnectSound
    ConnectFromEntryComplete
    EmitFollowsPaths
    DoneOnlyAcyclic
PROPERTIES
    EmitEnds
