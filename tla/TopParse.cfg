\* Parse of a program and a header it may use, use cycles and a typedef
\* left open at the end of a file included: the typedef tables #use
\* merges, the propagation of inner errors and the progress of Parse's loop.
CONSTANTS
    Files <- MCFiles
    Root = "main"
    Missing = "nofile"
    Decls <- MCDeclsOpen
    MaxItems = 2
    MaxStack = 3
    AllowCycles = TRUE
SPECIFICATION Spec
INVARIANTS
    TypedefsMerged
    ErrorsPropagate
    ParseAdvances
