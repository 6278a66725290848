\* Form on bodies the analyzer accepts: does it ever panic?
CONSTANTS
    MaxStmts = 3
    MaxDepth = 2
    AllowBareBlocks = FALSE
SPECIFICATION Spec
INVARIANTS
    FormNeverPanics
