\* Every run of the CFG of every body without nested bare blocks is a run of
\* its structured meaning, whenever Form does not panic; and wherever control
\* is in the CFG, the same events can come next as in the structured meaning
\* of the body: Form loses no path.
CONSTANTS
    MaxStmts <- MCMaxStmts
    MaxDepth <- MCMaxDepth
    AllowBareBlocks = FALSE
SPECIFICATION Spec
INVARIANTS
    TypeOK
    SameNextEvents
PROPERTIES
    CfgImplementsStructured
