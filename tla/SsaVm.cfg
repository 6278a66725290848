\* Straight-line bodies with declarations, plain assignments, + and *: the
\* VM returns what the body means, and the IR is in single-definition form.
CONSTANTS
    Names <- MCNames
    Nums <- MCNums
    BinOps = {"ADD", "MUL"}
    StmtKinds = {"assign"}
    MaxStmts = 2
    Width = 8
SPECIFICATION Spec
INVARIANTS
    TypeOK
    VmComputesBody
    SingleDefinition
