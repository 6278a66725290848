\* Expected violation: a ?: condition of an if has no node type, so checkCond panics.
CONSTANTS
    Names = {}
    Funcs = {"f"}
    VarTypes = {"int"}
    TypedefNames = {}
    StructNames = {}
    RetTypes = {"void"}
    ExprOps = {"COND"}
    StmtKinds = {"if", "while"}
    MaxStmts = 1
    InnerStmts = 0
    MaxDepth = 1
    MaxParams = 0
    Shapes <- MCOneDef
SPECIFICATION Spec
INVARIANT NeverPanics
