\* Expected violation: f declared, then defined with the same signature, is
\* reported as shadowing a function.
CONSTANTS
    Names = {"x"}
    Funcs = {"f"}
    VarTypes = {"int"}
    TypedefNames = {}
    StructNames = {}
    RetTypes = {"int", "void"}
    ExprOps = {}
    StmtKinds = {"return"}
    MaxStmts = 1
    InnerStmts = 0
    MaxDepth = 0
    MaxParams = 0
    Shapes <- MCDeclDef
SPECIFICATION Spec
INVARIANT PrototypeAccepted
