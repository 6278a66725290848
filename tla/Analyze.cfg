\* The five input spaces of MCAnalyzer; the constants below
\* are the ones the actions and the reference read (Names, Funcs, MaxParams,
\* Shapes); the others only shape the inputs, given per space in MCInit.
CONSTANTS
    Names = {"x", "y"}
    Funcs = {"f"}
    VarTypes = {"int", "bool", "void"}
    TypedefNames = {"t"}
    StructNames = {"S"}
    RetTypes = {"int", "void"}
    ExprOps = {"ADD", "LT", "EQ", "NEG", "NOT"}
    StmtKinds <- MCScopeStmts
    MaxStmts = 2
    InnerStmts = 1
    MaxDepth = 1
    MaxParams = 1
    Shapes <- MCOneDef
INIT MCInit
NEXT Next
INVARIANT ScopeRule
INVARIANT LoopRule
INVARIANT ReturnRule
INVARIANT AssignRule
INVARIANT OperatorRule
INVARIANT FieldRule
