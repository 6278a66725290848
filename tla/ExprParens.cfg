\* Parenthesised subexpressions, (a + b) * c.
CONSTANTS
    Names <- MCNames
    BinToks = {"+", "*"}
    UnToks = {}
    Postfix = {}
    Casts = FALSE
    CommentOps = 0
    MaxOps = 2
SPECIFICATION Spec
INVARIANT NoSpuriousError
