\* Precedence climbing against the operator table, for every operator but
\* "?:" and ".", and casts; trees of up to two operators also get a comment
\* token at every position, which Peek must skip wherever the parser looks.
CONSTANTS
    Names <- MCNames
    BinToks <- MCBinToks
    UnToks <- MCUnToks
    Postfix <- MCPostfix
    Casts = FALSE
    CommentOps = 2
    MaxOps = 3
SPECIFICATION Spec
INVARIANT SameTree
