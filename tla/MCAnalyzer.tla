----------------------------- MODULE MCAnalyzer ------------------------------
EXTENDS Analyzer

\* one function f
MCOneDef == {<<[k |-> "def", name |-> "f"]>>}
\* a declaration of f, then its definition
MCDeclDef == {<<[k |-> "decl", name |-> "f"], [k |-> "def", name |-> "f"]>>}

MCScopeStmts == {"decl", "assign", "return", "break", "continue", "if", "while", "block"}

\* Five input spaces checked in one run.  Their union under one set of
\* constants is too large to enumerate; each is the product of small sets.
\* The scope space: every statement kind, one level of nesting, one type.
ScopeInputs == INSTANCE Analyzer
               WITH Names <- {"x"}, VarTypes <- {"int"}, RetTypes <- {"int", "void"}, ExprOps <- {},
                    StmtKinds <- MCScopeStmts, MaxStmts <- 2, InnerStmts <- 1, MaxDepth <- 1

\* The type space: declarations and assignments over three types and five
\* operators.
TypeInputs == INSTANCE Analyzer
              WITH Names <- {"x"}, VarTypes <- {"int", "bool", "void"}, RetTypes <- {"int"},
                   ExprOps <- {"ADD", "LT", "EQ", "NEG", "NOT"},
                   StmtKinds <- {"decl", "assign"}, MaxStmts <- 2, InnerStmts <- 0, MaxDepth <- 0

\* The loop space: for loops with declarations in their header, and
\* the jumps, declarations and returns around and inside them.
ForInputs == INSTANCE Analyzer
             WITH Names <- {"x"}, VarTypes <- {"int"}, RetTypes <- {"int"}, ExprOps <- {},
                  StmtKinds <- {"for", "decl", "break", "continue", "return"},
                  MaxStmts <- 2, InnerStmts <- 1, MaxDepth <- 1

\* The type-name space: up to MCTypeItemsMax typedef, struct and struct
\* forward items in any order before f, whose body declares one variable;
\* every declaration names int, void, the typedef t or the struct S.  With
\* three items, struct S; typedef struct S t; struct S {...}; and t x; in
\* f, the typedef keeps the forward type it captured (typebuild.go:55):
\* TypeNameRule and AssignRule are violated, so the analyze run checks
\* the rules that hold here on at most two items.
MCTypeItemsMax == 2
MCTypeItems == {[k |-> "typedef", name |-> "t"], [k |-> "struct", name |-> "S"],
                [k |-> "fwd", name |-> "S"]}
MCTypeShapes == {s \o <<[k |-> "def", name |-> "f"]>> :
                   s \in UNION {[1..n -> MCTypeItems] : n \in 0..MCTypeItemsMax}}

TypeNameInputs == INSTANCE Analyzer
                  WITH Names <- {"x"}, VarTypes <- {"int", "void", "t", "S"}, RetTypes <- {"int"}, ExprOps <- {},
                       StmtKinds <- {"decl"}, MaxStmts <- 1, InnerStmts <- 0, MaxDepth <- 0

\* The field space: f alone, or after struct S { ty m; } or struct S;,
\* declaring up to two variables x and y of int, bool or S, initialised
\* with a variable, a literal or a field access y.m.
MCFieldShapes == {<<[k |-> "def", name |-> "f"]>>,
                  <<[k |-> "struct", name |-> "S"], [k |-> "def", name |-> "f"]>>,
                  <<[k |-> "fwd", name |-> "S"], [k |-> "def", name |-> "f"]>>}

FieldInputs == INSTANCE Analyzer
               WITH VarTypes <- {"int", "bool", "S"}, RetTypes <- {"int"}, ExprOps <- {"DOT"},
                    StmtKinds <- {"decl"}, MaxStmts <- 2, InnerStmts <- 0, MaxDepth <- 0

MCInit == /\ \/ \E sh \in Shapes : \/ prog \in ScopeInputs!Programs(sh)
                                 \/ prog \in TypeInputs!Programs(sh)
                                 \/ prog \in ForInputs!Programs(sh)
             \/ \E sh \in MCTypeShapes : prog \in TypeNameInputs!Programs(sh)
             \/ \E sh \in MCFieldShapes : prog \in FieldInputs!Programs(sh)
          /\ next = 1
          /\ st = A0
====
