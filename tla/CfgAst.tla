------------------------------- MODULE CfgAst -------------------------------
(***************************************************************************)
(* Statement trees of a C0 function body, as the statement parser          *)
(* (src/parse/type.go, Parser.Stmt) produces them, abstracted to their     *)
(* control structure.  Expressions, declarations, asserts and every other  *)
(* non-branching statement are one kind, "expr": the CFG builder treats    *)
(* them all alike (the default case of form).                              *)
(*                                                                         *)
(* A statement is a record [k, id, body, alt]:                             *)
(*   k    : "expr" | "return" | "break" | "continue" | "block"             *)
(*          | "if" | "ifelse" | "while" | "for"                            *)
(*   id   : the node's identity, its path from the function body           *)
(*   body : the then-branch, loop body or block contents                   *)
(*   alt  : the else-branch (kind "ifelse" only; may be empty)             *)
(* A branch or loop body that is a single statement is the one-element     *)
(* list extractbody makes of it, so every body is a sequence.  A "for"     *)
(* node has two extra simple statements, its init (id \o <<3>>) and its    *)
(* step (id \o <<4>>).                                                     *)
(***************************************************************************)
EXTENDS Naturals, Sequences

CONSTANTS
    MaxStmts,        \* bound on the statement nodes of one function body
    MaxDepth,        \* bound on the nesting depth of compound statements
    AllowBareBlocks  \* whether a nested { ... } block may be generated

ASSUME MaxStmts \in Nat /\ MaxDepth \in Nat /\ AllowBareBlocks \in BOOLEAN

Leaves == {"expr", "return", "break", "continue"}
Compounds == {"if", "ifelse", "while", "for", "block"}
Loops == {"while", "for"}

Stmt(k, id, body, alt) == [k |-> k, id |-> id, body |-> body, alt |-> alt]

InitId(s) == s.id \o <<3>>
StepId(s) == s.id \o <<4>>

RECURSIVE SizeOf(_), SizeSeq(_)
\* number of statement nodes in a statement, and in a list of them
SizeOf(s) == 1 + SizeSeq(s.body) + SizeSeq(s.alt)
SizeSeq(l) == IF l = <<>> THEN 0 ELSE SizeOf(Head(l)) + SizeSeq(Tail(l))

(***************************************************************************)
(* The bounded input space.  StmtsAt(id, n, d, inLoop) is every statement  *)
(* at path id with at most n nodes and nesting depth at most d; ListsAt    *)
(* is every list of them starting at index i of prefix pre.  break and     *)
(* continue appear only inside a loop: the analyzer rejects them           *)
(* elsewhere (checkBreak / checkContinue), so these are the bodies that    *)
(* reach the CFG builder in a program that analyses cleanly.              *)
(***************************************************************************)
RECURSIVE StmtsAt(_, _, _, _), ListsAt(_, _, _, _, _)
StmtsAt(id, n, d, inLoop) ==
    LET leaf == {"expr", "return"} \cup
                (IF inLoop THEN {"break", "continue"} ELSE {})
        sub(j, lp) == ListsAt(id \o <<j>>, 1, n - 1, d - 1, lp)
        firsts == sub(1, inLoop)
        seconds == sub(2, inLoop)
    IN  {Stmt(k, id, <<>>, <<>>) : k \in leaf}
        \cup
        (IF d = 0 THEN {} ELSE
           {Stmt("if", id, b, <<>>) : b \in firsts}
           \cup {Stmt(k, id, b, <<>>) : k \in Loops, b \in sub(1, TRUE)}
           \cup (IF AllowBareBlocks
                   THEN {Stmt("block", id, b, <<>>) : b \in firsts}
                   ELSE {})
           \cup UNION {{Stmt("ifelse", id, b, a) :
                          a \in {x \in seconds : SizeSeq(x) + SizeSeq(b) < n}}
                        : b \in firsts})
ListsAt(pre, i, n, d, inLoop) ==
    IF n = 0 THEN {<<>>}
    ELSE {<<>>} \cup
         UNION {{<<s>> \o r : r \in ListsAt(pre, i + 1, n - SizeOf(s), d, inLoop)}
                : s \in StmtsAt(pre \o <<i>>, n, d, inLoop)}

\* function bodies of at most MaxStmts nodes
Programs == ListsAt(<<>>, 1, MaxStmts, MaxDepth, FALSE)

=============================================================================
