------------------------------ MODULE MCCfgExec -----------------------------
(***************************************************************************)
(* Model-checking instance of CfgExec.  Four statement nodes nested two    *)
(* deep are enough for every construct to appear inside every other one    *)
(* once: a loop inside a loop followed by break, an if/else in a loop body *)
(* with a continue in one branch, a for whose body returns, dead code      *)
(* after break.                                                            *)
(***************************************************************************)
EXTENDS CfgExec

\* statement nodes per function body
MCMaxStmts == 4
\* nesting depth of compound statements
MCMaxDepth == 3

=============================================================================
