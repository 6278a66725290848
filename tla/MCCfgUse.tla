------------------------------ MODULE MCCfgUse -------------------------------
(***************************************************************************)
(* Model-checking instance of CfgUse:  the CFG of every body of up to four *)
(* statement nodes nested up to two deep, so that an if/else join, an if  *)
(* inside an if/else, a loop with and without break, and code after a     *)
(* loop all occur.  Twelve frames are more than the longest walk of an     *)
(* acyclic CFG of such a body.                                             *)
(***************************************************************************)
EXTENDS CfgUse

\* statement nodes per function body
MCMaxStmts == 4
\* nesting depth of compound statements
MCMaxDepth == 2
\* emitBlock frames before the stack overflows
MCStackLimit == 12

=============================================================================
