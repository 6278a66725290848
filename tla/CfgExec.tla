------------------------------- MODULE CfgExec ------------------------------
(***************************************************************************)
(* A function body is turned into a CFG by Form, and the CFG is then run:  *)
(* control sits at statement i of block b, executes the block's            *)
(* statements in order and then follows one outgoing branch.  A branch of  *)
(* kind IF*/WHILE*/FOR* is the outcome of its node's condition (an        *)
(* observable event); an ALWAYS branch is a silent jump.                   *)
(*                                                                         *)
(* The CFG implements the structured meaning of the body (StructuredExec)  *)
(* if every run of it is a run of the body.  ak is a history variable: the *)
(* abstract continuation that the events emitted so far lead to.           *)
(***************************************************************************)
EXTENDS CfgForm

VARIABLES
    body,   \* the function body handed to Form
    phase,  \* "build" before Form, "run" after it, "panicked" if it panicked
    g,      \* the builder state: the package globals and every block
    pos,    \* [b |-> block, i |-> index of the next statement]
    ev,     \* the last event emitted, with its parity bit
    ak      \* history: the abstract continuation after the events so far

vars == <<body, phase, g, pos, ev, ak>>

Abs == INSTANCE StructuredExec WITH prog <- body, k <- ak, ev <- ev

Block == g.blocks[pos.b]

\* the event a branch kind stands for; ALWAYS stands for none
BranchEv(br) ==
    LET d == g.branches[br]
    IN  Abs!DecEv(d.node, d.how \in {"IFTRUE", "WHILETRUE", "FORTRUE"})

RECURSIVE CfgNext(_, _)
\* the events that can come next from statement i of block b
CfgNext(b, i) ==
    IF i <= Len(g.blocks[b].stmts)
      THEN {Abs!StmtEv(g.blocks[b].stmts[i])}
      ELSE UNION {IF g.branches[br].how = "ALWAYS"
                    THEN CfgNext(g.branches[br].to, 1)
                    ELSE {BranchEv(br)}
                  : br \in {g.blocks[b].succs[j] : j \in 1..Len(g.blocks[b].succs)}}

Init == /\ body \in Programs
        /\ phase = "build"
        /\ g = G0
        /\ pos = [b |-> EntryId, i |-> 1]
        /\ ev = [e |-> Abs!NoEvent, p |-> 0]
        /\ ak = Abs!Normalize(Abs!Items(body))

\* cfg.Form on the function: build every block, or panic
FormCfg == /\ phase = "build"
           /\ LET r == Form(g, body)
              IN  /\ g' = r
                  /\ phase' = IF r.panic THEN "panicked" ELSE "run"
           /\ UNCHANGED <<body, pos, ev, ak>>

\* execute the next statement of the current block
ExecStmt == /\ phase = "run"
            /\ pos.i <= Len(Block.stmts)
            /\ LET e == Abs!StmtEv(Block.stmts[pos.i])
               IN  /\ ev' = Abs!Emit(e)
                   /\ ak' = Abs!After(ak, e)
            /\ pos' = [pos EXCEPT !.i = @ + 1]
            /\ UNCHANGED <<body, phase, g>>

\* at the end of the block, follow one outgoing branch
TakeBranch == /\ phase = "run"
              /\ pos.i > Len(Block.stmts)
              /\ \E j \in 1..Len(Block.succs) :
                   LET br == Block.succs[j]
                   IN  /\ pos' = [b |-> g.branches[br].to, i |-> 1]
                       /\ IF g.branches[br].how = "ALWAYS"
                            THEN UNCHANGED <<ev, ak>>
                            ELSE /\ ev' = Abs!Emit(BranchEv(br))
                                 /\ ak' = Abs!After(ak, BranchEv(br))
              /\ UNCHANGED <<body, phase, g>>

\* the function has returned (EXIT), or the builder panicked
Done == /\ \/ phase = "panicked"
           \/ phase = "run" /\ pos.b = ExitId /\ pos.i > Len(Block.stmts)
        /\ UNCHANGED vars

Next == FormCfg \/ ExecStmt \/ TakeBranch \/ Done

Spec == Init /\ [][Next]_vars

-----------------------------------------------------------------------------
TypeOK ==
    /\ phase \in {"build", "run", "panicked"}
    /\ pos.b \in DOMAIN g.blocks /\ pos.i \in Nat \ {0}
    /\ ev.p \in {0, 1}
    /\ \A br \in DOMAIN g.branches :
          /\ g.branches[br].how \in Kinds
          /\ {g.branches[br].from, g.branches[br].to} \subseteq DOMAIN g.blocks

(***************************************************************************)
(* Every run of the CFG built by Form is a run of the structured program:  *)
(* statements execute, and conditions are decided, in an order the        *)
(* if/while/for/break/continue/return structure allows.  This is the      *)
(* whole of form/newif/newloop's edge wiring at once: a branch to the      *)
(* wrong block, of the wrong kind, or a statement in the wrong block       *)
(* breaks it.                                                              *)
(***************************************************************************)
CfgImplementsStructured == Abs!Spec

(***************************************************************************)
(* No behaviour is lost either: wherever control is in the CFG, the events *)
(* that can come next are exactly those the structured program allows      *)
(* next.  With the refinement this makes the CFG trace-equivalent to the  *)
(* body; in particular control reaches EXIT exactly when the body is done. *)
(***************************************************************************)
SameNextEvents ==
    phase = "run" => CfgNext(pos.b, pos.i) = Abs!NextEvents(ak)

(***************************************************************************)
(* Form never panics on a body the analyzer accepts (break and continue    *)
(* only inside loops).  The code's own comment calls the panics on break   *)
(* and continue "missing loop params".                                     *)
(***************************************************************************)
FormNeverPanics == phase # "panicked"

=============================================================================
