------------------------------- MODULE SsaEmit ------------------------------
(***************************************************************************)
(* The block walk of ssa.New (src/ssa/build.go, build and emitBlock) over  *)
(* the CFG that cfg.Form built for a function body.                        *)
(*                                                                         *)
(* emitBlock is recursive: it emits the statements of a block, then calls  *)
(* itself on the target of every successor branch in order, with no memo  *)
(* of the blocks already emitted.  The Go call stack is the variable      *)
(* stack, one frame [b, i] per active call: b is the block and i the index *)
(* of the next successor to walk.  The IR is abstracted to the node ids of *)
(* the statements emitNode was called on; what each statement emits is    *)
(* the subject of SsaBuild.                                                *)
(*                                                                         *)
(* Two ends other than a return from build: emitNode panics on a node it  *)
(* does not handle (break, continue and nested blocks are stored in basic  *)
(* blocks by form), and the goroutine's stack overflows, which Go makes a  *)
(* fatal error.  The stack limit is the constant StackLimit, far below the *)
(* real limit but above the depth of any walk of an acyclic CFG of the     *)
(* bodies checked (EmitEnds below fails if it is not).                     *)
(***************************************************************************)
EXTENDS CfgForm, Integers, Sequences, SequencesExt

CONSTANT StackLimit   \* emitBlock frames before the stack overflows

VARIABLES
    body,     \* the function body given to cfg.Form
    g,        \* the builder state after Form: the CFG
    stack,    \* the emitBlock calls in progress, innermost last
    emitted,  \* node ids of the statements emitNode was called on, in order
    phase     \* "emitting", "done", "panicked" or "overflow"

vars == <<body, g, stack, emitted, phase>>

RECURSIVE NodesOf(_)
\* every statement node of a list, nested ones included, as [id, k]
NodesOf(l) ==
    IF l = <<>> THEN {}
    ELSE LET s == Head(l)
         IN  {[id |-> s.id, k |-> s.k]}
             \cup (IF s.k = "for"
                     THEN {[id |-> InitId(s), k |-> "expr"], [id |-> StepId(s), k |-> "expr"]}
                     ELSE {})
             \cup NodesOf(s.body) \cup NodesOf(s.alt) \cup NodesOf(Tail(l))

\* emitNode handles assignments, operators and returns; any other node
\* panics ("XXX unhandled node")
Unhandled(x) == \E n \in NodesOf(body) : n.id = x /\ n.k \in {"break", "continue", "block"}

\* mutant: the successor loop starts one branch late
FrameSkipFirst(b) == [b |-> b, i |-> 2]

\* the frame of an emitBlock call on block b, before its successor loop
Frame(b) == [b |-> b, i |-> 1]

Succs(b) == g.blocks[b].succs

\* mutant: the statement loop starts at the second statement
EmitStmtsFrom2(b) ==
    LET st == g.blocks[b].stmts
        bad == {j \in 1..Len(st) : Unhandled(st[j])}
        upto == IF bad = {} THEN Len(st) ELSE CHOOSE j \in bad : \A k \in bad : j <= k
    IN  /\ emitted' = emitted \o SubSeq(st, 2, upto)
        /\ phase' = IF bad = {} THEN "emitting" ELSE "panicked"

\* the first loop of emitBlock: emitNode on each statement of block b, in
\* order, up to and including the first one that panics
EmitStmts(b) ==
    LET st == g.blocks[b].stmts
        bad == {j \in 1..Len(st) : Unhandled(st[j])}
        upto == IF bad = {} THEN Len(st) ELSE CHOOSE j \in bad : \A k \in bad : j <= k
    IN  /\ emitted' = emitted \o SubSeq(st, 1, upto)
        /\ phase' = IF bad = {} THEN "emitting" ELSE "panicked"

\* build: the entry label, then emitBlock(cfg.First()); Form did not panic
Init == /\ body \in Programs
        /\ g = Form(G0, body)
        /\ ~g.panic
        /\ stack = <<Frame(EntryId)>>
        /\ emitted = g.blocks[EntryId].stmts
        /\ phase = "emitting"

Top == stack[Len(stack)]

\* mutant: the successor index is not advanced, as if the loop re-read the
\* first successor
emitSuccNoAdvance(f) == f

\* the successor loop moves on to the next branch
emitSucc(f) == [f EXCEPT !.i = @ + 1]

\* emitBlock(succ.To) for the next successor: a new frame, whose first loop
\* runs at once; with StackLimit frames active the call overflows
EmitCall == /\ phase = "emitting"
            /\ Top.i <= Len(Succs(Top.b))
            /\ LET to == g.branches[Succs(Top.b)[Top.i]].to
               IN  IF Len(stack) = StackLimit
                     THEN /\ phase' = "overflow"
                          /\ UNCHANGED <<stack, emitted>>
                     ELSE /\ stack' = Append([stack EXCEPT ![Len(stack)] = emitSucc(Top)],
                                             Frame(to))
                          /\ EmitStmts(to)
            /\ UNCHANGED <<body, g>>

\* emitBlock returns after its last successor; the outermost return ends build
EmitReturn == /\ phase = "emitting"
              /\ Top.i > Len(Succs(Top.b))
              /\ stack' = Front(stack)
              /\ phase' = IF Len(stack) = 1 THEN "done" ELSE "emitting"
              /\ UNCHANGED <<body, g, emitted>>

\* ssa.New has returned, panicked, or the process died of the overflow
Stopped == /\ phase # "emitting"
           /\ UNCHANGED vars

Step == EmitCall \/ EmitReturn

Next == Step \/ Stopped

(***************************************************************************)
(* ssa.New runs on the compiler's one goroutine: while it has not ended,  *)
(* its next step is taken.                                                 *)
(***************************************************************************)
Spec == Init /\ [][Next]_vars /\ WF_vars(Step)

-----------------------------------------------------------------------------
(* The reference: the CFG as a graph of blocks, and its paths.            *)

SuccBlocks(b) == {g.branches[Succs(b)[j]].to : j \in 1..Len(Succs(b))}

RECURSIVE Reach(_)
\* the blocks reached from a block of S by one or more branches
Reach(S) == LET N == S \cup UNION {SuccBlocks(b) : b \in S}
            IN  IF N = S THEN UNION {SuccBlocks(b) : b \in S} ELSE Reach(N)

\* the blocks reachable from the entry block
Live == {EntryId} \cup Reach({EntryId})

\* a loop can be reached from the entry: some live block reaches itself
LoopLive == \E b \in Live : b \in Reach({b})

RECURSIVE PathsFrom(_, _)
\* the number of paths of branches from block a to block b, in a CFG
\* without a live loop; parallel branches count separately
PathsFrom(a, b) ==
    (IF a = b THEN 1 ELSE 0)
    + FoldSeq(LAMBDA br, n : n + PathsFrom(g.branches[br].to, b), 0, Succs(a))

\* how often x occurs in sequence s
Occurrences(x, s) == Cardinality({j \in 1..Len(s) : s[j] = x})

(***************************************************************************)
(* When build returns, emitNode has run on each statement of a block once  *)
(* for every path from the entry to that block: the walk has no memo, so   *)
(* a block after an if/else join is emitted once per branch, and every    *)
(* reachable statement is emitted at least once.                          *)
(***************************************************************************)
EmitFollowsPaths ==
    phase = "done" =>
      \A b \in DOMAIN g.blocks : \A j \in 1..Len(g.blocks[b].stmts) :
         Occurrences(g.blocks[b].stmts[j], emitted) = PathsFrom(EntryId, b)

(***************************************************************************)
(* build never returns for a function whose CFG has a loop reachable from  *)
(* the entry: the walk only ends by a panic or by exhausting the stack.    *)
(***************************************************************************)
DoneOnlyAcyclic == phase = "done" => ~LoopLive

(***************************************************************************)
(* For a function without a reachable loop, ssa.New eventually returns or *)
(* panics on an unhandled statement: the walk never exhausts the stack.    *)
(***************************************************************************)
EmitEnds == ~LoopLive => <>(phase \in {"done", "panicked"})

=============================================================================
