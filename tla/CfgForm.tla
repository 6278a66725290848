------------------------------- MODULE CfgForm ------------------------------
(***************************************************************************)
(* The CFG builder of package cfg (src/unnamed/part_002) and its Connect   *)
(* query (src/unnamed/part_003), as operators over a builder state G.      *)
(*                                                                         *)
(* The Go code mutates heap blocks and two global counters while it        *)
(* recurses; here G is threaded through the recursion in the order the     *)
(* code performs its calls, so block and branch ids come out as the code   *)
(* numbers them.  G is a record                                            *)
(*   blocks   : BlockId -> [stmts : Seq(node id), succs : Seq(BranchId)]   *)
(*   branches : BranchId -> [from, to : BlockId, how : kind, node]         *)
(*   blockid, branchid : the globals of the same names                     *)
(*   panic    : the builder panicked (unwinding stops all further work)    *)
(* Statements are stored by node id; Nil is the nil node.                  *)
(***************************************************************************)
EXTENDS CfgAst, Integers, TLC

EntryId == 0       \* BLOCKID_ENTRY
ExitId  == 1       \* BLOCKID_EXIT
NoBlock == -1      \* a nil *BasicBlock in a branchParent
Nil     == <<>>    \* the nil node / nil matcher
NoLoop  == [brk |-> NoBlock, cnt |-> NoBlock, node |-> Nil]  \* lp == nil

Kinds == {"IFTRUE", "IFFALSE", "IFNOELSE", "WHILETRUE", "WHILEFALSE",
          "FORTRUE", "FORFALSE", "ALWAYS"}

EmptyBlock == [stmts |-> <<>>, succs |-> <<>>]

\* the package globals before the first Form: blockid = 1, branchid = 0,
\* and the two shared blocks blockEntry and blockExit
G0 == [blocks   |-> (EntryId :> EmptyBlock) @@ (ExitId :> EmptyBlock),
       branches |-> [x \in {} |-> 0],
       blockid  |-> ExitId,
       branchid |-> 0,
       panic    |-> FALSE]

\* mutant: the new block is keyed by the id before the increment
newblockPostInc(G) ==
    [G EXCEPT !.blockid = @ + 1,
              !.blocks  = (G.blockid :> EmptyBlock) @@ @]

\* newblock: blockid++ and a fresh block with that id
newblock(G) ==
    [G EXCEPT !.blockid = @ + 1,
              !.blocks  = (G.blockid + 1 :> EmptyBlock) @@ @]

\* newstmt: append the statement to block b
newstmt(G, b, n) == [G EXCEPT !.blocks[b].stmts = Append(@, n)]

\* newsucc: a nil target means EXIT; branchid++ and append the edge to b
newsucc(G, b, rp) ==
    LET id == G.branchid + 1
        to == IF rp.to = NoBlock THEN ExitId ELSE rp.to
    IN  [G EXCEPT !.branchid = id,
                  !.branches = (id :> [from |-> b, to |-> to,
                                       how |-> rp.how, node |-> rp.node]) @@ @,
                  !.blocks[b].succs = Append(@, id)]

BP(to, node, how) == [to |-> to, node |-> node, how |-> how]

RECURSIVE form(_, _, _, _, _), newif(_, _, _, _, _, _),
          newloop(_, _, _, _, _, _, _, _), newwhile(_, _, _, _, _),
          newfor(_, _, _, _, _)

(***************************************************************************)
(* form: walk the statement list of block b.  A compound statement hands   *)
(* the rest of the list to newif / newloop and returns; return, break and  *)
(* continue end the block (later statements are dead and dropped); any     *)
(* other statement, a nested block included, is appended as it is.  At    *)
(* the end of the list the block gets its fall-through edge rp.            *)
(***************************************************************************)
form(G, b, rp, lp, left) ==
    IF G.panic THEN G
    ELSE IF left = <<>> THEN newsucc(G, b, rp)
    ELSE LET n == Head(left)
             rest == Tail(left)
         IN CASE n.k \in {"if", "ifelse"} -> newif(G, b, n, rp, lp, rest)
              [] n.k = "for" -> newfor(newstmt(G, b, InitId(n)), b, n, rp, rest)
              [] n.k = "while" -> newwhile(G, b, n, rp, rest)
              [] n.k = "return" ->
                   newsucc(newstmt(G, b, n.id), b, BP(ExitId, n.id, "ALWAYS"))
              [] n.k \in {"break", "continue"} ->
                   IF lp = NoLoop THEN [G EXCEPT !.panic = TRUE]
                   ELSE newstmt(newsucc(G, b,
                                  BP(IF n.k = "break" THEN lp.brk ELSE lp.cnt,
                                     lp.node, "ALWAYS")), b, n.id)
              [] OTHER -> form(newstmt(G, b, n.id), b, rp, lp, rest)

\* mutant: an if without else gets no edge around its then block
newifNoElseEdge(G, b, n, rp, lp, left) ==
    LET g1 == newblock(G)
        afterif == g1.blockid
        g2 == form(g1, afterif, BP(rp.to, n.id, "ALWAYS"), lp, left)
        g3 == newblock(g2)
        g4 == form(g3, g3.blockid, BP(afterif, n.id, "ALWAYS"), lp, n.body)
        g5 == newsucc(g4, b, BP(g3.blockid, n.id, "IFTRUE"))
        g6 == newblock(g5)
        g7 == form(g6, g6.blockid, BP(afterif, n.id, "ALWAYS"), lp, n.alt)
    IN  IF n.k = "ifelse"
           THEN newsucc(g7, b, BP(g6.blockid, n.id, "IFFALSE"))
           ELSE g5

(***************************************************************************)
(* newif: afterif takes the rest of the list and the outer fall-through;   *)
(* the then block (and the else block) fall through to afterif.  Without   *)
(* an else the current block branches IFNOELSE straight to afterif.        *)
(***************************************************************************)
newif(G, b, n, rp, lp, left) ==
    LET g1 == newblock(G)
        afterif == g1.blockid
        g2 == form(g1, afterif, BP(rp.to, n.id, "ALWAYS"), lp, left)
        g3 == newblock(g2)
        g4 == form(g3, g3.blockid, BP(afterif, n.id, "ALWAYS"), lp, n.body)
        g5 == newsucc(g4, b, BP(g3.blockid, n.id, "IFTRUE"))
        g6 == newblock(g5)
        g7 == form(g6, g6.blockid, BP(afterif, n.id, "ALWAYS"), lp, n.alt)
    IN  IF n.k = "ifelse"
           THEN newsucc(g7, b, BP(g6.blockid, n.id, "IFFALSE"))
           ELSE newsucc(g5, b, BP(afterif, n.id, "IFNOELSE"))

\* mutant: continue jumps back to the top of the body, past step and test
newloopContinueToBody(G, b, n, kt, kf, rp, left, ss) ==
    LET g1 == newblock(G)
        afterloop == g1.blockid
        g2 == form(g1, afterloop, rp, NoLoop, left)
        g3 == newblock(g2)
        lb == g3.blockid
        g4 == newblock(g3)
        sb == g4.blockid
        g5 == form(g4, sb, BP(lb, n.id, kt), NoLoop, ss)
        inner == [brk |-> afterloop, cnt |-> lb, node |-> n.id]
        g6 == form(g5, lb, BP(sb, n.id, "ALWAYS"), inner, n.body)
        g7 == newsucc(g6, sb, BP(afterloop, n.id, kf))
        g8 == newsucc(g7, b, BP(lb, n.id, kt))
    IN  newsucc(g8, b, BP(afterloop, n.id, kf))

(***************************************************************************)
(* newloop: afterloop takes the rest of the list with the outer            *)
(* fall-through and, as in the code, with a nil loop context; sb holds     *)
(* the step and branches back to lb; lb holds the body, falls through to   *)
(* sb, and break / continue lead to afterloop / sb.  The enclosing loop    *)
(* context is not passed in: the code's newloop has no lp parameter.       *)
(***************************************************************************)
newloop(G, b, n, kt, kf, rp, left, ss) ==
    LET g1 == newblock(G)
        afterloop == g1.blockid
        g2 == form(g1, afterloop, rp, NoLoop, left)
        g3 == newblock(g2)
        lb == g3.blockid
        g4 == newblock(g3)
        sb == g4.blockid
        g5 == form(g4, sb, BP(lb, n.id, kt), NoLoop, ss)
        inner == [brk |-> afterloop, cnt |-> sb, node |-> n.id]
        g6 == form(g5, lb, BP(sb, n.id, "ALWAYS"), inner, n.body)
        g7 == newsucc(g6, sb, BP(afterloop, n.id, kf))
        g8 == newsucc(g7, b, BP(lb, n.id, kt))
    IN  newsucc(g8, b, BP(afterloop, n.id, kf))

\* newwhile / newfor: the loop kinds, and the for's OnEach as the step
newwhile(G, b, n, rp, left) ==
    newloop(G, b, n, "WHILETRUE", "WHILEFALSE", rp, left, <<>>)
newfor(G, b, n, rp, left) ==
    newloop(G, b, n, "FORTRUE", "FORFALSE", rp, left,
            <<Stmt("expr", StepId(n), <<>>, <<>>)>>)

\* Form: a copy of blockEntry falls through to a fresh block holding the body
Form(G, body) ==
    LET g1 == newblock(G)
        g2 == newsucc(g1, EntryId, BP(g1.blockid, Nil, "ALWAYS"))
    IN  form(g2, g1.blockid, BP(ExitId, Nil, "ALWAYS"), NoLoop, body)

(***************************************************************************)
(* Connect.  A matcher is modelled by the node id it accepts.  connect     *)
(* returns [ok, mem]: the memo of visited branches is one Go map shared by *)
(* reference through the whole recursion, so it is threaded through every *)
(* call and comes back out of it.                                          *)
(***************************************************************************)

\* mutant: the scan starts one statement late
nodeinblockSkipFirst(G, cb, i, b) ==
    LET stmts == G.blocks[b].stmts
        hits == {j \in (i + 2)..Len(stmts) : stmts[j] = cb}
    IN  IF hits = {} THEN -1
        ELSE CHOOSE j \in hits : \A h \in hits : j <= h

\* nodeinblock: 1 + the 0-based index of the first match at or after i, or -1
nodeinblock(G, cb, i, b) ==
    LET stmts == G.blocks[b].stmts
        hits == {j \in (i + 1)..Len(stmts) : stmts[j] = cb}
    IN  IF hits = {} THEN -1
        ELSE CHOOSE j \in hits : \A h \in hits : j <= h

\* mutant: the end is searched for from the top of the block
nodesinblockFromTop(G, start, end, b) ==
    <<nodeinblock(G, start, 0, b), nodeinblock(G, end, 0, b)>>

\* nodesinblock: the end is searched for after the start, if there is one
nodesinblock(G, start, end, b) ==
    LET istart == nodeinblock(G, start, 0, b)
        startend == IF istart = -1 THEN 0 ELSE istart
    IN  <<istart, nodeinblock(G, end, startend, b)>>

RECURSIVE connect(_, _, _, _, _), connectSuccs(_, _, _, _, _)

\* the loop over b.Successors: skip seen branches, mark, recurse, stop on true
connectSuccs(G, start, end, succs, mem) ==
    IF succs = <<>> THEN [ok |-> FALSE, mem |-> mem]
    ELSE LET br == Head(succs)
         IN  IF br \in mem THEN connectSuccs(G, start, end, Tail(succs), mem)
             ELSE LET r == connect(G, start, end, G.branches[br].to,
                                   mem \cup {br})
                  IN  IF r.ok THEN r
                      ELSE connectSuccs(G, start, end, Tail(succs), r.mem)

connect(G, start, end, b, mem) ==
    LET succs == G.blocks[b].succs
    IN  IF start = Nil
          THEN IF nodeinblock(G, end, 0, b) > -1 THEN [ok |-> TRUE, mem |-> mem]
               ELSE connectSuccs(G, Nil, end, succs, mem)
          ELSE LET ij == nodesinblock(G, start, end, b)
               IN  CASE ij[1] > -1 /\ ij[2] > -1 -> [ok |-> TRUE, mem |-> mem]
                     [] ij[1] > -1 -> connectSuccs(G, Nil, end, succs, mem)
                     [] ij[2] > -1 -> [ok |-> FALSE, mem |-> mem]
                     [] OTHER -> connectSuccs(G, start, end, succs, mem)

\* Connect: a fresh memo, starting from the CFG's copy of the entry block
Connect(G, start, end) == connect(G, start, end, EntryId, {}).ok

=============================================================================
