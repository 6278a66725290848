------------------------------- MODULE CfgUse -------------------------------
(***************************************************************************)
(* The two users of a CFG that cfg.Form built: ssa.New, whose walk is the *)
(* state machine of SsaEmit, and the query CFG.Connect(start, end) of      *)
(* src/unnamed/part_003, which the cfg tests call.  Connect changes        *)
(* nothing: its branch memo is local to the call.  It is therefore checked *)
(* as an operator, on every pair of matchers, once per CFG: in the state   *)
(* where build has just called emitBlock on the entry block.  A matcher of *)
(* the code is a callback; here each accepts one node.                     *)
(***************************************************************************)
EXTENDS SsaEmit

\* the statement nodes stored in some block: what a matcher can match
StmtNodes == UNION {Range(g.blocks[b].stmts) : b \in DOMAIN g.blocks}

\* the first state of a walk, one per CFG
Formed == stack = <<Frame(EntryId)>>

\* the places (block, index) holding node x
At(x) == UNION {{<<b, i>> : i \in {j \in 1..Len(g.blocks[b].stmts) :
                                       g.blocks[b].stmts[j] = x}}
                : b \in DOMAIN g.blocks}

\* a path from the entry through start s (Nil: the entry itself) to end e
PathExists(s, e) ==
    IF s = Nil THEN \E q \in At(e) : q[1] \in Live
    ELSE \E p \in At(s), q \in At(e) :
           /\ p[1] \in Live
           /\ \/ p[1] = q[1] /\ q[2] > p[2]
              \/ q[1] \in Reach({p[1]})

(***************************************************************************)
(* Connect never claims a connection that does not exist: when connect     *)
(* answers true it has found start, and end after it in the same block or  *)
(* in a block reached from there.                                          *)
(***************************************************************************)
ConnectSound ==
    Formed => \A s \in {Nil} \cup StmtNodes, e \in StmtNodes :
                 Connect(g, s, e) => PathExists(s, e)

(***************************************************************************)
(* From the function entry (nil start) Connect finds every statement that  *)
(* is reachable: the branch memo only cuts edges already walked.           *)
(***************************************************************************)
ConnectFromEntryComplete ==
    Formed => \A e \in StmtNodes : Connect(g, Nil, e) <=> PathExists(Nil, e)

(***************************************************************************)
(* Connect finds every connection that exists between two different       *)
(* statements: the assertions of the cfg tests (and of spec scenario 6)    *)
(* rely on it answering true whenever a path runs from start to end.  TLC  *)
(* finds it violated (README, Further disagreements).                     *)
(***************************************************************************)
ConnectComplete ==
    Formed => \A s, e \in StmtNodes :
                 s # e /\ PathExists(s, e) => Connect(g, s, e)

=============================================================================
