--------------------------- MODULE StructuredExec ---------------------------
(***************************************************************************)
(* What a C0 function body means as structured control flow: the abstract  *)
(* specification the CFG builder promises to implement.  Execution is a    *)
(* continuation k, a sequence of items                                     *)
(*   [t |-> "s", s |-> stmt]   execute a statement                         *)
(*   [t |-> "test", l |-> loop]  evaluate the loop condition               *)
(*   [t |-> "step", l |-> loop]  end of one iteration (a for's step)       *)
(* and every observable step emits an event: a statement node executed,    *)
(* or the outcome of the condition of an if / while / for node.  A nested  *)
(* block { ... } is its contents; a while's end of iteration and the entry *)
(* of a while emit nothing.                                                *)
(*                                                                         *)
(* ev carries the last event and a parity bit that flips on every event,   *)
(* so that two equal events in a row are two steps, not a stutter.         *)
(***************************************************************************)
EXTENDS CfgAst, Integers

VARIABLES
    prog,  \* the function body being run; fixed for the whole behaviour
    k,     \* the continuation
    ev     \* the last event, with its parity bit

vars == <<prog, k, ev>>

StmtEv(id) == [t |-> "stmt", n |-> id, v |-> FALSE]
DecEv(id, b) == [t |-> "dec", n |-> id, v |-> b]
NoEvent == [t |-> "none", n |-> <<>>, v |-> FALSE]

Exec(s) == [t |-> "s", s |-> s]
Test(l) == [t |-> "test", l |-> l]
Step(l) == [t |-> "step", l |-> l]
Items(l) == [i \in 1..Len(l) |-> Exec(l[i])]

\* the first end-of-iteration item: the innermost enclosing loop
FirstStep(r) == CHOOSE j \in 1..Len(r) :
                   r[j].t = "step" /\ \A i \in 1..(j - 1) : r[i].t # "step"
\* break leaves the innermost loop: drop through its step and test
AfterBreak(r) == SubSeq(r, FirstStep(r) + 2, Len(r))
\* continue goes to the innermost loop's end of iteration
AfterContinue(r) == SubSeq(r, FirstStep(r), Len(r))

RECURSIVE Normalize(_)
\* take the silent steps at the head of the continuation
Normalize(c) ==
    IF c = <<>> THEN c
    ELSE LET h == Head(c)
         IN  CASE h.t = "s" /\ h.s.k = "block" ->
                    Normalize(Items(h.s.body) \o Tail(c))
               [] h.t = "s" /\ h.s.k = "while" ->
                    Normalize(<<Test(h.s)>> \o Tail(c))
               [] h.t = "step" /\ h.l.k = "while" -> Normalize(Tail(c))
               [] OTHER -> c

Branch2(id, ct, cf) == {[e |-> DecEv(id, TRUE), k |-> ct],
                        [e |-> DecEv(id, FALSE), k |-> cf]}

\* every observable step from continuation c: its event and what is left
Steps(c) ==
    LET nc == Normalize(c)
        h == Head(nc)
        r == Tail(nc)
    IN  IF nc = <<>> THEN {}
        ELSE CASE h.t = "stuck" -> {}
               [] h.t = "test" ->
                    Branch2(h.l.id, Items(h.l.body) \o <<Step(h.l), Test(h.l)>> \o r, r)
               [] h.t = "step" -> {[e |-> StmtEv(StepId(h.l)), k |-> r]}
               [] h.s.k = "for" ->
                    {[e |-> StmtEv(InitId(h.s)), k |-> <<Test(h.s)>> \o r]}
               [] h.s.k = "if" -> Branch2(h.s.id, Items(h.s.body) \o r, r)
               [] h.s.k = "ifelse" ->
                    Branch2(h.s.id, Items(h.s.body) \o r, Items(h.s.alt) \o r)
               [] h.s.k = "break" -> {[e |-> StmtEv(h.s.id), k |-> AfterBreak(r)]}
               [] h.s.k = "continue" ->
                    {[e |-> StmtEv(h.s.id), k |-> AfterContinue(r)]}
               [] h.s.k = "return" -> {[e |-> StmtEv(h.s.id), k |-> <<>>]}
               [] OTHER -> {[e |-> StmtEv(h.s.id), k |-> r]}

\* the events that may come next
NextEvents(c) == {s.e : s \in Steps(c)}

\* the continuation after event e, or a stuck marker if e cannot happen
After(c, e) ==
    IF e \in NextEvents(c)
      THEN Normalize((CHOOSE s \in Steps(c) : s.e = e).k)
      ELSE <<[t |-> "stuck"]>>

Emit(e) == [e |-> e, p |-> 1 - ev.p]

Init == /\ k = Normalize(Items(prog))
        /\ ev = [e |-> NoEvent, p |-> 0]

Next == \E s \in Steps(k) : /\ k' = Normalize(s.k)
                            /\ ev' = Emit(s.e)
                            /\ UNCHANGED prog

Spec == Init /\ [][Next]_vars

=============================================================================
