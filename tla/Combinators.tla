----------------------------- MODULE Combinators -----------------------------
(***************************************************************************)
(* The parser combinators of package primitives                           *)
(* (src/primitives/primitives.go) that the lexer is built from.            *)
(*                                                                         *)
(* A Go Parser is a closure; TLA+ cannot combine recursion with operators  *)
(* as arguments, so a parser is a record naming its combinator and its     *)
(* parts, and Run interprets it.  Text is a sequence of one-character      *)
(* strings.                                                                *)
(*                                                                         *)
(* A State is [left, line, col, val]: the runes left, the position         *)
(* (lineno, col) and the collected value.  A Result is [st, err, tok]:     *)
(* err is "none", "nomatch", "eoi" (the sentinels EOI and noMatch, which   *)
(* errors.Is still finds through resultErr's %w), "wrapped" (Error()       *)
(* replaces the chain, so errors.Is no longer finds them) or "panic" (a    *)
(* Fatal parser panicked; the panic unwinds every combinator up to Do).    *)
(* tok is the token a Pipe callback emitted, NoTok if none.                *)
(*                                                                         *)
(* The Go states are pointers and some combinators mutate the state they   *)
(* are given, but every primitive mutates it only when it succeeds and     *)
(* every combinator that goes on after a failure (And, OneOrMore,          *)
(* ZeroOrMore, Discard) first copies it, so values are faithful.           *)
(***************************************************************************)
EXTENDS Integers, Sequences

NoTok == [kind |-> "none"]

NewState(what) == [left |-> what, line |-> 1, col |-> 1, val |-> <<>>]

Ok(s) == [st |-> s, err |-> "none", tok |-> NoTok]
Err(s, e) == [st |-> s, err |-> e, tok |-> NoTok]

\* mutant: a linefeed moves to the next line but keeps the column
advancePosKeepCol(s, r) ==
    IF r = "\n" THEN [s EXCEPT !.line = @ + 1] ELSE [s EXCEPT !.col = @ + 1]

\* State._advance: the position after rune r
advancePos(s, r) ==
    IF r = "\n" THEN [s EXCEPT !.line = @ + 1, !.col = 1]
    ELSE [s EXCEPT !.col = @ + 1]

\* State.advance: move past r and collect it
advance(s, r) == [advancePos(s, r) EXCEPT !.val = Append(@, r)]

\* the parsers: one constructor per combinator of primitives.go
Rune(c) == [k |-> "rune", c |-> c]
Chomp(c) == [k |-> "chomp", c |-> c]
Runes(cs) == [k |-> "runes", cs |-> cs]
ExceptRunes(cs) == [k |-> "exceptrunes", cs |-> cs]
String(w) == [k |-> "string", w |-> w]
ExceptString(w) == [k |-> "exceptstring", w |-> w]
Epsilon == [k |-> "epsilon"]
And(l, r) == [k |-> "and", l |-> l, r |-> r]
Or(l, r) == [k |-> "or", l |-> l, r |-> r]
AnyOf(ps) == [k |-> "anyof", ps |-> ps]
\* the function Discard(p) and the method p.Discard()
DiscardF(p) == [k |-> "discardf", p |-> p]
Discard(p) == [k |-> "discard", p |-> p]
ZeroOrMore(p) == [k |-> "zeroormore", p |-> p]
OneOrMore(p) == [k |-> "oneormore", p |-> p]
Error(p) == [k |-> "error", p |-> p]
Fatal(p) == [k |-> "fatal", p |-> p]
\* Map with the escape mapper of lex.escapebuilder: drop the two source
\* runes, append dst
MapEscape(p, dst) == [k |-> "mapescape", p |-> p, dst |-> dst]
\* Pipe whose callback emits one kind, or the kind a switch on the text picks
Pipe(p, kind) == [k |-> "pipe", p |-> p, kind |-> kind]
PipeSwitch(p, table) == [k |-> "pipeswitch", p |-> p, table |-> table]

\* Strings: AnyOf over String of each candidate
Strings(ws) == AnyOf([i \in DOMAIN ws |-> String(ws[i])])

\* runer (Rune keeps the rune in the value, Chomp only moves past it)
runer(want, keep, s) ==
    CASE s.left = <<>> -> Err(s, "eoi")
      [] Head(s.left) # want -> Err(s, "nomatch")
      [] OTHER -> LET s1 == [s EXCEPT !.left = Tail(@)]
                  IN  Ok(IF keep THEN advance(s1, want) ELSE advancePos(s1, want))

\* runescmp: Runes matches a rune of cs, ExceptRunes one that is not
runescmp(cs, inset, s) ==
    CASE s.left = <<>> -> Err(s, "eoi")
      [] (Head(s.left) \in cs) # inset -> Err(s, "nomatch")
      [] OTHER -> Ok(advance([s EXCEPT !.left = Tail(@)], Head(s.left)))

\* String: all of w, or nomatch (also when fewer runes are left)
matchString(w, s) ==
    IF Len(s.left) < Len(w) \/ SubSeq(s.left, 1, Len(w)) # w THEN Err(s, "nomatch")
    ELSE LET RECURSIVE adv(_, _)
             adv(t, i) == IF i > Len(w) THEN t ELSE adv(advance(t, w[i]), i + 1)
         IN  Ok([adv(s, 1) EXCEPT !.left = SubSeq(s.left, Len(w) + 1, Len(s.left))])

\* ExceptString: one rune, unless w starts here or fewer runes than w are left
exceptString(w, s) ==
    IF Len(s.left) < Len(w) \/ SubSeq(s.left, 1, Len(w)) = w THEN Err(s, "nomatch")
    ELSE Ok(advance([s EXCEPT !.left = Tail(@)], Head(s.left)))

RECURSIVE Run(_, _), anyOf(_, _, _), zeroOrMore(_, _)

\* AnyOf: the first alternative that succeeds or reaches the end of input
anyOf(ps, i, s) ==
    IF i > Len(ps) THEN Err(s, "nomatch")
    ELSE LET r == Run(ps[i], s)
         IN  IF r.err \in {"none", "eoi", "panic"} THEN r ELSE anyOf(ps, i + 1, s)

\* ZeroOrMore: repeat while p succeeds
zeroOrMore(p, s) ==
    LET r == Run(p, s)
    IN  CASE r.err = "none" -> zeroOrMore(p, r.st)
          [] r.err = "panic" -> r
          [] OTHER -> Ok(s)

Run(p, s) ==
    CASE p.k = "rune" -> runer(p.c, TRUE, s)
      [] p.k = "chomp" -> runer(p.c, FALSE, s)
      [] p.k = "runes" -> runescmp(p.cs, TRUE, s)
      [] p.k = "exceptrunes" -> runescmp(p.cs, FALSE, s)
      [] p.k = "string" -> matchString(p.w, s)
      [] p.k = "exceptstring" -> exceptString(p.w, s)
      [] p.k = "epsilon" -> Ok(s)
      [] p.k = "and" -> LET r == Run(p.l, s)
                        IN  IF r.err # "none" THEN r ELSE Run(p.r, r.st)
      [] p.k = "or" -> LET r == Run(p.l, s)
                       IN  IF r.err \in {"none", "panic"} THEN r ELSE Run(p.r, s)
      [] p.k = "anyof" -> anyOf(p.ps, 1, s)
      [] p.k = "discardf" -> LET r == Run(p.p, s)
                             IN  CASE r.err = "none" -> Ok([r.st EXCEPT !.val = s.val])
                                   [] r.err = "panic" -> r
                                   [] OTHER -> Err(s, "nomatch")
      [] p.k = "discard" -> LET r == Run(p.p, s)
                            IN  IF r.err = "panic" THEN r ELSE [r EXCEPT !.st.val = <<>>]
      [] p.k = "zeroormore" -> zeroOrMore(p.p, s)
      [] p.k = "oneormore" -> LET r == Run(p.p, s)
                              IN  CASE r.err = "none" -> zeroOrMore(p.p, r.st)
                                    [] r.err = "panic" -> r
                                    [] OTHER -> Err(s, "nomatch")
      [] p.k = "error" -> LET r == Run(p.p, s)
                          IN  IF r.err \in {"none", "panic"} THEN r ELSE [r EXCEPT !.err = "wrapped"]
      [] p.k = "fatal" -> LET r == Run(p.p, s)
                          IN  IF r.err = "none" THEN r ELSE [r EXCEPT !.err = "panic"]
      [] p.k = "mapescape" ->
           LET r == Run(p.p, s)
           IN  IF r.err # "none" THEN r
               ELSE [r EXCEPT !.st.val = Append(SubSeq(@, 1, Len(@) - 2), p.dst)]
      [] p.k = "pipe" -> LET r == Run(p.p, s)
                         IN  IF r.err # "none" THEN r
                             ELSE [r EXCEPT !.tok = [kind |-> p.kind, val |-> r.st.val,
                                                     line |-> r.st.line, col |-> r.st.col]]
      [] p.k = "pipeswitch" ->
           LET r == Run(p.p, s)
           IN  CASE r.err # "none" -> r
                 [] r.st.val \in DOMAIN p.table ->
                      [r EXCEPT !.tok = [kind |-> p.table[r.st.val], val |-> r.st.val,
                                         line |-> r.st.line, col |-> r.st.col]]
                 \* the switch's default: panic
                 [] OTHER -> [r EXCEPT !.err = "panic"]

\* Do: run p; a panic is recovered into an error at the state p was given
Do(p, s) == LET r == Run(p, s)
            IN  IF r.err = "panic" THEN Err(s, "panic") ELSE r

=============================================================================
