------------------------------ MODULE ExprParse ------------------------------
(***************************************************************************)
(* The expression parser (src/unnamed/part_010: expratom, exprparse, Expr) *)
(* over the token FIFO (src/token/token.go: Peek, Pop, Accept), checked    *)
(* against the operator table of the C0 grammar.                           *)
(*                                                                         *)
(* A token is a string: an identifier of Names, the number "1", the type   *)
(* name "int", a comment "#", or an operator or bracket.  A node is the    *)
(* record the parser builds:                                               *)
(*   [k |-> "var", v], [k |-> "num"], [k |-> "un", op, to],                *)
(*   [k |-> "bin", op, l, r]  (op "(" is a call, "[" a subscript,          *)
(*                             "?" / ":" the two halves of a ternary),     *)
(*   [k |-> "args", v |-> <<node, ...>>], [k |-> "cast", ptr, what].       *)
(* The parser state P threads the FIFO and the parser's error list (only   *)
(* its length matters here) through the calls, in the code's order.       *)
(***************************************************************************)
EXTENDS Integers, Sequences

CONSTANTS
    Names,     \* identifiers that are neither reserved nor typedefs
    BinToks,   \* binary operators that may occur, a subset of BinOpToks
    UnToks,    \* prefix operators that may occur: "-", "!", "*"
    Postfix,   \* postfix forms that may occur: "[", "(", "."
    Casts,     \* whether "(int) e" casts may occur
    CommentOps, \* trees of at most this many operators get a comment token
    MaxOps     \* operators per expression

Comment == "#"
BinOpToks == {"?", ":", "||", "&&", "==", "<", "+", "-", "*"}

-----------------------------------------------------------------------------
(* The token FIFO.                                                          *)

RECURSIVE SkipComments(_)
SkipComments(ts) == IF ts # <<>> /\ Head(ts) = Comment THEN SkipComments(Tail(ts))
                    ELSE ts

\* mutant: Peek returns comment tokens like any other
PeekNoSkip(P) == [tok |-> IF P.ts = <<>> THEN "" ELSE Head(P.ts), p |-> P]

\* Peek: the first token that is not a comment, dropping the comments
\* before it; "" when the FIFO is empty
Peek(P) == LET ts == SkipComments(P.ts)
           IN  [tok |-> IF ts = <<>> THEN "" ELSE Head(ts), p |-> [P EXCEPT !.ts = ts]]

\* Pop: drop the first token, whatever it is
Pop(P) == IF P.ts = <<>> THEN P ELSE [P EXCEPT !.ts = Tail(@)]

\* Accept: Peek, and Pop if the token is the one expected
Accept(P, tok) == LET pk == Peek(P)
                  IN  [ok |-> pk.tok = tok, p |-> IF pk.tok = tok THEN Pop(pk.p) ELSE pk.p]

\* p.errorf: record an error
errorf(P) == [P EXCEPT !.errs = @ + 1]

-----------------------------------------------------------------------------
(* The parser.                                                              *)

Fail(P) == [ok |-> FALSE, n |-> [k |-> "none"], p |-> P]
Ok(n, P) == [ok |-> TRUE, n |-> n, p |-> P]

\* mutant: multiplication on the level of addition
precedencebFlat(t) == CASE t \in {"?", ":"} -> 0
                        [] t = "||" -> 1
                        [] t = "&&" -> 2
                        [] t = "==" -> 6
                        [] t = "<" -> 7
                        [] t \in {"+", "-", "*"} -> 9
                        [] t = "." -> 11

\* precedenceb, isleftassocb, precedenceu
precedenceb(t) == CASE t \in {"?", ":"} -> 0
                    [] t = "||" -> 1
                    [] t = "&&" -> 2
                    [] t = "==" -> 6
                    [] t = "<" -> 7
                    [] t \in {"+", "-"} -> 9
                    [] t = "*" -> 10
                    [] t = "." -> 11
isleftassocb(t) == t \notin {"?", ":"}
precedenceu(t) == 10

\* tok_to_binop's domain
IsBinop(t) == t \in BinOpToks \cup {"[", "(", "."}

\* Type: a primitive type name and its "*" suffix; an identifier that is
\* neither a primitive nor a typedef is an error that is recorded
RECURSIVE Stars(_, _)
Stars(P, n) == LET pk == Peek(P)
               IN  IF pk.tok = "*" THEN Stars(Pop(pk.p), n + 1) ELSE [n |-> n, p |-> pk.p]
Type(P) ==
    LET pk == Peek(P)
    IN  CASE pk.tok = "int" -> LET s == Stars(Pop(pk.p), 0) IN Ok(s.n, s.p)
          [] pk.tok \in Names -> Fail(errorf(pk.p))
          [] OTHER -> Fail(pk.p)

RECURSIVE expratom(_), exprparse(_, _), exprloop(_, _, _), callargs(_, _)

expratom(P) ==
    LET pk == Peek(P)
        this == pk.tok
        P1 == Pop(pk.p)
    IN  CASE this = "" -> Fail(pk.p)
          [] this \in {"-", "!", "*"} ->
               LET r == exprparse(P1, precedenceu(this) + 1)
               IN  IF r.ok THEN Ok([k |-> "un", op |-> this, to |-> r.n], r.p) ELSE r
          [] this = "(" ->
               LET c == Type(P1)
               IN  IF c.ok
                     THEN LET a == Accept(c.p, ")")
                          IN  IF ~a.ok THEN Fail(errorf(a.p))
                              ELSE LET w == expratom(a.p)
                                   IN  IF w.ok
                                         THEN Ok([k |-> "cast", ptr |-> c.n, what |-> w.n], w.p)
                                         ELSE w
                     ELSE LET e == exprparse(c.p, 0)
                          IN  IF ~e.ok THEN e
                              ELSE LET a == Accept(e.p, ")")
                                   IN  IF a.ok THEN Ok(e.n, a.p) ELSE Fail(errorf(a.p))
          [] this = "1" -> Ok([k |-> "num"], P1)
          [] this \in Names -> Ok([k |-> "var", v |-> this], P1)
          [] this = "int" -> Fail(pk.p)
          [] OTHER -> Fail(errorf(pk.p))

exprparse(P, minprec) ==
    LET lhs == expratom(P)
    IN  IF lhs.ok THEN exprloop(lhs.n, lhs.p, minprec) ELSE lhs

\* the arguments of a call after "(": expressions separated by ",", up to
\* ")" or the end of the tokens
callargs(P, args) ==
    IF Peek(P).tok = "" THEN Ok(args, Peek(P).p)
    ELSE LET r == exprparse(P, 0)
         IN  IF ~r.ok THEN Fail(errorf(r.p))
             ELSE LET cm == Accept(r.p, ",")
                      rp == Accept(cm.p, ")")
                  IN  CASE cm.ok -> callargs(cm.p, Append(args, r.n))
                        [] rp.ok -> Ok(Append(args, r.n), rp.p)
                        [] OTHER -> Fail(errorf(rp.p))

\* the loop of exprparse: postfix subscripts and calls, then precedence
\* climbing over the binary operators
exprloop(lhs, P, minprec) ==
    LET pk == Peek(P)
        op == pk.tok
        P1 == Pop(pk.p)
    IN  CASE ~IsBinop(op) -> Ok(lhs, pk.p)
          [] op = "[" ->
               LET i == exprparse(P1, 0)
               IN  IF ~i.ok THEN Fail(errorf(i.p))
                   ELSE LET a == Accept(i.p, "]")
                        IN  IF ~a.ok THEN Fail(errorf(a.p))
                            ELSE exprloop([k |-> "bin", op |-> "[", l |-> lhs, r |-> i.n],
                                          a.p, minprec)
          [] op = "(" ->
               LET a == Accept(P1, ")")
                   r == IF a.ok THEN Ok(<<>>, a.p) ELSE callargs(a.p, <<>>)
               IN  IF ~r.ok THEN r
                   ELSE exprloop([k |-> "bin", op |-> "(", l |-> lhs,
                                  r |-> [k |-> "args", v |-> r.n]], r.p, minprec)
          [] precedenceb(op) < minprec -> Ok(lhs, pk.p)
          [] OTHER ->
               LET r == exprparse(P1, IF isleftassocb(op) THEN precedenceb(op) + 1
                                      ELSE precedenceb(op))
               IN  IF r.ok
                     THEN exprloop([k |-> "bin", op |-> op, l |-> lhs, r |-> r.n],
                                   r.p, minprec)
                     ELSE r

\* Expr
Expr(P) == exprparse(P, 0)

-----------------------------------------------------------------------------
(* The reference: expressions as trees, written out with the parentheses  *)
(* the grammar's operator table requires.  Levels from lowest: 1 "? :"     *)
(* (right-associative), 2 "||", 3 "&&", 7 "==", 8 "<", 10 "+ -", 11 "*",   *)
(* 12 prefix operators and casts, 13 postfix calls, subscripts and "."    *)
(* (the table of the C0 grammar the parser's comment cites).              *)

Var(x) == [k |-> "var", v |-> x]
NumNode == [k |-> "num"]
Bin(op, l, r) == [k |-> "bin", op |-> op, l |-> l, r |-> r]
Cond(c, t, e) == Bin("?", c, Bin(":", t, e))
Call(f, as) == Bin("(", f, [k |-> "args", v |-> as])

RECURSIVE Trees(_)
\* the expressions with exactly n operators
Trees(n) ==
    IF n = 0 THEN {Var(x) : x \in Names} \cup {NumNode}
    ELSE {[k |-> "un", op |-> op, to |-> t] : op \in UnToks, t \in Trees(n - 1)}
         \cup (IF Casts THEN {[k |-> "cast", ptr |-> p, what |-> t] :
                                p \in 0..1, t \in Trees(n - 1)} ELSE {})
         \cup UNION {{Bin(op, l, r) : op \in BinToks \ {"?", ":"},
                                      l \in Trees(i), r \in Trees(n - 1 - i)}
                     : i \in 0..(n - 1)}
         \cup (IF "?" \in BinToks
                 THEN UNION {{Cond(c, t, e) : c \in Trees(ij[1]), t \in Trees(ij[2]),
                                              e \in Trees(n - 1 - ij[1] - ij[2])}
                             : ij \in {q \in (0..(n - 1)) \X (0..(n - 1)) : q[1] + q[2] <= n - 1}}
                 ELSE {})
         \cup (IF "[" \in Postfix
                 THEN UNION {{Bin("[", l, r) : l \in Trees(i), r \in Trees(n - 1 - i)}
                             : i \in 0..(n - 1)}
                 ELSE {})
         \cup (IF "." \in Postfix
                 THEN {Bin(".", l, Var(x)) : l \in Trees(n - 1), x \in Names} ELSE {})
         \cup (IF "(" \in Postfix
                 THEN {Call(f, <<>>) : f \in Trees(n - 1)}
                      \cup UNION {{Call(f, <<a>>) : f \in Trees(i), a \in Trees(n - 1 - i)}
                                  : i \in 0..(n - 1)}
                 ELSE {})

RefBin(op) == CASE op = "||" -> 2 [] op = "&&" -> 3 [] op = "==" -> 7
                [] op = "<" -> 8 [] op \in {"+", "-"} -> 10 [] op = "*" -> 11

RefPrec(t) == CASE t.k \in {"var", "num"} -> 14
                [] t.k \in {"un", "cast"} -> 12
                [] t.op \in {"[", "(", "."} -> 13
                [] t.op = "?" -> 1
                [] OTHER -> RefBin(t.op)

RECURSIVE Text(_, _), Raw(_), Join(_)
\* the tokens of t where the context needs a level of at least need
Text(t, need) == IF RefPrec(t) < need THEN <<"(">> \o Raw(t) \o <<")">> ELSE Raw(t)
Join(as) == IF as = <<>> THEN <<>>
            ELSE IF Len(as) = 1 THEN Text(Head(as), 1)
            ELSE Text(Head(as), 1) \o <<",">> \o Join(Tail(as))
Raw(t) ==
    CASE t.k = "var" -> <<t.v>>
      [] t.k = "num" -> <<"1">>
      [] t.k = "un" -> <<t.op>> \o Text(t.to, 12)
      [] t.k = "cast" -> <<"(", "int">> \o [i \in 1..t.ptr |-> "*"] \o <<")">>
                          \o Text(t.what, 12)
      [] t.op = "[" -> Text(t.l, 13) \o <<"[">> \o Text(t.r, 1) \o <<"]">>
      [] t.op = "." -> Text(t.l, 13) \o <<".", t.r.v>>
      [] t.op = "(" -> Text(t.l, 13) \o <<"(">> \o Join(t.r.v) \o <<")">>
      [] t.op = "?" -> Text(t.l, 2) \o <<"?">> \o Text(t.r.l, 1) \o <<":">>
                       \o Text(t.r.r, 1)
      [] OTHER -> Text(t.l, RefBin(t.op)) \o <<t.op>> \o Text(t.r, RefBin(t.op) + 1)

\* the tokens with a comment before token c (c = 0: none)
WithComment(ts, c) == IF c = 0 THEN ts
                      ELSE SubSeq(ts, 1, c - 1) \o <<Comment>> \o SubSeq(ts, c, Len(ts))

-----------------------------------------------------------------------------
(* One call of Expr on the tokens of an expression.                        *)

VARIABLES
    tree,   \* the expression the tokens spell
    toks,   \* the token FIFO handed to Expr
    res     \* what Expr returned: [ok, n, p], or NoResult before the call

vars == <<tree, toks, res>>

NoResult == [ok |-> FALSE, n |-> [k |-> "none"], p |-> [ts |-> <<>>, errs |-> -1]]

Init == /\ \E n \in 0..MaxOps :
             /\ tree \in Trees(n)
             /\ \E c \in IF n <= CommentOps THEN 0..(Len(Text(tree, 0)) + 1) ELSE {0} :
                   toks = WithComment(Text(tree, 0), c)
        /\ res = NoResult

\* p.Expr(toks) on a fresh parser
Parse == /\ res = NoResult
         /\ res' = Expr([ts |-> toks, errs |-> 0])
         /\ UNCHANGED <<tree, toks>>

Parsed == res # NoResult /\ UNCHANGED vars

Next == Parse \/ Parsed

Spec == Init /\ [][Next]_vars

-----------------------------------------------------------------------------
(***************************************************************************)
(* Expr parses every expression of the grammar into the tree the operator *)
(* table gives it, consuming every token: precedenceb, isleftassocb, the   *)
(* "+1" of prefix operators and the greedy postfix loop of exprparse all   *)
(* have to agree with the table, and Peek has to skip the comments.        *)
(***************************************************************************)
SameTree == res # NoResult =>
              /\ res.ok
              /\ Peek(res.p).tok = ""
              /\ res.n = tree

(***************************************************************************)
(* Parsing a well-formed expression records no error in the parser: the    *)
(* errors p.errorf collects are what Parse reports to its caller.          *)
(***************************************************************************)
NoSpuriousError == res # NoResult /\ res.ok => res.p.errs = 0

====
