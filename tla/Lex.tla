--------------------------------- MODULE Lex ---------------------------------
(***************************************************************************)
(* The lexer of package lex (src/lex/lex.go): the grammar of parsers it    *)
(* builds from package primitives, and Lex, the loop that runs their       *)
(* ordered choice `all' once per token.                                    *)
(*                                                                         *)
(* Runes outside TLA+ string escapes are named: "VT" (\v), "BS" (\b),      *)
(* "BEL" (\a), "NUL" (the rune 0 of '\0').                                 *)
(***************************************************************************)
EXTENDS Combinators, SequencesExt

Lower == {"a", "b", "c", "d", "e", "f", "g", "h", "i", "j", "k", "l", "m",
          "n", "o", "p", "q", "r", "s", "t", "u", "v", "w", "x", "y", "z"}
Upper == {"A", "B", "C", "D", "E", "F", "G", "H", "I", "J", "K", "L", "M",
          "N", "O", "P", "Q", "R", "S", "T", "U", "V", "W", "X", "Y", "Z"}
Digits1 == {"1", "2", "3", "4", "5", "6", "7", "8", "9"}
Digits == Digits1 \cup {"0"}

Whitespace == Runes({" ", "\t", "\r", "VT"})
WhitespaceN == OneOrMore(Whitespace)
Whitespace0 == ZeroOrMore(Whitespace)
Linefeed == Rune("\n")

CommentOneline == And(DiscardF(String(<<"/", "/">>)), ZeroOrMore(ExceptString(<<"\n">>)))
CommentMultiline ==
    And(And(Discard(String(<<"/", "*">>)), ZeroOrMore(ExceptString(<<"*", "/">>))),
        DiscardF(Fatal(String(<<"*", "/">>))))

plow == Runes(Lower)
pupp == Runes(Upper)
pdig == Runes(Digits)
pus == Rune("_")
Identifier == And(Or(Or(Or(plow, pupp), pus), plow),
                  ZeroOrMore(Or(Or(Or(pupp, pus), plow), pdig)))

\* escapebuilder: \n \t \v \b \r \f \a \\, then \" for strings, \' and \0
\* for characters
escapebuilder(wantstring) ==
    LET pairs == << <<"n", "\n">>, <<"t", "\t">>, <<"v", "VT">>, <<"b", "BS">>,
                    <<"r", "\r">>, <<"f", "\f">>, <<"a", "BEL">>, <<"\\", "\\">> >>
                 \o IF wantstring THEN << <<"\"", "\"">> >>
                    ELSE << <<"'", "'">>, <<"0", "NUL">> >>
    IN  AnyOf([i \in DOMAIN pairs |-> MapEscape(String(<<"\\", pairs[i][1]>>), pairs[i][2])])

StrLit == And(And(DiscardF(Chomp("\"")),
                  ZeroOrMore(Or(ExceptRunes({"\"", "\\"}), escapebuilder(TRUE)))),
              DiscardF(Fatal(Chomp("\""))))
ChrLit == And(And(DiscardF(Chomp("'")),
                  Or(ExceptRunes({"'", "\\"}), Fatal(escapebuilder(FALSE)))),
              DiscardF(Fatal(Chomp("'"))))
LibLit == And(And(DiscardF(Chomp("<")), OneOrMore(ExceptRunes({">"}))),
              DiscardF(Chomp(">")))

Separators == Runes({"(", ")", "[", "]", "{", "}", ",", ";"})
OpUnary == Or(Runes({"!", "~"}), String(<<"[", "]">>))
OpSet == Rune("=")
OpBinary == Or(Strings(<< <<"<", "<">>, <<">", ">">>, <<"<", "=">>, <<">", "=">>,
                          <<"=", "=">>, <<"!", "=">>, <<"&", "&">>, <<"|", "|">>,
                          <<"-", ">">> >>),
               Runes({".", "*", "/", "%", "+", "-", "<", ">", "&", "^", "|", "?", ":"}))
OpAssign == Error(Strings(<< <<"+", "=">>, <<"-", "=">>, <<"*", "=">>, <<"/", "=">>,
                             <<"%", "=">>, <<"<", "<", "=">>, <<">", ">", "=">>,
                             <<"&", "=">>, <<"^", "=">>, <<"|", "=">> >>))
OpPostfix == Strings(<< <<"-", "-">>, <<"+", "+">> >>)

dirend == DiscardF(Fatal(Rune("\n")))
usestart == Discard(And(String(<<"#", "u", "s", "e">>), Whitespace))
DirectiveUseLib == And(And(And(usestart, LibLit), DiscardF(Whitespace0)), dirend)
DirectiveUseStr == And(And(And(usestart, StrLit), DiscardF(Whitespace0)), dirend)

DecNum == And(Runes(Digits1), ZeroOrMore(pdig))
HexNum == And(Rune("0"),
              Or(And(Runes({"x", "X"}),
                     Fatal(OneOrMore(Or(Or(pdig, Runes({"a", "b", "c", "d", "e", "f"})),
                                        Runes({"A", "B", "C", "D", "E", "F"}))))),
                 Epsilon))

SpecialIds == Strings(<< <<"t", "r", "u", "e">>, <<"f", "a", "l", "s", "e">>, <<"N", "U", "L", "L">> >>)

-----------------------------------------------------------------------------
(* The switches of the Pipe callbacks in Lex: text -> token kind.          *)

PostfixKinds == (<<"+", "+">> :> "DPlus") @@ (<<"-", "-">> :> "DMinus")
AssignKinds ==
    (<<"+", "=">> :> "AssignPlus") @@ (<<"-", "=">> :> "AssignMinus")
    @@ (<<"*", "=">> :> "AssignStar") @@ (<<"/", "=">> :> "AssignSlash")
    @@ (<<"%", "=">> :> "AssignPercent") @@ (<<"<", "<", "=">> :> "AssignDLt")
    @@ (<<">", ">", "=">> :> "AssignDGt") @@ (<<"&", "=">> :> "AssignAmpersand")
    @@ (<<"^", "=">> :> "AssignHat") @@ (<<"|", "=">> :> "AssignPipe")
BinaryKinds ==
    (<<"<", "<">> :> "DLt") @@ (<<">", ">">> :> "DGt") @@ (<<"<", "=">> :> "Le")
    @@ (<<">", "=">> :> "Ge") @@ (<<"=", "=">> :> "Eq") @@ (<<"!", "=">> :> "Ne")
    @@ (<<"&", "&">> :> "DAmpersand") @@ (<<"|", "|">> :> "DPipe") @@ (<<".">> :> "Dot")
    @@ (<<"*">> :> "Star") @@ (<<"/">> :> "Slash") @@ (<<"%">> :> "Percent")
    @@ (<<"+">> :> "Plus") @@ (<<"-">> :> "Minus") @@ (<<"<">> :> "Lt")
    @@ (<<">">> :> "Gt") @@ (<<"&">> :> "Ampersand") @@ (<<"^">> :> "Hat")
    @@ (<<"|">> :> "Pipe") @@ (<<"?">> :> "Quest") @@ (<<":">> :> "Colon")
    @@ (<<"-", ">">> :> "Arrow")
UnaryKinds == (<<"!">> :> "Exclam") @@ (<<"~">> :> "Worm") @@ (<<"[", "]">> :> "Brackets")
SeparatorKinds ==
    (<<"(">> :> "LParen") @@ (<<")">> :> "RParen") @@ (<<"[">> :> "LBrack")
    @@ (<<"]">> :> "RBrack") @@ (<<"{">> :> "LCurly") @@ (<<"}">> :> "RCurly")
    @@ (<<",">> :> "Comma") @@ (<<";">> :> "Semicolon")
SpecialKinds ==
    (<<"t", "r", "u", "e">> :> "True") @@ (<<"f", "a", "l", "s", "e">> :> "False")
    @@ (<<"N", "U", "L", "L">> :> "Null")

\* mutant: binary operators are tried before assignment operators
LexAlternativesBinaryFirst ==
    << WhitespaceN, Linefeed, Pipe(CommentOneline, "CommentOne"),
       Pipe(CommentMultiline, "CommentMulti"), Pipe(HexNum, "HexNum"),
       Pipe(DecNum, "DecNum"), Pipe(StrLit, "StrLit"), Pipe(ChrLit, "ChrLit"),
       PipeSwitch(OpPostfix, PostfixKinds), PipeSwitch(OpBinary, BinaryKinds),
       PipeSwitch(OpAssign, AssignKinds), Pipe(OpSet, "Assign"),
       PipeSwitch(OpUnary, UnaryKinds), PipeSwitch(Separators, SeparatorKinds),
       Pipe(DirectiveUseLib, "UseLibLit"), Pipe(DirectiveUseStr, "UseStrLit"),
       PipeSwitch(SpecialIds, SpecialKinds), Pipe(Identifier, "Id") >>

\* the alternatives of `all', in order; whitespace and lone linefeeds are
\* piped to callbacks that emit nothing
LexAlternatives ==
    << WhitespaceN, Linefeed, Pipe(CommentOneline, "CommentOne"),
       Pipe(CommentMultiline, "CommentMulti"), Pipe(HexNum, "HexNum"),
       Pipe(DecNum, "DecNum"), Pipe(StrLit, "StrLit"), Pipe(ChrLit, "ChrLit"),
       PipeSwitch(OpPostfix, PostfixKinds), PipeSwitch(OpAssign, AssignKinds),
       PipeSwitch(OpBinary, BinaryKinds), Pipe(OpSet, "Assign"),
       PipeSwitch(OpUnary, UnaryKinds), PipeSwitch(Separators, SeparatorKinds),
       Pipe(DirectiveUseLib, "UseLibLit"), Pipe(DirectiveUseStr, "UseStrLit"),
       PipeSwitch(SpecialIds, SpecialKinds), Pipe(Identifier, "Id") >>

\* all: the alternatives chained with Or, the value discarded after each
LexAll == Discard(FoldLeft(Or, Head(LexAlternatives), Tail(LexAlternatives)))

-----------------------------------------------------------------------------
(* Lex: the loop over the input.                                           *)
(*                                                                         *)
(* The input is a plan: tokens of the alphabet (spec section 6), each      *)
(* written out and followed by a separator, and then possibly one piece    *)
(* of text that is not a token.                                            *)

CONSTANTS
    Samples,    \* tokens: [kind, text (source runes), val (the lexeme)]
    Seps,       \* separators written after a token
    Bad,        \* texts that are not a token
    MaxToks     \* tokens in an input

Chunk(pl, i) == pl.ss[i].text \o <<pl.seps[i]>>
Render(pl) == FlattenSeq([i \in DOMAIN pl.ss |-> Chunk(pl, i)]) \o pl.bad

VARIABLES
    plan,       \* the tokens the input was written from
    st,         \* the *pr.State Lex threads through the loop
    toks,       \* the emitted tokens: [kind, val, line0, col0, line, col]
    errs,       \* the errors collected
    prevlen,    \* len(state.Left()) after the previous iteration
    pc          \* "loop", or "done" once Lex has returned

vars == <<plan, st, toks, errs, prevlen, pc>>

\* the formatter follows a // comment by a linefeed: the comment runs to the
\* end of its line
Init == /\ \E n \in 0..MaxToks :
             \E ss \in [1..n -> Samples], seps \in [1..n -> Seps], b \in {<<>>} \cup Bad :
                /\ \A i \in 1..n : ss[i].kind = "CommentOne" => seps[i] = "\n"
                /\ plan = [ss |-> ss, seps |-> seps, bad |-> b]
        /\ st = NewState(Render(plan))
        /\ toks = <<>>
        /\ errs = <<>>
        /\ prevlen = Len(st.left)
        /\ pc = "loop"

\* one iteration: run all at the current position, emit the token its Pipe
\* callback built, collect its error, and bail if nothing was consumed
LexStep == /\ pc = "loop"
           /\ st.left # <<>>
           /\ LET r == Do(LexAll, st)
              IN  /\ toks' = IF r.tok = NoTok THEN toks
                             ELSE Append(toks, [kind |-> r.tok.kind, val |-> r.tok.val,
                                                line0 |-> st.line, col0 |-> st.col,
                                                line |-> r.tok.line, col |-> r.tok.col])
                  /\ errs' = IF r.err = "none" THEN errs ELSE Append(errs, r.err)
                  /\ st' = r.st
                  /\ prevlen' = Len(r.st.left)
                  /\ pc' = IF prevlen = Len(r.st.left) THEN "done" ELSE "loop"
           /\ UNCHANGED plan

\* the loop ends when no input is left
LexEnd == /\ pc = "loop"
          /\ st.left = <<>>
          /\ pc' = "done"
          /\ UNCHANGED <<plan, st, toks, errs, prevlen>>

Returned == pc = "done" /\ UNCHANGED vars

Next == LexStep \/ LexEnd \/ Returned

Spec == Init /\ [][Next]_vars

-----------------------------------------------------------------------------
(* Properties.                                                             *)

\* the position after text t, counted from line 1, column 1
PosAfter(t) ==
    LET nl == {i \in DOMAIN t : t[i] = "\n"}
    IN  [line |-> 1 + Cardinality(nl),
         col |-> IF nl = {} THEN Len(t) + 1 ELSE Len(t) - Max(nl) + 1]

\* the text before the i-th token of the plan
Before(i) == FlattenSeq([j \in 1..(i - 1) |-> Chunk(plan, j)])

(***************************************************************************)
(* Lexing what the formatter wrote gives back its tokens (spec section 9:  *)
(* lex of format(tokens) gives the same token kinds), with their lexemes.  *)
(* Text that is not a token is one error and ends Lex: the loop bails when *)
(* an iteration consumes nothing, and a Fatal parser's panic is recovered  *)
(* at the iteration's start.  This relies on the order of the Or chain in  *)
(* Lex, on the greediness of every alternative, and on how Discard,        *)
(* Chomp and the escape Map build the value.                               *)
(***************************************************************************)
LexMatchesTokens ==
    /\ Len(errs) <= 1
    /\ pc = "done" =>
         /\ [i \in DOMAIN toks |-> [kind |-> toks[i].kind, val |-> toks[i].val]]
              = [i \in DOMAIN plan.ss |-> [kind |-> plan.ss[i].kind, val |-> plan.ss[i].val]]
         /\ (errs = <<>>) = (plan.bad = <<>>)

(***************************************************************************)
(* Every token the lexer got right so far (its kind and the kinds of    *)
(* the tokens before it are the plan's) has a span that runs from the     *)
(* line and column of its first rune to the position just after its last  *)
(* one (as TestLexComments expects), through the position bookkeeping of  *)
(* advance, of Chomp (which moves but keeps no value) and of Discard,     *)
(* which keeps the position it reached.                                   *)
(***************************************************************************)
SpansMatchText ==
    \A i \in DOMAIN toks :
        (\A j \in 1..i : j <= Len(plan.ss) /\ toks[j].kind = plan.ss[j].kind) =>
          /\ [line |-> toks[i].line0, col |-> toks[i].col0] = PosAfter(Before(i))
          /\ [line |-> toks[i].line, col |-> toks[i].col] = PosAfter(Before(i) \o plan.ss[i].text)

=============================================================================
