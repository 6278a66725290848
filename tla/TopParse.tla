------------------------------ MODULE TopParse ------------------------------
(***************************************************************************)
(* The top-level parser and the #use directive: Parser.Parse and its       *)
(* resynchronisation (src/unnamed/part_011), GlobalDeclDef, TopVarDecl,    *)
(* VarDecl, FuncParams, FuncDecl, FuncDeclDef, TypedefDef                  *)
(* (src/unnamed/part_009), Type and Block (src/parse/type.go),             *)
(* DirectiveUse (src/parse/directive.go), handleUse and AddTypedef, over   *)
(* the token FIFO of src/token/token.go.                                   *)
(*                                                                         *)
(* A #use parses the used file with a new Parser (NewFile) inside the      *)
(* GlobalDeclDef call of the parser that met it; the Go call stack of      *)
(* nested Parse calls is the sequence `stack' of frames, one per Parser:   *)
(* [file, pos, errs, nodes, typedefs, at].  pos indexes the file's tokens  *)
(* (the FIFO is the suffix from pos); at is the position of the #use       *)
(* token in the parent.  p.errs is kept as a set of [file, at, what,       *)
(* name]; the message text is abstracted to what it reports.               *)
(*                                                                         *)
(* The token alphabet has no comments, '*', '[]', ',' or struct, so        *)
(* Peek never skips, Type reads one identifier, and the struct branches    *)
(* of TopVarDecl are never taken.  Every '{' is followed by '}', so Block  *)
(* never calls Stmt (the statement parser is modelled in CfgAst and        *)
(* ExprParse).  A used file is assumed to lex without errors.              *)
(***************************************************************************)
EXTENDS Integers, Sequences, SequencesExt, FiniteSets, Relation

\* tokens: [k, v]; a #use token carries the file it names
Tok(k, v) == [k |-> k, v |-> v]
Id(v) == Tok("Id", v)
P(k) == Tok(k, "")
NoTok == Tok("none", "")

\* analyze.IsValidPrimitive and analyze.IsReserved (src/unnamed/part_007)
ValidPrimitives == {"int", "bool", "char", "void", "string", "struct"}
Reserved == {"if", "while", "for", "return", "assert", "error", "typedef",
             "struct", "int", "bool", "void", "string", "char", "NULL",
             "true", "false", "alloc", "alloc_array", "break", "continue"}

VARIABLES
    src,        \* file -> its tokens, as lex.Lex returned them
    stack,      \* the Parsers whose Parse calls are active, outermost first
    phase,      \* "parsing", "done" (the outer Parse returned) or "crashed"
    raised      \* every error any Parser has recorded (history)

vars == <<src, stack, phase, raised>>

\* the result of a sub-parser: the frame after it, success, value
R(fr, ok, val) == [fr |-> fr, ok |-> ok, val |-> val]

\* Tokens.Peek and Tokens.Pop (Pop on an empty FIFO changes nothing)
Peek(fr) == IF fr.pos <= Len(src[fr.file]) THEN src[fr.file][fr.pos] ELSE NoTok
Pop(fr) == IF fr.pos <= Len(src[fr.file]) THEN [fr EXCEPT !.pos = @ + 1] ELSE fr
\* Tokens.Accept: pop the current token if it is of kind k
Accept(fr, k) == IF Peek(fr).k = k THEN R(Pop(fr), TRUE, "") ELSE R(fr, FALSE, "")

\* Parser.errorf: record an error at token position at
Err(fr, at, what) ==
    [fr EXCEPT !.errs = @ \cup {[file |-> fr.file, at |-> at, what |-> what, name |-> ""]}]

RECURSIVE Find(_)
\* Tokens.Find(Semicolon, RCurly): pop until one of them is current
Find(fr) == IF Peek(fr).k \in {"none", "Semicolon", "RCurly"} THEN fr ELSE Find(Pop(fr))

\* Parser.Type: a primitive or a typedef name defined in this Parser
Type(fr) ==
    LET atom == Peek(fr)
    IN  CASE atom.k # "Id" -> R(fr, FALSE, "")
          [] atom.v \notin ValidPrimitives /\ atom.v \notin fr.typedefs ->
               R(Err(fr, fr.pos, "typedef not defined"), FALSE, "")
          [] OTHER -> R(Pop(fr), TRUE, atom.v)

(***************************************************************************)
(* Each sub-parser that calls another continues in an operator that takes *)
(* the callee's result as a parameter, in the order of the Go code.        *)
(***************************************************************************)

\* VarDecl and TopVarDecl after Parser.Type returned t: the name; TopVarDecl
\* also lets '{' through as the name
varDeclName(fr, isTop, t) ==
    LET next == Peek(t.fr)
    IN  CASE ~t.ok -> t
          [] next = NoTok -> R(t.fr, FALSE, "")
          [] next.k \notin (IF isTop THEN {"Id", "LCurly"} ELSE {"Id"}) ->
               R(Err(t.fr, fr.pos, "not a var declaration"), FALSE, "")
          [] next.v \in Reserved -> R(Err(t.fr, t.fr.pos, "reserved identifier"), FALSE, "")
          [] OTHER -> R(Pop(t.fr), TRUE, [name |-> next.v, type |-> t.val])

\* Parser.VarDecl (isTop = FALSE) and Parser.TopVarDecl (isTop = TRUE)
VarDecl(fr, isTop) == varDeclName(fr, isTop, Type(fr))

RECURSIVE params(_, _)
\* the loop of FuncParams after VarDecl returned d: ')' ends it
paramsNext(first, d) ==
    LET pc == Peek(d.fr)
    IN  CASE ~d.ok -> R(Err(d.fr, first, "unexpected parameter list contents"), FALSE, "")
          [] pc = NoTok -> R(Err(d.fr, first, "unexpected end of parameter list"), FALSE, "")
          [] pc.k = "RParen" -> R(Pop(d.fr), TRUE, "")
          [] OTHER -> params(d.fr, first)

\* the loop of FuncParams: declarations up to ')'
params(fr, first) == paramsNext(first, VarDecl(fr, FALSE))

\* Parser.FuncParams, after '('
FuncParams(fr) ==
    CASE Peek(fr) = NoTok -> R(fr, FALSE, "")
      [] Peek(fr).k = "RParen" -> Accept(fr, "RParen")
      [] OTHER -> params(fr, fr.pos)

\* Parser.FuncDecl: '(' and the parameters
FuncDecl(fr) ==
    LET a == Accept(fr, "LParen")
    IN  CASE Peek(fr) = NoTok -> R(fr, FALSE, "")
          [] ~a.ok -> R(Err(fr, fr.pos, "invalid function declaration"), FALSE, "")
          [] OTHER -> FuncParams(a.fr)

\* Parser.Block on '{' '}'
Block(fr) ==
    LET c == Accept(Pop(fr), "RCurly")
    IN  CASE Peek(fr).k # "LCurly" -> R(fr, FALSE, "")
          [] ~c.ok -> R(Err(c.fr, fr.pos, "block not terminated"), FALSE, "")
          [] OTHER -> R(c.fr, TRUE, "")

\* FuncDeclDef after FuncDecl returned d: ';' or a body
funcDeclDefBody(fr, vd, d) ==
    LET s == Accept(d.fr, "Semicolon")
        b == Block(d.fr)
    IN  CASE ~d.ok -> d
          [] s.ok -> R(s.fr, TRUE, [k |-> "fundecl", name |-> vd.name])
          [] b.ok -> R(b.fr, TRUE, [k |-> "fundef", name |-> vd.name])
          [] OTHER -> R(Err(b.fr, fr.pos, "invalid function body"), FALSE, "")

\* Parser.FuncDeclDef: a declaration ending in ';' or a definition
FuncDeclDef(fr, vd) == funcDeclDefBody(fr, vd, FuncDecl(fr))

\* an error as errorf records it; AddTypedef's plain error has no token
ErrRec(fr, at, what, name) == [file |-> fr.file, at |-> at, what |-> what, name |-> name]

\* mutant: a typedef name already in the table is added again
AddTypedefNoDup(fr, at, name) ==
    IF name \in Reserved
    THEN R(Err(fr, at, "typedef name is reserved"), FALSE, ErrRec(fr, at, "typedef name is reserved", ""))
    ELSE R([fr EXCEPT !.typedefs = @ \cup {name}], TRUE, "")

\* Parser.AddTypedef: its error is returned, recorded by errorf only for a
\* reserved name
AddTypedef(fr, at, name) ==
    CASE name \in Reserved ->
           R(Err(fr, at, "typedef name is reserved"), FALSE, ErrRec(fr, at, "typedef name is reserved", ""))
      [] name \in fr.typedefs -> R(fr, FALSE, ErrRec(fr, 0, "typedef already defined", name))
      [] OTHER -> R([fr EXCEPT !.typedefs = @ \cup {name}], TRUE, "")

\* TypedefDef after AddTypedef returned ad
typedefAdded(at, name, isFunc, ad) ==
    IF ~ad.ok THEN R(Err(ad.fr, at, "invalid typedef"), FALSE, "")
    ELSE R(ad.fr, TRUE, [k |-> IF isFunc THEN "typedeffunc" ELSE "typedef", name |-> name])

\* TypedefDef at the ';' (fr is after the name or the parameter list)
typedefSemicolon(at, name, isFunc, fr) ==
    LET s == Accept(fr, "Semicolon")
    IN  IF ~s.ok THEN R(Err(fr, at, "typedef missing ';'"), FALSE, "")
        ELSE typedefAdded(at, name, isFunc, AddTypedef(s.fr, at, name))

\* TypedefDef after FuncParams returned fp: its error is returned as it is
typedefParams(at, name, fp) ==
    IF ~fp.ok THEN R(fp.fr, FALSE, "") ELSE typedefSemicolon(at, name, TRUE, fp.fr)

\* TypedefDef after Parser.Type returned t: the name, then '(' or not
typedefName(fr, t) ==
    LET aid == Peek(t.fr)
        lp == Accept(Pop(t.fr), "LParen")
    IN  CASE ~t.ok -> R(Err(t.fr, fr.pos, "invalid typedef kind"), FALSE, "")
          [] aid.k # "Id" -> R(Err(t.fr, fr.pos, "expecting typedef identifier"), FALSE, "")
          [] aid.v \in Reserved -> R(Err(t.fr, t.fr.pos, "typedef identifier is reserved"), FALSE, "")
          [] lp.ok -> typedefParams(t.fr.pos, aid.v, FuncParams(lp.fr))
          [] OTHER -> typedefSemicolon(t.fr.pos, aid.v, FALSE, lp.fr)

\* Parser.TypedefDef on 'typedef': a type, a name, optional parameters, ';'
TypedefDef(fr) == typedefName(fr, Type(Pop(fr)))

\* the node GlobalDeclDef returns after a failed FuncDeclDef
NilNode == [k |-> "nil", name |-> ""]
UseNode(g) == [k |-> "use", name |-> g]

\* GlobalDeclDef after FuncDeclDef returned fd: a failure is recorded, but
\* (nil, nil) is returned
globalFunc(fr, fd) ==
    IF fd.ok THEN fd
    ELSE R(Err(fd.fr, fr.pos, "invalid function definition/declaration"), TRUE, NilNode)

\* GlobalDeclDef after TopVarDecl returned tv
globalVar(fr, tv) ==
    IF tv.ok THEN globalFunc(fr, FuncDeclDef(tv.fr, tv.val))
    ELSE R(Err(tv.fr, fr.pos, "invalid statement"), FALSE, "")

\* Parser.GlobalDeclDef on anything but a #use token
GlobalDeclDef(fr) ==
    LET first == Peek(fr)
    IN  CASE first.k = "Id" /\ first.v = "typedef" -> TypedefDef(fr)
          [] first.k = "Id" -> globalVar(fr, VarDecl(fr, TRUE))
          [] OTHER -> R(Err(fr, fr.pos, "unexpected statement token"), FALSE, "")

\* mutant: the token Find stops at is not popped
resyncNoPop(fr) == Find(fr)

\* Parse after a failed GlobalDeclDef: toks.Find(Semicolon, RCurly); toks.Pop()
resync(fr) == Pop(Find(fr))

\* Parse's loop after GlobalDeclDef returned r
parsed(r) == IF r.ok THEN [r.fr EXCEPT !.nodes = Append(@, r.val)] ELSE resync(r.fr)

\* one iteration of Parse's loop on a token that is not a #use
ParseIteration(fr) == parsed(GlobalDeclDef(fr))

\* mutant: a failed #use reports itself but drops the inner errors
handleUseNoInner(fr, at, use) ==
    IF ~use.success THEN Err(fr, at, "errors in #use")
    ELSE [fr EXCEPT !.typedefs = @ \cup {td \in use.typedefs : AddTypedef(fr, at, td).ok},
                    !.nodes = @ \o use.nodes]

\* Parser.handleUse: use is the DirectiveUse's [success, errs, nodes, typedefs]
handleUse(fr, at, use) ==
    LET added == {td \in use.typedefs : AddTypedef(fr, at, td).ok}
        failed == {AddTypedef(fr, at, td).val : td \in use.typedefs \ added}
    IN  IF ~use.success
          THEN Err([fr EXCEPT !.errs = @ \cup use.errs], at, "errors in #use")
          ELSE [fr EXCEPT !.typedefs = @ \cup added, !.errs = @ \cup failed,
                          !.nodes = @ \o use.nodes]

-----------------------------------------------------------------------------
(* The input: each file is a plan of top-level items, written out as the  *)
(* tokens lex.Lex makes of them.                                           *)

CONSTANTS
    Files,        \* the files that can be read
    Root,         \* the file given to the outer Parse
    Missing,      \* a file name ReadFile fails on
    Decls,        \* the items other than #use: [k, name]
    MaxItems,     \* items per file
    MaxStack,     \* nested Parse calls before the goroutine stack overflows
    AllowCycles   \* whether a file may use itself, directly or not

ASSUME Root \in Files /\ Missing \notin Files /\ MaxStack \in Nat

UseItems == {[k |-> "use", name |-> g] : g \in Files \cup {Missing}}

\* the tokens of an item
ItemToks(it) ==
    CASE it.k = "use" -> <<Tok("Use", it.name)>>
      [] it.k = "typedef" -> <<Id("typedef"), Id("int"), Id(it.name), P("Semicolon")>>
      \* typedef int name ( at the end of the text
      [] it.k = "typedefopen" -> <<Id("typedef"), Id("int"), Id(it.name), P("LParen")>>
      \* a function declaration with return type name
      [] it.k = "fundecl" -> <<Id(it.name), Id("f"), P("LParen"), P("RParen"), P("Semicolon")>>
      [] it.k = "fundef" -> <<Id("int"), Id("f"), P("LParen"), P("RParen"), P("LCurly"), P("RCurly")>>
      \* a global variable, which the parser does not accept
      [] it.k = "globalvar" -> <<Id("int"), Id("x"), P("Semicolon")>>
      [] it.k = "stray" -> <<P("Semicolon")>>

Render(items) == FlattenSeq([i \in DOMAIN items |-> ItemToks(items[i])])

\* f uses g
Uses(pl) == [x, y \in Files |-> \E i \in DOMAIN pl[x] : pl[x][i] = [k |-> "use", name |-> y]]
Acyclic(pl) == IsIrreflexive(TransitiveClosure(Uses(pl), Files), Files)

VARIABLE plan   \* file -> its items

NewFrame(g, at) == [file |-> g, pos |-> 1, errs |-> {}, nodes |-> <<>>, typedefs |-> {}, at |-> at]

Init == /\ plan \in {pl \in [Files -> BoundedSeq(Decls \cup UseItems, MaxItems)] :
                      AllowCycles \/ Acyclic(pl)}
        /\ src = [f \in Files |-> Render(plan[f])]
        /\ stack = <<NewFrame(Root, 0)>>
        /\ phase = "parsing"
        /\ raised = {}

Top == stack[Len(stack)]
SetTop(fr) == [stack EXCEPT ![Len(stack)] = fr]
AtEnd(fr) == fr.pos > Len(src[fr.file])

\* one iteration of Parse's loop that is not a #use
ParseStep == /\ phase = "parsing"
             /\ ~AtEnd(Top)
             /\ Peek(Top).k # "Use"
             /\ stack' = SetTop(ParseIteration(Top))
             /\ raised' = raised \cup stack'[Len(stack)].errs
             /\ UNCHANGED <<plan, src, phase>>

\* GlobalDeclDef on a #use token: DirectiveUse pops it and reads the file.
\* A file that cannot be read gives a failed DirectiveUse at once; one that
\* can is parsed by a new Parser, a nested call (or the stack overflows).
EnterUse == /\ phase = "parsing"
            /\ ~AtEnd(Top)
            /\ Peek(Top).k = "Use"
            /\ LET g == Peek(Top).v
                   fr == [Pop(Top) EXCEPT !.nodes = Append(@, UseNode(g))]
                   failed == [success |-> FALSE, errs |-> {}, nodes |-> <<>>, typedefs |-> {}]
               IN  CASE g \notin Files ->
                          /\ stack' = SetTop(handleUse(fr, Top.pos, failed))
                          /\ raised' = raised \cup stack'[Len(stack')].errs
                          /\ UNCHANGED phase
                     [] Len(stack) = MaxStack ->
                          /\ phase' = "crashed"
                          /\ UNCHANGED <<stack, raised>>
                     [] OTHER ->
                          /\ stack' = Append([stack EXCEPT ![Len(stack)] = Pop(Top)],
                                             NewFrame(g, Top.pos))
                          /\ UNCHANGED <<phase, raised>>
            /\ UNCHANGED <<plan, src>>

\* the nested Parse returns: DirectiveUse builds the node from the inner
\* Parser, the outer Parse appends it and calls handleUse
ReturnUse == /\ phase = "parsing"
             /\ Len(stack) > 1
             /\ AtEnd(Top)
             /\ LET parent == stack[Len(stack) - 1]
                    use == [success |-> Top.errs = {}, errs |-> Top.errs,
                            nodes |-> Top.nodes, typedefs |-> Top.typedefs]
                    fr == handleUse([parent EXCEPT !.nodes = Append(@, UseNode(Top.file))],
                                    Top.at, use)
                IN  /\ stack' = Append(SubSeq(stack, 1, Len(stack) - 2), fr)
                    /\ raised' = raised \cup fr.errs
             /\ UNCHANGED <<plan, src, phase>>

\* the outer Parse returns
Finish == /\ phase = "parsing"
          /\ Len(stack) = 1
          /\ AtEnd(Top)
          /\ phase' = "done"
          /\ UNCHANGED <<plan, src, stack, raised>>

Stopped == phase # "parsing" /\ UNCHANGED <<plan, vars>>

\* a step of the running compiler
Step == ParseStep \/ EnterUse \/ ReturnUse \/ Finish

Next == Step \/ Stopped

Running == phase = "parsing"

(***************************************************************************)
(* The compiler is one thread: while it runs, its next step happens.  This *)
(* is weak fairness of Step, with Running for ENABLED <<Step>>_vars: every *)
(* Step changes the state (ParseStep by ParseAdvances below, the others   *)
(* by their frames or phase), and while Running some Step is enabled (a   *)
(* state where none is would be a deadlock, which the runs check).        *)
(***************************************************************************)
Spec == /\ Init /\ [][Next]_<<plan, vars>>
        /\ <>[]Running => []<><<Step>>_<<plan, vars>>

-----------------------------------------------------------------------------
(* The reference, from spec sections 4.2.4 and 4.2.5: a file is accepted  *)
(* when each item is a well-formed top-level item (a typedef, a function  *)
(* declaration whose return type is a primitive or a typedef defined      *)
(* before it, a function definition, a variable declaration, or a #use)  *)
(* and each used file can be read and is accepted.  A #use runs the       *)
(* pipeline on the used file on its own, then splices that file's nodes   *)
(* after the DirectiveUse node and merges its typedef names; dup records  *)
(* a typedef name defined twice, in one file or across a #use.            *)

RECURSIVE Ref(_), RefFrom(_, _, _)
RefFrom(f, i, acc) ==
    IF i > Len(plan[f]) THEN acc
    ELSE LET it == plan[f][i]
             r == Ref(it.name)
             nxt ==
               CASE it.k = "typedef" ->
                      [acc EXCEPT !.dup = @ \/ it.name \in acc.tds, !.tds = @ \cup {it.name},
                                  !.nodes = Append(@, [k |-> "typedef", name |-> it.name])]
                 [] it.k = "fundecl" ->
                      [acc EXCEPT !.ok = @ /\ (it.name \in ValidPrimitives \/ it.name \in acc.tds),
                                  !.nodes = Append(@, [k |-> "fundecl", name |-> "f"])]
                 [] it.k = "fundef" ->
                      [acc EXCEPT !.nodes = Append(@, [k |-> "fundef", name |-> "f"])]
                 [] it.k = "globalvar" ->
                      [acc EXCEPT !.nodes = Append(@, [k |-> "vardecl", name |-> it.name])]
                 [] it.k = "use" /\ it.name \in Files ->
                      [ok |-> acc.ok /\ r.ok, dup |-> acc.dup \/ r.dup \/ r.tds \cap acc.tds # {},
                       tds |-> acc.tds \cup r.tds,
                       nodes |-> Append(acc.nodes, UseNode(it.name)) \o r.nodes]
                 [] OTHER -> [acc EXCEPT !.ok = FALSE]
         IN  RefFrom(f, i + 1, nxt)
Ref(f) == RefFrom(f, 1, [ok |-> TRUE, dup |-> FALSE, tds |-> {}, nodes |-> <<>>])

-----------------------------------------------------------------------------
(* Properties.                                                             *)

(***************************************************************************)
(* Spec 4.2.4: when the outer Parse returns, it returns no error exactly  *)
(* when every item of the program and of the files it uses is a top-level *)
(* item, global variable declarations included, and no typedef is defined *)
(* twice; then its nodes are the program's nodes with every used file     *)
(* spliced in after its #use.  GlobalDeclDef sends a variable declaration *)
(* only to FuncDeclDef (part_009:384), so int x; is refused: with         *)
(* Decls <- MCDecls TLC finds this violated.                               *)
(***************************************************************************)
ParseResult ==
    phase = "done" =>
      LET ref == Ref(Root)
      IN  /\ (stack[1].errs = {}) = (ref.ok /\ ~ref.dup)
          /\ ref.ok /\ ~ref.dup => stack[1].nodes = ref.nodes

(***************************************************************************)
(* Spec 4.2.5: a #use merges the used file's typedefs into the user's      *)
(* table, and a typedef name must not be defined twice, in one file or     *)
(* across files (a header used twice included).  So when the outer Parse  *)
(* returns no error, no typedef of the program and the files it uses, at   *)
(* any depth, is defined twice and its table holds exactly their names.   *)
(* This is about AddTypedef's duplicate check and handleUse copying the   *)
(* inner Parser's table into the outer one name by name.                   *)
(***************************************************************************)
TypedefsMerged ==
    phase = "done" /\ stack[1].errs = {} =>
      LET ref == Ref(Root)
      IN  ~ref.dup /\ stack[1].typedefs = ref.tds

(***************************************************************************)
(* Every error recorded by the Parser of a used file, at any depth of     *)
(* #use, reaches the outer Parser's error list (spec 4.2.5: all inner     *)
(* errors propagate): DirectiveUse collects the inner Parser's errors and *)
(* handleUse appends them before reporting the failed #use.               *)
(***************************************************************************)
ErrorsPropagate == phase = "done" => raised \subseteq stack[1].errs

(***************************************************************************)
(* Each iteration of Parse's loop on a token other than #use consumes at  *)
(* least one token: when GlobalDeclDef fails without moving, Parse's      *)
(* Find(Semicolon, RCurly) stops at the current token and its Pop must     *)
(* take it, or the loop spins on the same token forever.                   *)
(***************************************************************************)
ParseAdvances ==
    Running /\ ~AtEnd(Top) /\ Peek(Top).k # "Use" => ParseIteration(Top).pos > Top.pos

(***************************************************************************)
(* Parse returns: the loop of each Parser and the chain of nested #use    *)
(* calls end, as long as the compiler keeps running.  DirectiveUse keeps  *)
(* no set of the files being parsed (directive.go:47), so a use cycle    *)
(* breaks this; no run keeps it.                                          *)
(***************************************************************************)
ParseTerminates == <>(phase = "done")

=============================================================================
