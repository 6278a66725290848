------------------------------- MODULE Analyzer ------------------------------
(***************************************************************************)
(* The semantic analyzer (src/analyze/scope.go, src/unnamed/part_008,      *)
(* src/unnamed/part_012) over functions whose bodies use int and bool      *)
(* variables, literals, +, <, ?:, calls, if, while, return, break and      *)
(* continue, and the top-level typedefs, struct definitions and struct    *)
(* forward declarations that give declarations their types.              *)
(*                                                                         *)
(* Analyzer.check is one depth-first pass that threads mutable state; the  *)
(* record A below is that state, and check is a RECURSIVE operator that   *)
(* passes it through the calls in the code's order:                       *)
(*   errs      the diagnostics, a bag of [e, at] (the kind and node id)    *)
(*   scope     the scope chain, innermost last: name -> type per scope     *)
(*   funcs     res.Functions: name -> [ptr, ret, params]                   *)
(*   nptr      the number of *types.Function values allocated so far      *)
(*   curfunc   the current function, or NoFunc                             *)
(*   loops     the depth of the loop stack                                 *)
(*   types     res.NodeTypes: node id -> type                              *)
(*   canassign the lvalue set                                              *)
(*   tvals     ternaryvals: ':' node id -> seen                            *)
(*   returns   *types.Function -> number of returns checked                *)
(*   typedefs, structs, fwds  res.Typedefs, res.Structs, res.StructFwds    *)
(*   saccess   structaccess: node id -> the struct a "." may read          *)
(*   panic     the analyzer panicked                                       *)
(* Node ids are paths in the program, so every node is distinct.          *)
(***************************************************************************)
EXTENDS Integers, Sequences, FiniteSets, Bags, BagsExt

CONSTANTS
    Names,      \* variable names
    Funcs,      \* function names, disjoint from Names
    VarTypes,   \* types a variable is declared with: "int", "bool", "void",
                \* or a name of TypedefNames or StructNames
    TypedefNames, \* typedef names (Kind KIND_TYPEDEF)
    StructNames,  \* struct names (Kind KIND_STRUCT), disjoint from TypedefNames
    RetTypes,   \* return types of functions
    ExprOps,    \* operators that occur: "ADD", "LT", "EQ", "COND", "VALS", "CALL",
                \* and the unary "NEG" (-) and "NOT" (!)
    StmtKinds,  \* statement kinds that occur
    MaxStmts,   \* statements of a function body
    InnerStmts, \* statements of a nested block
    MaxDepth,   \* nesting of blocks inside the body
    MaxParams,  \* parameters of a function
    Shapes      \* top-level sequences: each item [k, name] with k "decl", "def",
                \* "typedef", "struct" or "fwd" (a struct forward declaration)

-----------------------------------------------------------------------------
(* Semantic types (part_012): a base type and, for functions, the          *)
(* signature <<returns, parameter types>>; pointer and array levels are 0. *)

Prim(t) == [t |-> t, sig |-> <<>>]
TInt == Prim("int")
TBool == Prim("bool")
TVoid == Prim("void")
FuncType(f) == [t |-> "func", sig |-> <<f.ret, f.params>>]
\* TYPE_STRUCT with its *types.Struct (name and fields), TYPE_STRUCT_FWD
\* with its *types.StructForward (name)
StructType(name, fields) == [t |-> "struct", sig |-> <<[name |-> name, fields |-> fields]>>]
FwdType(name) == [t |-> "structfwd", sig |-> <<[name |-> name]>>]

\* Type.Matches, Function.Matches, Types.Matches, Struct.Matches:
\* structural equality (forwards match by name)
Matches(k, k2) == k.t = k2.t /\ k.sig = k2.sig

NoType == [t |-> "none", sig |-> <<>>]
NoFunc == [ptr |-> 0, ret |-> TVoid, params |-> <<>>]

-----------------------------------------------------------------------------
(* The analyzer's state and its primitive operations (part_008).           *)

\* New / reset: an empty root scope and empty tables
A0 == [errs |-> EmptyBag, scope |-> <<[y \in {} |-> TInt]>>,
       funcs |-> [y \in {} |-> NoFunc], nptr |-> 0, curfunc |-> NoFunc,
       loops |-> 0, types |-> [y \in {} |-> TInt], canassign |-> {},
       tvals |-> [y \in {} |-> 0], returns |-> [y \in {} |-> 0],
       typedefs |-> [y \in {} |-> TInt], structs |-> [y \in {} |-> <<>>],
       fwds |-> {}, saccess |-> [y \in {} |-> [name |-> "", fields |-> <<>>]], panic |-> FALSE]

Panic(A) == [A EXCEPT !.panic = TRUE]

\* errorf: append a diagnostic of kind e at node id
errorf(A, e, id) == [A EXCEPT !.errs = BagAdd(@, [e |-> e, at |-> id])]

\* setType panics when a node is typed twice
setType(A, id, k) ==
    IF id \in DOMAIN A.types THEN Panic(A)
    ELSE [A EXCEPT !.types = (id :> k) @@ @]

getType(A, id) == IF id \in DOMAIN A.types THEN A.types[id] ELSE NoType

\* setAssignable panics when a node is marked twice
setAssignable(A, id) ==
    IF id \in A.canassign THEN Panic(A)
    ELSE [A EXCEPT !.canassign = @ \cup {id}]

isAssignable(A, id) == id \in A.canassign

\* setStructAccess / getStructAccess: the struct is its sig entry [name, fields]
setStructAccess(A, id, st) == [A EXCEPT !.saccess = (id :> st) @@ @]
NoStruct == [name |-> "", fields |-> <<>>]
getStructAccess(A, id) == IF id \in DOMAIN A.saccess THEN A.saccess[id] ELSE NoStruct

getFunction(A, name) == IF name \in DOMAIN A.funcs THEN A.funcs[name] ELSE NoFunc

\* setFunction: FunctionFromNodeFunDecl allocates a new *types.Function;
\* a name already bound to a different signature is an error
setFunction(A, n) ==
    LET f == [ptr |-> A.nptr + 1, ret |-> Prim(n.ret),
              params |-> [i \in 1..Len(n.params) |-> Prim(n.params[i].ty)]]
        A1 == [A EXCEPT !.nptr = @ + 1]
    IN  IF n.name \in DOMAIN A.funcs /\ ~(FuncType(A.funcs[n.name]) = FuncType(f))
          THEN errorf(A1, "FuncDifferentType", n.id)
          ELSE [A1 EXCEPT !.funcs = (n.name :> f) @@ @]

\* scope.get: the innermost binding of name on the chain
Bound(A, name) == {i \in 1..Len(A.scope) : name \in DOMAIN A.scope[i]}
scopeGet(A, name) ==
    IF Bound(A, name) = {} THEN NoType
    ELSE LET i == CHOOSE j \in Bound(A, name) : \A l \in Bound(A, name) : l <= j
         IN  A.scope[i][name]

\* mutant: add looks for the name only in the innermost scope
scopeAddTopOnly(A, name, k) ==
    IF name \in DOMAIN A.scope[Len(A.scope)] THEN [ok |-> FALSE, a |-> A]
    ELSE [ok |-> TRUE,
          a |-> [A EXCEPT !.scope[Len(A.scope)] = (name :> k) @@ @]]

\* scope.add: refused when any scope on the chain binds name
scopeAdd(A, name, k) ==
    IF scopeGet(A, name) # NoType THEN [ok |-> FALSE, a |-> A]
    ELSE [ok |-> TRUE,
          a |-> [A EXCEPT !.scope[Len(A.scope)] = (name :> k) @@ @]]

\* withScope: push a scope / pop it
PushScope(A) == [A EXCEPT !.scope = Append(@, [y \in {} |-> TInt])]
PopScope(A) == [A EXCEPT !.scope = SubSeq(@, 1, Len(@) - 1)]

\* withLoop: push a loop / pop it; currentLoop is nil at depth 0
PushLoop(A) == [A EXCEPT !.loops = @ + 1]
\* mutant: the loop is never popped
PopLoopMissing(A) == A
PopLoop(A) == [A EXCEPT !.loops = @ - 1]

-----------------------------------------------------------------------------
(* The checks of scope.go, each after check has visited the children.      *)

\* mutant: a struct variable passes no struct access upwards
checkVariableNoAccess(A, n) ==
    LET fd == getFunction(A, n.v)
        t == scopeGet(A, n.v)
    IN  CASE fd # NoFunc -> setType(A, n.id, FuncType(fd))
          [] t = NoType -> errorf(A, "VarNotDefined", n.id)
          [] OTHER -> setAssignable(setType(A, n.id, t), n.id)

\* checkVariable: a function name has its function type; otherwise the
\* scope binding, and the variable is an lvalue; a struct variable passes
\* its struct upwards for the "." above it
checkVariable(A, n) ==
    LET fd == getFunction(A, n.v)
        t == scopeGet(A, n.v)
        A1 == setType(A, n.id, t)
        A2 == IF t.t = "struct" THEN setStructAccess(A1, n.id, t.sig[1]) ELSE A1
    IN  CASE fd # NoFunc -> setType(A, n.id, FuncType(fd))
          [] t = NoType -> errorf(A, "VarNotDefined", n.id)
          [] OTHER -> setAssignable(A2, n.id)

\* getStructFieldType: the type of the first member named n.v, NoType
\* (and an error at the member name) when there is none
getStructFieldType(A, n, st) ==
    LET is == {i \in 1..Len(st.fields) : st.fields[i].name = n.v}
    IN  IF is = {} THEN [t |-> NoType, a |-> errorf(A, "StructDecFieldNotFound", n.id)]
        ELSE [t |-> st.fields[CHOOSE i \in is : \A j \in is : i <= j].type, a |-> A]

\* checkStructFieldAccess for ".": pointer levels are 0, so the left side
\* always has the level "." expects; the right side is a member name
checkStructFieldAccess(A, n) ==
    LET tl == getType(A, n.l.id)
        st == getStructAccess(A, n.l.id)
        f == getStructFieldType(A, n.r, st)
        A1 == IF f.t.t = "struct" THEN setStructAccess(f.a, n.id, f.t.sig[1]) ELSE f.a
    IN  CASE tl = NoType -> A
          [] st = NoStruct -> errorf(A, "StructNotAccessingStruct", n.id)
          [] f.t = NoType -> f.a
          [] OTHER -> setAssignable(setType(A1, n.id, f.t), n.id)

\* the node id of the Kind a declaration stores for its type
KindId(n) == n.id \o <<1>>

\* KindToType: [t, a, err]; a typedef is the type stored for it, a struct
\* its definition before its forward declaration; an unknown name is
\* reported at the Kind and t is NoType
KindToType(A, ty, kid) ==
    LET fail(e) == [t |-> NoType, a |-> errorf(A, e, kid), err |-> e]
        ok(k) == [t |-> k, a |-> A, err |-> ""]
    IN  CASE ty \in TypedefNames ->
               IF ty \in DOMAIN A.typedefs THEN ok(A.typedefs[ty])
               ELSE fail("TypeUnrecognizedTypedef")
          [] ty \in StructNames ->
               CASE ty \in DOMAIN A.structs -> ok(StructType(ty, A.structs[ty]))
                 [] ty \in A.fwds -> ok(FwdType(ty))
                 [] OTHER -> fail("TypeUnrecognizedStruct")
          [] OTHER -> ok(Prim(ty))

\* isNameShadowed: the diagnostic when a declaration takes a function's
\* or a typedef's name, "" when it does not
isNameShadowed(A, name) ==
    CASE getFunction(A, name) # NoFunc -> "VarDeclShadowsFunction"
      [] name \in DOMAIN A.typedefs -> "VarDeclShadowsTypedef"
      [] OTHER -> ""

\* checkVarDecl: shadow check, KindToType, scope.add, the void and
\* forward-only rules, then type and lvalue
checkVarDecl(A, n) ==
    LET k == KindToType(A, n.ty, KindId(n))
        r == scopeAdd(k.a, n.name, k.t)
    IN  CASE isNameShadowed(A, n.name) # "" -> errorf(A, isNameShadowed(A, n.name), n.id)
          [] k.t = NoType -> k.a
          [] ~r.ok -> errorf(k.a, "AlreadyDefined", n.id)
          [] k.t.t = "void" -> errorf(r.a, "VarDeclVoid", n.id)
          [] k.t.t = "structfwd" -> errorf(r.a, "StructOnlyForward", n.id)
          [] OTHER -> setAssignable(setType(r.a, n.id, k.t), n.id)

\* checkFunDecl: shadow check (a function name already declared counts),
\* then setFunction
checkFunDecl(A, n) ==
    IF isNameShadowed(A, n.name) # "" THEN errorf(A, isNameShadowed(A, n.name), n.id)
    ELSE setFunction(A, n)

\* addTypedef: a name already in res.Typedefs is refused before its Kind
\* is looked at; check reports the error at the typedef node
addTypedef(A, n) ==
    LET k == KindToType(A, n.ty, KindId(n))
    IN  CASE n.name \in DOMAIN A.typedefs -> errorf(A, "TypedefAlreadyDefined", n.id)
          [] k.t = NoType -> errorf(k.a, k.err, n.id)
          [] OTHER -> [A EXCEPT !.typedefs = (n.name :> k.t) @@ @]

RECURSIVE StructFieldsFromVarDecls(_, _)
\* [fields, a, err]: the members in order; the first unknown type or plain
\* forward-only struct member ends the loop with an error
StructFieldsFromVarDecls(A, vds) ==
    IF vds = <<>> THEN [fields |-> <<>>, a |-> A, err |-> ""]
    ELSE LET vd == Head(vds)
             k == KindToType(A, vd.ty, KindId(vd))
             r == StructFieldsFromVarDecls(A, Tail(vds))
         IN  CASE k.t = NoType -> [fields |-> <<>>, a |-> k.a, err |-> k.err]
               [] k.t.t = "structfwd" -> [fields |-> <<>>, a |-> A, err |-> "StructSizeUnknown"]
               [] OTHER -> [r EXCEPT !.fields = <<[name |-> vd.name, type |-> k.t]>> \o @]

\* addStruct: a name already in res.Structs is refused before the members
\* are looked at; check reports the error at the struct node
addStruct(A, n) ==
    LET r == StructFieldsFromVarDecls(A, n.fields)
    IN  CASE n.name \in DOMAIN A.structs -> errorf(A, "StructAlreadyDefined", n.id)
          [] r.err # "" -> errorf(r.a, r.err, n.id)
          [] OTHER -> [A EXCEPT !.structs = (n.name :> r.fields) @@ @]

\* setStructFwd
setStructFwd(A, n) == [A EXCEPT !.fwds = @ \cup {n.name}]

\* checkTernaryCond: count the '?' for its ':' child; nothing is counted
\* when the condition has no type
checkTernaryCond(A, n) ==
    LET k == getType(A, n.l.id)
        A1 == IF Matches(k, TBool) THEN A ELSE errorf(A, "TernaryCondBool", n.id)
    IN  CASE k = NoType -> A
          [] n.r.k # "bin" \/ n.r.op # "VALS" -> errorf(A1, "TernaryMissingValue", n.id)
          [] n.r.id \notin DOMAIN A1.tvals -> errorf(A1, "TernaryMissingValue", n.r.id)
          [] OTHER -> [A1 EXCEPT !.tvals[n.r.id] = @ + 1]

\* MarkTernaryVal: a ':' starts its count at 1
MarkTernaryVal(A, n) == [A EXCEPT !.tvals = (n.id :> 1) @@ @]

\* checkComp: the result is bool whatever the operands; both must be int
checkComp(A, n) ==
    LET A1 == setType(A, n.id, TBool)
        kl == getType(A, n.l.id)
        kr == getType(A, n.r.id)
    IN  IF kl = NoType \/ kr = NoType \/ (Matches(kl, kr) /\ Matches(kl, TInt))
          THEN A1
          ELSE errorf(A1, "CompareNonInteger", n.l.id)

\* mutant: the result is typed before the operands are checked
checkArithTypeFirst(A, n) ==
    LET A1 == setType(A, n.id, getType(A, n.l.id))
        kl == getType(A, n.l.id)
        kr == getType(A, n.r.id)
    IN  CASE kl = NoType \/ kr = NoType -> A1
          [] ~Matches(kl, kr) \/ ~Matches(kr, TInt) -> errorf(A1, "ArithNonInteger", n.l.id)
          [] OTHER -> A1

\* checkArith: both operands int, else an error and no type
checkArith(A, n) ==
    LET kl == getType(A, n.l.id)
        kr == getType(A, n.r.id)
    IN  CASE kl = NoType \/ kr = NoType -> A
          [] ~Matches(kl, kr) \/ ~Matches(kr, TInt) -> errorf(A, "ArithNonInteger", n.l.id)
          [] OTHER -> setType(A, n.id, kl)

\* checkFunCall on a named callee: argument count, then each argument's
\* type; typewant.Matches(typegot) dereferences a nil typegot
checkFunCall(A, n) ==
    LET fd == getFunction(A, n.l.v)
        got == n.r.v
        A1 == IF Len(got) # Len(fd.params) THEN errorf(A, "FuncallArgsAmount", n.id) ELSE A
        common == {i \in 1..Len(got) : i <= Len(fd.params)}
        bad == {i \in common : ~Matches(fd.params[i], getType(A, got[i].id))}
    IN  CASE fd = NoFunc -> errorf(A, "FuncallNotFound", n.id)
          [] \E i \in common : getType(A, got[i].id) = NoType -> Panic(A1)
          [] OTHER -> setType(IF bad = {} THEN A1 ELSE
                                [A1 EXCEPT !.errs = @ (+)
                                   [x \in {[e |-> "FuncallArgType", at |-> n.id]} |->
                                      Cardinality(bad)]],
                              n.id, fd.ret)

\* mutant: the operands' types are never compared
checkEqNoMatch(A, n) ==
    LET A1 == setType(A, n.id, TBool)
        kl == getType(A, n.l.id)
        kr == getType(A, n.r.id)
        valid(k) == Matches(k, TInt) \/ Matches(k, TBool)
    IN  CASE kl = NoType \/ kr = NoType -> A1
          [] ~valid(kl) \/ ~valid(kr) -> errorf(A1, "CompareBadType", n.id)
          [] OTHER -> A1

\* checkEq: the result is bool whatever the operands; both must be of an
\* equality type (char and arrays are not in the model), and match
checkEq(A, n) ==
    LET A1 == setType(A, n.id, TBool)
        kl == getType(A, n.l.id)
        kr == getType(A, n.r.id)
        valid(k) == Matches(k, TInt) \/ Matches(k, TBool)
        A2 == IF valid(kl) /\ valid(kr) THEN A1 ELSE errorf(A1, "CompareBadType", n.id)
    IN  CASE kl = NoType \/ kr = NoType -> A1
          [] ~Matches(kl, kr) -> errorf(A2, "CompareTypes", n.id)
          [] OTHER -> A2

\* checkBinary: dispatch on the operator
checkBinary(A, n) ==
    CASE n.op = "COND" -> checkTernaryCond(A, n)
      [] n.op = "VALS" -> MarkTernaryVal(A, n)
      [] n.op = "CALL" -> checkFunCall(A, n)
      [] n.op = "EQ" -> checkEq(A, n)
      [] n.op = "LT" -> checkComp(A, n)
      [] n.op = "ADD" -> checkArith(A, n)

\* checkUnary for ! and -: the operand's type is kept even when it is
\* refused; an untyped operand is skipped
checkUnary(A, n) ==
    LET kt == getType(A, n.e.id)
        ok == IF n.op = "NOT" THEN Matches(kt, TBool) ELSE Matches(kt, TInt)
        err == IF n.op = "NOT" THEN "NegateNonBool" ELSE "IntegerOperation"
    IN  CASE kt = NoType -> A
          [] ok -> setType(A, n.id, kt)
          [] OTHER -> setType(errorf(A, err, n.id), n.id, kt)

\* checkAssign: the target must be an lvalue; types must match
checkAssign(A, n) ==
    LET kt == getType(A, n.to.id)
        kw == getType(A, n.what.id)
    IN  CASE ~isAssignable(A, n.to.id) -> errorf(A, "AssignNotLValue", n.to.id)
          [] n.what.k = "nil" \/ kt = NoType \/ kw = NoType -> A
          [] ~Matches(kt, kw) -> setType(errorf(A, "AssignTypeMismatch", n.id), n.id, kt)
          [] OTHER -> setType(A, n.id, kt)

\* checkCond: a condition without a type panics ("no type for ...")
checkCond(A, c) ==
    LET k == getType(A, c.id)
    IN  CASE c.k = "nil" -> A
          [] k = NoType -> Panic(A)
          [] ~Matches(k, TBool) -> errorf(A, "CondType", c.id)
          [] OTHER -> A

\* checkReturn: count the return for the current function, then its type
checkReturn(A, n) ==
    LET cf == A.curfunc
        A1 == [A EXCEPT !.returns = (cf.ptr :> (IF cf.ptr \in DOMAIN @ THEN @[cf.ptr] ELSE 0) + 1) @@ @]
        rt == getType(A, n.e.id)
    IN  CASE cf = NoFunc -> A
          [] n.e.k = "nil" -> IF Matches(cf.ret, TVoid) THEN A1
                              ELSE errorf(A1, "ReturnExprMissing", n.id)
          [] rt = NoType \/ Matches(cf.ret, rt) -> A1
          [] OTHER -> errorf(A1, "ReturnMistyped", n.id)

\* checkBreak / checkContinue: only inside a loop
checkJump(A, n) ==
    IF A.loops = 0
      THEN errorf(A, IF n.k = "break" THEN "BreakOutsideLoop" ELSE "ContinueOutsideLoop", n.id)
      ELSE A

\* checkTernaries: every ':' whose count is not 2 is reported, including
\* those of earlier top-level nodes
checkTernaries(A) ==
    LET bad == {id \in DOMAIN A.tvals : A.tvals[id] # 2}
    IN  [A EXCEPT !.errs = @ (+) [x \in {[e |-> "TernaryMissingCond", at |-> id] : id \in bad} |-> 1]]

-----------------------------------------------------------------------------
(* Analyzer.check: visit the children, then check the node.                *)

RECURSIVE check(_, _), checkList(_, _)

checkList(A, l) == IF l = <<>> THEN A ELSE checkList(check(A, Head(l)), Tail(l))

\* mutant: the count of returns read before the body is checked
withFunctionCountEarly(A, n) ==
    LET cf == getFunction(A, n.name)
        A1 == check([A EXCEPT !.curfunc = cf], n.body)
        nret == IF cf.ptr \in DOMAIN A.returns THEN A.returns[cf.ptr] ELSE 0
        A2 == IF ~Matches(cf.ret, TVoid) /\ nret = 0 THEN errorf(A1, "ReturnMissing", n.id) ELSE A1
    IN  IF cf = NoFunc THEN errorf([A EXCEPT !.curfunc = NoFunc], "FuncDeclInvalid", n.id)
        ELSE [A2 EXCEPT !.curfunc = NoFunc]

\* withFunction: the current function is the one declared under the name
\* (nil: an error and the body is skipped); after the body, a non-void
\* function with no checked return is reported
withFunction(A, n) ==
    LET cf == getFunction(A, n.name)
        A1 == check([A EXCEPT !.curfunc = cf], n.body)
        nret == IF cf.ptr \in DOMAIN A1.returns THEN A1.returns[cf.ptr] ELSE 0
        A2 == IF ~Matches(cf.ret, TVoid) /\ nret = 0
                THEN errorf(A1, "ReturnMissing", n.id) ELSE A1
    IN  IF cf = NoFunc THEN errorf([A EXCEPT !.curfunc = NoFunc], "FuncDeclInvalid", n.id)
        ELSE [A2 EXCEPT !.curfunc = NoFunc]

check(A, n) ==
    IF A.panic THEN A ELSE
    CASE n.k = "nil" -> A
      [] n.k = "var" -> checkVariable(A, n)
      [] n.k = "num" -> setType(A, n.id, TInt)
      [] n.k = "bool" -> setType(A, n.id, TBool)
      [] n.k = "bin" /\ n.op = "DOT" -> checkStructFieldAccess(check(A, n.l), n)
      [] n.k = "bin" -> checkBinary(check(check(A, n.l), n.r), n)
      [] n.k = "un" -> checkUnary(check(A, n.e), n)
      [] n.k = "args" -> checkList(A, n.v)
      [] n.k = "assign" -> checkAssign(check(check(A, n.what), n.to), n)
      [] n.k = "vardecl" -> checkVarDecl(A, n)
      [] n.k = "fundecl" ->
           PopScope(checkFunDecl(checkList(PushScope(A), n.params), n))
      [] n.k = "fundef" ->
           PopScope(withFunction(checkFunDecl(checkList(PushScope(A), n.params), n), n))
      [] n.k = "block" -> PopScope(checkList(PushScope(A), n.v))
      [] n.k = "if" -> checkCond(check(check(check(A, n.c), n.t), n.f), n.c)
      [] n.k = "while" -> PopLoop(checkCond(check(check(PushLoop(A), n.c), n.body), n.c))
      [] n.k = "for" ->
           PopLoop(checkCond(check(check(check(check(PushLoop(A), n.init), n.c), n.step), n.body), n.c))
      [] n.k = "return" -> checkReturn(check(A, n.e), n)
      [] n.k \in {"break", "continue"} -> checkJump(A, n)
      [] n.k = "struct" -> addStruct(A, n)
      [] n.k = "fwd" -> setStructFwd(A, n)
      [] n.k = "typedef" -> addTypedef(A, n)

-----------------------------------------------------------------------------
(* The trees Parser.Parse builds for the programs enumerated.              *)

Nil == [k |-> "nil", id |-> <<>>]
Var(id, x) == [k |-> "var", id |-> id, v |-> x]
Bin(id, op, l, r) == [k |-> "bin", id |-> id, op |-> op, l |-> l, r |-> r]
Un(id, op, e) == [k |-> "un", id |-> id, op |-> op, e |-> e]
VarDecl(id, x, ty) == [k |-> "vardecl", id |-> id, name |-> x, ty |-> ty]
Assign(id, to, what) == [k |-> "assign", id |-> id, to |-> to, what |-> what]

Leaves(id) == {Var(id, x) : x \in Names} \cup {[k |-> "num", id |-> id], [k |-> "bool", id |-> id]}

\* expressions of at most one operator; a ?: is a COND over a VALS
Exprs(id) ==
    LET L(j) == Leaves(id \o <<j>>)
    IN  Leaves(id)
        \cup {Bin(id, op, l, r) : op \in ExprOps \cap {"ADD", "LT", "EQ", "VALS"}, l \in L(1), r \in L(2)}
        \cup {Un(id, op, e) : op \in ExprOps \cap {"NEG", "NOT"}, e \in L(1)}
        \cup (IF "DOT" \in ExprOps
                THEN {Bin(id, "DOT", Var(id \o <<1>>, y), Var(id \o <<2>>, m)) : y, m \in Names}
                ELSE {})
        \cup (IF "COND" \in ExprOps
                THEN {Bin(id, "COND", c, Bin(id \o <<2>>, "VALS", a, b)) :
                        c \in L(1), a \in Leaves(id \o <<2, 1>>), b \in Leaves(id \o <<2, 2>>)}
                ELSE {})
        \cup (IF "CALL" \in ExprOps
                THEN {Bin(id, "CALL", Var(id \o <<1>>, f), [k |-> "args", id |-> id \o <<2>>, v |-> as]) :
                        f \in Funcs, as \in {<<>>} \cup {<<a>> : a \in Leaves(id \o <<2, 1>>)}}
                ELSE {})

\* SimpleStmt in a for header: x = 0, or with decl also int x = 0
Simple(id, decl) ==
    {Assign(id, Var(id \o <<2>>, x), [k |-> "num", id |-> id \o <<1>>]) : x \in Names}
    \cup (IF decl THEN {Assign(id, VarDecl(id \o <<2>>, x, "int"), [k |-> "num", id |-> id \o <<1>>]) : x \in Names}
          ELSE {})

RECURSIVE Stmts(_, _), Lists(_, _, _, _)

\* the statements at node id with d levels of nesting left
Stmts(id, d) ==
    LET E(j) == Exprs(id \o <<j>>)
        Blk(n) == {[k |-> "block", id |-> id \o <<2>>, v |-> l] : l \in Lists(id \o <<2>>, d - 1, 1, n)}
    IN  (IF "decl" \in StmtKinds
           THEN {Assign(id, VarDecl(id \o <<2>>, x, ty), w) : x \in Names, ty \in VarTypes, w \in {Nil} \cup E(1)}
           ELSE {})
        \cup (IF "assign" \in StmtKinds THEN {Assign(id, Var(id \o <<2>>, x), w) : x \in Names, w \in E(1)} ELSE {})
        \cup (IF "return" \in StmtKinds THEN {[k |-> "return", id |-> id, e |-> e] : e \in {Nil} \cup E(1)} ELSE {})
        \cup {[k |-> j, id |-> id] : j \in StmtKinds \cap {"break", "continue"}}
        \cup (IF "expr" \in StmtKinds THEN Exprs(id) ELSE {})
        \cup (IF d = 0 THEN {} ELSE
                (IF "if" \in StmtKinds THEN {[k |-> "if", id |-> id, c |-> c, t |-> b, f |-> Nil] : c \in E(1), b \in Blk(InnerStmts)} ELSE {})
                \cup (IF "while" \in StmtKinds THEN {[k |-> "while", id |-> id, c |-> c, body |-> b] : c \in E(1), b \in Blk(InnerStmts)} ELSE {})
                \cup (IF "for" \in StmtKinds
                        THEN {[k |-> "for", id |-> id, init |-> i, c |-> c, step |-> u, body |-> b] :
                                i \in Simple(id \o <<1>>, TRUE), c \in E(3),
                                u \in Simple(id \o <<4>>, FALSE), b \in Blk(InnerStmts)}
                        ELSE {})
                \cup (IF "block" \in StmtKinds THEN {[b EXCEPT !.id = id] : b \in Blk(InnerStmts)} ELSE {}))

\* statement lists at positions j.. of the block id, at most n long
Lists(id, d, j, n) ==
    {<<>>} \cup (IF n = 0 THEN {} ELSE
                   {<<s>> \o r : s \in Stmts(id \o <<j>>, d), r \in Lists(id, d, j + 1, n - 1)})

\* no parameter, or one int parameter
Params(id) == {<<>>} \cup (IF MaxParams = 0 THEN {} ELSE {<<VarDecl(id \o <<3, 1>>, x, "int")>> : x \in Names})

\* the item of kind sh.k at top-level position i: a function declaration
\* or definition, a typedef, a struct of one member (StructDef refuses
\* one without members) or a struct forward declaration
Item(i, sh) ==
    LET id == <<i>>
    IN  CASE sh.k = "decl" ->
               {[k |-> "fundecl", id |-> id, name |-> sh.name, ret |-> r, params |-> ps] :
                  r \in RetTypes, ps \in Params(id)}
          [] sh.k = "def" ->
               {[k |-> "fundef", id |-> id, name |-> sh.name, ret |-> r, params |-> ps,
                 body |-> [k |-> "block", id |-> id \o <<4>>, v |-> l]] :
                  r \in RetTypes, ps \in Params(id), l \in Lists(id \o <<4>>, MaxDepth, 1, MaxStmts)}
          [] sh.k = "typedef" -> {[k |-> "typedef", id |-> id, name |-> sh.name, ty |-> ty] : ty \in VarTypes}
          [] sh.k = "struct" ->
               {[k |-> "struct", id |-> id, name |-> sh.name, fields |-> <<VarDecl(id \o <<2>>, x, ty)>>] :
                  x \in Names, ty \in VarTypes}
          [] sh.k = "fwd" -> {[k |-> "fwd", id |-> id, name |-> sh.name]}

RECURSIVE Items(_, _)
Items(sh, i) == IF i > Len(sh) THEN {<<>>}
                ELSE {<<t>> \o r : t \in Item(i, sh[i]), r \in Items(sh, i + 1)}

Programs(sh) == Items(sh, 1)

-----------------------------------------------------------------------------
(* Analyzer.Analyze over the top-level nodes of one file: check a node,    *)
(* then checkTernaries, node after node.                                   *)

VARIABLES
    prog,   \* the top-level nodes
    next,   \* the index of the next node to check
    st      \* the analyzer's state

vars == <<prog, next, st>>

Init == /\ \E sh \in Shapes : prog \in Programs(sh)
        /\ next = 1
        /\ st = A0

\* one iteration of the loop in Analyze
AnalyzeNode == /\ next <= Len(prog)
               /\ ~st.panic
               /\ st' = checkTernaries(check(st, prog[next]))
               /\ next' = next + 1
               /\ UNCHANGED prog

\* Analyze has returned, or the analyzer panicked
Done == /\ next > Len(prog) \/ st.panic
        /\ UNCHANGED vars

Next == AnalyzeNode \/ Done

Spec == Init /\ [][Next]_vars

-----------------------------------------------------------------------------
(* The reference: C0's scoping read off the tree.  env maps each name      *)
(* declared so far on the way from the function to a node, in its own     *)
(* and its enclosing blocks, to its declared type; loop says whether the   *)
(* node lies inside a while.  Each site records what the rules of spec     *)
(* 4.3.1 decide there.                                                     *)

Site(kind, id, ok, want, got) == [kind |-> kind, id |-> id, ok |-> ok, want |-> want, got |-> got]

(* The type names of C0 (spec 4.2.4, glossary "struct forward").  env also *)
(* maps each typedef declared so far to the type name it stands for, and  *)
(* each struct to "def" once defined or "fwd" while only forward-declared.*)
(* A defined struct S also maps S.m to the type of its member m.          *)
(* A struct type name means the struct as it is where the name is used:  *)
(* forward-only structs permit pointer uses "until a full definition is   *)
(* seen".                                                                 *)

\* the type name behind a typedef, "untypedef" for an undeclared one
BaseName(ty, env) ==
    IF ty \in TypedefNames THEN (IF ty \in DOMAIN env THEN env[ty] ELSE "untypedef") ELSE ty

\* the complete type a type name denotes here: a primitive, a defined
\* struct, "fwd" for a struct only forward-declared, or "unstruct"
Denotes(ty, env) ==
    LET b == BaseName(ty, env)
    IN  CASE b \notin StructNames -> b
          [] b \notin DOMAIN env -> "unstruct"
          [] env[b] = "def" -> b
          [] OTHER -> "fwd"

Unknown == {"untypedef", "unstruct"}

\* the diagnostics for an unknown type name
UnknownErrs(c) ==
    CASE c = "untypedef" -> {"TypeUnrecognizedTypedef"}
      [] c = "unstruct" -> {"TypeUnrecognizedStruct"}
      [] OTHER -> {}

TypeNameErrs == {"TypeUnrecognizedTypedef", "TypeUnrecognizedStruct"}

\* the diagnostics spec 4.2.4 asks of a top-level type item n in env: a
\* typedef or struct already defined is refused; a typedef of an unknown
\* name and a struct whose member has an unknown or incomplete type too
TypeItemWant(n, env) ==
    LET c == IF n.k = "typedef" THEN Denotes(n.ty, env) ELSE Denotes(n.fields[1].ty, env)
    IN  CASE n.k = "typedef" /\ n.name \in DOMAIN env -> {"TypedefAlreadyDefined"}
          [] n.k = "typedef" -> UnknownErrs(c)
          [] n.name \in DOMAIN env /\ env[n.name] = "def" -> {"StructAlreadyDefined"}
          [] c = "fwd" -> {"StructSizeUnknown"}
          [] OTHER -> UnknownErrs(c)

\* env after the top-level type item n: a refused item declares nothing
TypeItemEnv(n, env) ==
    CASE n.k = "fwd" -> IF n.name \in DOMAIN env THEN env ELSE (n.name :> "fwd") @@ env
      [] TypeItemWant(n, env) # {} -> env
      [] n.k = "typedef" -> (n.name :> BaseName(n.ty, env)) @@ env
      [] OTHER -> (n.name \o "." \o n.fields[1].name :> Denotes(n.fields[1].ty, env))
                  @@ (n.name :> "def") @@ env

RECURSIVE TypeEnv(_)
\* the type names declared by the top-level items before position i
TypeEnv(i) ==
    IF i = 1 THEN [y \in {} |-> ""]
    ELSE IF prog[i - 1].k \in {"typedef", "struct", "fwd"}
           THEN TypeItemEnv(prog[i - 1], TypeEnv(i - 1))
           ELSE TypeEnv(i - 1)

RECURSIVE RefType(_, _)
\* the type C0 gives an expression, "none" when it has none
RefType(e, env) ==
    CASE e.k = "num" -> "int"
      [] e.k = "bool" -> "bool"
      [] e.k = "var" -> IF e.v \in DOMAIN env THEN env[e.v] ELSE "none"
      [] e.k = "bin" /\ e.op = "ADD" ->
           IF RefType(e.l, env) = "int" /\ RefType(e.r, env) = "int" THEN "int" ELSE "none"
      [] e.k = "bin" /\ e.op \in {"LT", "EQ"} -> "bool"
      \* s.m: the type of member m of the struct s has
      [] e.k = "bin" /\ e.op = "DOT" ->
           LET key == RefType(e.l, env) \o "." \o e.r.v
           IN  IF RefType(e.l, env) \in StructNames /\ key \in DOMAIN env THEN env[key] ELSE "none"
      \* the spec types an accepted negation; a refused one keeps its
      \* operand's type in the analyzer, and the spec leaves it open
      [] e.k = "un" -> RefType(e.e, env)
      [] OTHER -> "none"

\* spec 4.3.1: the operand types an operator accepts
OpAccepts(op, tl, tr) ==
    CASE op = "ADD" -> tl = "int" /\ tr = "int"
      [] op = "LT" -> tl = tr /\ tl \in {"int", "char"}
      [] op = "EQ" -> tl = tr /\ tl \in {"int", "bool", "char"}
      [] op = "NOT" -> tl = "bool"
      [] op = "NEG" -> tl = "int"

\* the diagnostics that refuse an operator's operands
OpErrors(op) ==
    CASE op = "ADD" -> {"ArithNonInteger", "ArithTypes"}
      [] op = "LT" -> {"CompareNonInteger", "CompareTypes"}
      [] op = "EQ" -> {"CompareBadType", "CompareTypes"}
      [] op = "NOT" -> {"NegateNonBool"}
      [] op = "NEG" -> {"IntegerOperation"}

\* the site of an arithmetic, comparison or negation operator n: ok when
\* an operand has no type (it was refused already) or the rule accepts
\* them; at holds the operator and its first operand
OpSites(n, env) ==
    IF n.op \notin {"ADD", "LT", "EQ", "NOT", "NEG"} THEN {}
    ELSE LET l == IF n.k = "un" THEN n.e ELSE n.l
             tl == RefType(l, env)
             tr == IF n.k = "un" THEN tl ELSE RefType(n.r, env)
         IN  {[kind |-> "op", id |-> n.id, at |-> {n.id, l.id}, errs |-> OpErrors(n.op),
               ok |-> tl = "none" \/ tr = "none" \/ OpAccepts(n.op, tl, tr)]}

\* the site of a field access s.m: nothing is said when s has no type;
\* otherwise s must have a struct type with a member m
FieldSites(n, env) ==
    LET t == RefType(n.l, env)
    IN  {[kind |-> "field", id |-> n.id, at |-> {n.id, n.r.id},
          all |-> {"StructNotAccessingStruct", "StructDecFieldNotFound"},
          want |-> CASE t = "none" -> {}
                     [] t \notin StructNames -> {"StructNotAccessingStruct"}
                     [] t \o "." \o n.r.v \notin DOMAIN env -> {"StructDecFieldNotFound"}
                     [] OTHER -> {}]}

RECURSIVE Walk(_, _, _), WalkList(_, _, _)

\* [sites, env]: the sites of node n and the names visible after it
Walk(n, env, loop) ==
    LET R(sites, e2) == [sites |-> sites, env |-> e2]
        Kids(l) == WalkList(l, env, loop).sites
        \* a declaration of an unknown type is refused for its type alone
        decl(d, e) == IF d.name \in DOMAIN e \/ Denotes(d.ty, e) \in Unknown THEN e
                      ELSE (d.name :> Denotes(d.ty, e)) @@ e
        \* a redeclared name is refused before its type is judged complete
        declSites(d, e) ==
            {[kind |-> "tyname", id |-> d.id, at |-> {d.id, KindId(d)},
              all |-> TypeNameErrs \cup {"StructOnlyForward"},
              want |-> IF Denotes(d.ty, e) = "fwd"
                         THEN (IF d.name \in DOMAIN e THEN {} ELSE {"StructOnlyForward"})
                         ELSE UnknownErrs(Denotes(d.ty, e))]}
            \cup (IF Denotes(d.ty, e) \in Unknown THEN {}
                  ELSE {Site("decl", d.id, d.name \notin DOMAIN e, "", "")})
    IN
    CASE n.k \in {"nil", "num", "bool"} -> R({}, env)
      [] n.k = "var" -> R(IF n.v \in Names
                            THEN {Site("use", n.id, n.v \in DOMAIN env, "", "")} ELSE {}, env)
      [] n.k = "bin" /\ n.op = "DOT" -> R(Walk(n.l, env, loop).sites \cup FieldSites(n, env), env)
      [] n.k = "bin" -> R(Kids(<<n.l, n.r>>) \cup OpSites(n, env), env)
      [] n.k = "un" -> R(Walk(n.e, env, loop).sites \cup OpSites(n, env), env)
      [] n.k = "args" -> R(Kids(n.v), env)
      [] n.k = "vardecl" -> R(declSites(n, env), decl(n, env))
      [] n.k = "assign" ->
           LET w == Walk(n.what, env, loop)
               want == CASE n.to.k = "var" /\ n.to.v \in DOMAIN env -> env[n.to.v]
                         [] n.to.k = "vardecl" /\ n.to.name \notin DOMAIN env
                              /\ Denotes(n.to.ty, env) \notin Unknown \cup {"void", "fwd"}
                              -> Denotes(n.to.ty, env)
                         [] OTHER -> "none"
               got == IF n.what.k = "nil" THEN "none" ELSE RefType(n.what, env)
               t == Walk(n.to, env, loop)
           IN  R(w.sites \cup t.sites \cup {Site("assign", n.id, TRUE, want, got)}, t.env)
      [] n.k = "block" -> R(Kids(n.v), env)
      [] n.k = "if" -> R(Kids(<<n.c, n.t, n.f>>), env)
      [] n.k = "while" -> R(WalkList(<<n.c, n.body>>, env, TRUE).sites, env)
      \* for opens no scope (spec 3: Block, FunDecl and FunDef do): a
      \* variable its header declares stays visible after the loop
      [] n.k = "for" ->
           LET h == Walk(n.init, env, loop)
           IN  R(h.sites \cup WalkList(<<n.c, n.step, n.body>>, h.env, TRUE).sites, h.env)
      \* got: the type of the returned value, "void" for a bare return
      [] n.k = "return" ->
           R(Walk(n.e, env, loop).sites
               \cup {Site("return", n.id, TRUE, "", IF n.e.k = "nil" THEN "void" ELSE RefType(n.e, env))},
             env)
      [] n.k \in {"break", "continue"} -> R({Site(n.k, n.id, loop, "", "")}, env)
      [] n.k = "fundecl" -> R(WalkList(n.params, env, FALSE).sites, env)
      [] n.k = "fundef" -> R(WalkList(n.params \o <<n.body>>, env, FALSE).sites, env)
      [] n.k \in {"typedef", "struct"} ->
           R({[kind |-> "tyname", id |-> n.id,
               at |-> {n.id, KindId(IF n.k = "typedef" THEN n ELSE n.fields[1])},
               all |-> TypeNameErrs \cup (IF n.k = "typedef" THEN {"TypedefAlreadyDefined"}
                                         ELSE {"StructAlreadyDefined", "StructSizeUnknown"}),
               want |-> TypeItemWant(n, env)]}, env)
      [] n.k = "fwd" -> R({}, env)

\* a statement list: each statement sees the declarations before it
WalkList(l, env, loop) ==
    IF l = <<>> THEN [sites |-> {}, env |-> env]
    ELSE LET h == Walk(Head(l), env, loop)
             t == WalkList(Tail(l), h.env, loop)
         IN  [sites |-> h.sites \cup t.sites, env |-> t.env]

Sites == UNION {Walk(prog[i], TypeEnv(i), FALSE).sites : i \in 1..Len(prog)}

\* the analysis ran to the end without a panic
Finished == next > Len(prog) /\ ~st.panic

\* the declared return type and parameter types of a function node
Signature(n) == <<n.ret, [l \in 1..Len(n.params) |-> n.params[l].ty]>>

Reported(e, id) == CopiesIn([e |-> e, at |-> id], st.errs) > 0

\* of the diagnostics s watches, exactly those it wants are reported at
\* one of its nodes
ExactlyWanted(s) == \A e \in s.all : (\E p \in s.at : Reported(e, p)) <=> e \in s.want

-----------------------------------------------------------------------------
(* Properties.                                                             *)

(***************************************************************************)
(* Spec invariant 2, scopes: a declaration is refused ("already defined")  *)
(* exactly when its name is bound in its own or an enclosing scope, and a  *)
(* use is reported undefined exactly when no enclosing scope binds it.     *)
(* This is about scope.add/get walking the chain and withScope popping     *)
(* what Block, FunDecl and FunDef pushed.                                  *)
(***************************************************************************)
ScopeRule ==
    Finished =>
      \A s \in Sites :
        /\ s.kind = "decl" => (Reported("AlreadyDefined", s.id) <=> ~s.ok)
        /\ s.kind = "use" => (Reported("VarNotDefined", s.id) <=> ~s.ok)

(***************************************************************************)
(* Spec invariant 3, last clause: break and continue are reported exactly  *)
(* when they are not inside a while; withLoop pushes and pops the loop     *)
(* stack around the loop.                                                  *)
(***************************************************************************)
LoopRule ==
    Finished =>
      \A s \in Sites :
        /\ s.kind = "break" => (Reported("BreakOutsideLoop", s.id) <=> ~s.ok)
        /\ s.kind = "continue" => (Reported("ContinueOutsideLoop", s.id) <=> ~s.ok)

(***************************************************************************)
(* Spec 4.3.1 on return: "in a non-void function, at least one return     *)
(* statement with matching type is required; in a void function, return  *)
(* E; is rejected".  A non-void function without a matching return is     *)
(* refused, as missing a return or at one of its returns (a return whose  *)
(* value has no type was refused already and counts as matching); missing *)
(* a return is reported only then; and a void function's return of a      *)
(* typed value is reported mistyped.  checkReturn counts every return in   *)
(* s.returns under the current function before it checks the value, and   *)
(* withFunction reads the count after the body.                           *)
(***************************************************************************)
ReturnRule ==
    Finished =>
      \A i \in 1..Len(prog) :
        prog[i].k = "fundef" =>
          LET rs == {s \in Sites : s.kind = "return" /\ s.id[1] = i}
              matching == \E s \in rs : s.got \in {prog[i].ret, "none"}
              refused == \/ Reported("ReturnMissing", prog[i].id)
                         \/ \E s \in rs : Reported("ReturnMistyped", s.id) \/ Reported("ReturnExprMissing", s.id)
          IN  /\ prog[i].ret # "void" /\ ~matching => refused
              /\ Reported("ReturnMissing", prog[i].id) => prog[i].ret # "void" /\ ~matching
              /\ prog[i].ret = "void" =>
                   \A s \in rs : s.got \notin {"void", "none"} => Reported("ReturnMistyped", s.id)

(***************************************************************************)
(* Spec invariant 6: an assignment whose target and value both have a type *)
(* is reported as mismatched exactly when the types differ.  The types     *)
(* come from the node types that checkVariable, checkVarDecl, checkArith   *)
(* and checkComp record while the value is checked first.                 *)
(***************************************************************************)
AssignRule ==
    Finished =>
      \A s \in Sites :
        s.kind = "assign" =>
          (Reported("AssignTypeMismatch", s.id)
             <=> s.want # "none" /\ s.got # "none" /\ s.want # s.got)

(***************************************************************************)
(* Spec 4.3.1 on operators: an arithmetic operator, a comparison, an       *)
(* equality or a negation whose operands both have a type is refused, at   *)
(* the operator or its first operand, exactly when the rule for it        *)
(* rejects their types.  The operand types are the node types the checks  *)
(* of the operands left behind, read after check has visited them.         *)
(***************************************************************************)
OperatorRule ==
    Finished =>
      \A s \in Sites :
        s.kind = "op" => ((\E e \in s.errs, p \in s.at : Reported(e, p)) <=> ~s.ok)

(***************************************************************************)
(* Spec 4.2.4 and the glossary on type names: a declaration, a struct      *)
(* member or a typedef naming a typedef or struct that is not declared is  *)
(* reported unrecognized; a plain variable or member of a struct that is   *)
(* only forward-declared is reported (StructOnlyForward, StructSizeUnknown);*)
(* a typedef or struct defined twice is refused; and none of these is      *)
(* reported anywhere else.  This is about KindToType reading res.Typedefs, *)
(* res.Structs and res.StructFwds as addTypedef, addStruct and             *)
(* setStructFwd left them, item after item.  It fails on three items:     *)
(* a typedef of a forward-only struct keeps the forward type after the    *)
(* struct is defined (typebuild.go:55).                                   *)
(***************************************************************************)
TypeNameRule ==
    Finished =>
      \A s \in Sites :
        s.kind = "tyname" => ExactlyWanted(s)

(***************************************************************************)
(* Spec 4.3.1 on field access: s.m is refused exactly when s has a type    *)
(* that is not a struct ("not accessing a struct") or a struct without a   *)
(* member m; AssignRule reads the member's type as the type of s.m.  The  *)
(* analyzer checks "." without visiting m, from the struct checkVariable   *)
(* passed up through structaccess while it visited s.                     *)
(***************************************************************************)
FieldRule ==
    Finished => \A s \in Sites : s.kind = "field" => ExactlyWanted(s)

(***************************************************************************)
(* Spec section 6: panics are compiler bugs, never the answer to a user    *)
(* program; Analyze returns diagnostics for every tree the parser builds.  *)
(***************************************************************************)
NeverPanics == ~st.panic

(***************************************************************************)
(* A function may be declared and later defined with the same signature:   *)
(* setFunction's "redefined with different type" check exists for the      *)
(* other case.  checkFunDecl's shadow check runs first.                    *)
(***************************************************************************)
PrototypeAccepted ==
    Finished =>
      \A i, j \in 1..Len(prog) :
        /\ i < j /\ prog[i].k = "fundecl" /\ prog[j].k = "fundef"
        /\ prog[i].name = prog[j].name /\ Signature(prog[i]) = Signature(prog[j])
        => ~Reported("VarDeclShadowsFunction", prog[j].id)

====
