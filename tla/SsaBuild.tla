------------------------------- MODULE SsaBuild -----------------------------
(***************************************************************************)
(* IR generation of package ssa (src/ssa/ssa.go, src/ssa/build.go) for a   *)
(* straight-line function body: after cfg.Form such a body is the one      *)
(* block after ENTRY, and emitBlock emits its statements in order.         *)
(*                                                                         *)
(* Statements, as the statement parser builds them (SimpleStmt):           *)
(*   [k |-> "decl", x, e]    int x = e;   OpAssign{PLAIN, VarDecl x, e}    *)
(*   [k |-> "bare", x]       int x;       OpAssign{PLAIN, VarDecl x, nil}  *)
(*   [k |-> "assign", x, e]  x = e;       OpAssign{PLAIN, Variable x, e}   *)
(*   [k |-> "opassign", x, op, e]  x op= e;  OpAssign{op, Variable x, e}   *)
(*   [k |-> "incr", x]       x++;         OpUnary{ADDONESUFFIX, x}         *)
(*   [k |-> "return", e]     return e;                                     *)
(* Expressions: [k |-> "num", n], [k |-> "var", x], [k |-> "bin", op, l, r]*)
(*                                                                         *)
(* The builder state S threads the SSA struct through the calls:          *)
(*   code   : Instructions, a sequence of instruction records              *)
(*   reggen : the anonymous register counter                               *)
(*   gens   : generations, variable name -> current generation             *)
(*   panic  : the emitter panicked                                         *)
(* A register is [name, cnt]; anonymous registers have name "".            *)
(***************************************************************************)
EXTENDS Integers, Sequences, TLC

CONSTANTS
    Names,      \* variable names
    Nums,       \* numeric literals
    BinOps,     \* binary operators that may occur: "ADD", "MUL", "SUB", "BXOR"
    StmtKinds,  \* statement kinds that may occur besides "decl" and "return"
    MaxStmts,   \* statements before the final return
    Width       \* bit width of the VM's integers (int32 in the code)

Num(n) == [k |-> "num", n |-> n]
Var(x) == [k |-> "var", x |-> x]
Bin(op, l, r) == [k |-> "bin", op |-> op, l |-> l, r |-> r]

\* expressions of operator depth at most one over the declared names D
Leaves(D) == {Num(n) : n \in Nums} \cup {Var(x) : x \in D}
Exprs(D) == Leaves(D) \cup {Bin(op, l, r) : op \in BinOps, l, r \in Leaves(D)}

(***************************************************************************)
(* Bodies the analyzer accepts: a name is declared once (no shadowing) and *)
(* used only after its declaration; the body ends with return.             *)
(***************************************************************************)
RECURSIVE BodiesFrom(_, _)
BodiesFrom(D, n) ==
    {<<[k |-> "return", e |-> e]>> : e \in Exprs(D)}
    \cup
    IF n = 0 THEN {} ELSE
      UNION {{<<s>> \o r : r \in BodiesFrom(D \cup {s.x}, n - 1)} :
             s \in {[k |-> "decl", x |-> x, e |-> e] : x \in Names \ D, e \in Exprs(D)}
                \cup (IF "bare" \in StmtKinds
                        THEN {[k |-> "bare", x |-> x] : x \in Names \ D} ELSE {})
                \cup (IF "assign" \in StmtKinds
                        THEN {[k |-> "assign", x |-> x, e |-> e] : x \in D, e \in Exprs(D)}
                        ELSE {})
                \cup (IF "opassign" \in StmtKinds
                        THEN {[k |-> "opassign", x |-> x, op |-> op, e |-> e] :
                                x \in D, op \in BinOps, e \in Leaves(D)}
                        ELSE {})
                \cup (IF "incr" \in StmtKinds
                        THEN {[k |-> "incr", x |-> x] : x \in D} ELSE {})}

Bodies == BodiesFrom({}, MaxStmts)

-----------------------------------------------------------------------------
(* The reference: C0's meaning of the body, in two's complement at Width.  *)

Wrap(v) == ((v + 2^(Width - 1)) % 2^Width) - 2^(Width - 1)

RECURSIVE XorNat(_, _)
\* bitwise exclusive or of two naturals
XorNat(a, b) == IF a = 0 /\ b = 0 THEN 0
                ELSE ((a + b) % 2) + 2 * XorNat(a \div 2, b \div 2)
\* exclusive or on Width-bit two's complement values
Xor(a, b) == Wrap(XorNat(a % 2^Width, b % 2^Width))

Apply(op, a, b) == Wrap(CASE op = "ADD" -> a + b
                          [] op = "SUB" -> a - b
                          [] op = "MUL" -> a * b
                          [] op = "BXOR" -> Xor(a, b))

RECURSIVE EvalExpr(_, _)
EvalExpr(env, e) == CASE e.k = "num" -> e.n
                      [] e.k = "var" -> env[e.x]
                      [] e.k = "bin" -> Apply(e.op, EvalExpr(env, e.l), EvalExpr(env, e.r))

RECURSIVE Eval(_, _)
\* the value the body returns, from environment env (a bare int x is 0)
Eval(env, b) ==
    LET s == Head(b)
        set(v) == [y \in DOMAIN env \cup {s.x} |-> IF y = s.x THEN v ELSE env[y]]
    IN  CASE s.k = "return" -> EvalExpr(env, s.e)
          [] s.k \in {"decl", "assign"} -> Eval(set(EvalExpr(env, s.e)), Tail(b))
          [] s.k = "bare" -> Eval(set(0), Tail(b))
          [] s.k = "opassign" -> Eval(set(Apply(s.op, env[s.x], EvalExpr(env, s.e))), Tail(b))
          [] s.k = "incr" -> Eval(set(Wrap(env[s.x] + 1)), Tail(b))

-----------------------------------------------------------------------------
(* The emitter.                                                            *)

S0 == [code |-> <<>>, reggen |-> 0, gens |-> [y \in {} |-> 0], panic |-> FALSE]

Reg(name, cnt) == [name |-> name, cnt |-> cnt]
Instr(op, to, a, b) == [op |-> op, to |-> to, a |-> a, b |-> b]
NoArg == Reg("", -1)
\* an immediate operand, ir.Numeric32i
Imm(n) == Reg("#", n)

Panic(S) == [S EXCEPT !.panic = TRUE]

\* emit: append an instruction
emit(S, i) == [S EXCEPT !.code = Append(@, i)]

\* registerNew: reggen++; register: the anonymous register numbered reggen
registerNew(S) == [S EXCEPT !.reggen = @ + 1]
register(S) == Reg("", S.reggen)

\* generations.increase: a first use is generation 0, later ones count up
increase(S, x) ==
    IF x \in DOMAIN S.gens
      THEN [S EXCEPT !.gens[x] = @ + 1]
      ELSE [S EXCEPT !.gens = (x :> 0) @@ @]

\* getNewVariable: a new generation of x, and its ALLOCA
getNewVariable(S, x) ==
    LET S1 == increase(S, x)
    IN  [s |-> emit(S1, Instr("ALLOCA", Reg(x, S1.gens[x]), NoArg, NoArg)),
         v |-> Reg(x, S1.gens[x])]

\* getCurrentVariable via generations.get, which panics on an unknown name
getCurrentVariable(S, x) ==
    IF x \in DOMAIN S.gens THEN [s |-> S, v |-> Reg(x, S.gens[x])]
    ELSE [s |-> Panic(S), v |-> NoArg]

\* getNewStorable: a Variable target is its current generation (no bump);
\* a VarDecl target is a new variable
getNewStorable(S, st) ==
    IF st.k \in {"decl", "bare"} THEN getNewVariable(S, st.x)
    ELSE getCurrentVariable(S, st.x)

\* mutant: the MOV reuses the current register instead of a new one
getNumeric32iNoNew(S, n) == emit(S, Instr("MOV", register(S), Imm(n), NoArg))

\* getNumeric32i: MOV the literal into a new register
getNumeric32i(S, n) ==
    LET S1 == registerNew(S)
    IN  emit(S1, Instr("MOV", register(S1), Imm(n), NoArg))

RECURSIVE emitLoadable(_, _), emitOpBinary(_, _)

\* mutant: the result register is taken before the operands are emitted
emitOpBinaryEarlyResult(S, e) ==
    LET Sr == registerNew(S)
        S1 == emitLoadable(Sr, e.l)
        S2 == emitLoadable(S1, e.r)
    IN  IF e.op \in {"ADD", "MUL"}
          THEN emit(S2, Instr(e.op, register(Sr), register(S1), register(S2)))
          ELSE S2

\* emitOpBinary: left, right, a new result register; only ADD and MUL emit
emitOpBinary(S, e) ==
    LET S1 == emitLoadable(S, e.l)
        S2 == emitLoadable(S1, e.r)
        S3 == registerNew(S2)
    IN  IF e.op \in {"ADD", "MUL"}
          THEN emit(S3, Instr(e.op, register(S3), register(S1), register(S2)))
          ELSE S3

\* emitLoadable: the value ends up in register(result); a missing value
\* (the nil initializer of int x;) is an unhandled source and panics
emitLoadable(S, e) ==
    IF S.panic THEN S
    ELSE CASE e.k = "var" ->
                LET c == getCurrentVariable(S, e.x)
                    S1 == registerNew(c.s)
                IN  emit(S1, Instr("LOAD", register(S1), c.v, NoArg))
           [] e.k = "num" -> getNumeric32i(S, e.n)
           [] e.k = "bin" -> emitOpBinary(S, e)
           [] OTHER -> Panic(S)

\* emitAssign: the target first, then the value, then STORE; the assignment
\* operator is not looked at
emitAssign(S, st) ==
    LET t == getNewStorable(S, st)
        S1 == emitLoadable(t.s, IF st.k = "bare" THEN [k |-> "nil"] ELSE st.e)
    IN  IF S1.panic THEN S1
        ELSE emit(S1, Instr("STORE", t.v, register(S1), NoArg))

\* emitNode: assignments, returns; x++ is OpUnary, whose emitOpUnary calls
\* emitNode on the Variable x, an unhandled node
emitNode(S, st) ==
    CASE st.k \in {"decl", "bare", "assign", "opassign"} -> emitAssign(S, st)
      [] st.k = "return" ->
           LET S1 == emitLoadable(S, st.e)
           IN  IF S1.panic THEN S1
               ELSE emit(S1, Instr("RET", NoArg, register(S1), NoArg))
      [] st.k = "incr" -> Panic(S)

RECURSIVE emitStmts(_, _)
emitStmts(S, l) == IF l = <<>> \/ S.panic THEN S
                   ELSE emitStmts(emitNode(S, Head(l)), Tail(l))

\* build: the entry label, then the body block's statements
build(body) == emitStmts(emit(S0, Instr("LABEL", NoArg, NoArg, NoArg)), body)

=============================================================================
