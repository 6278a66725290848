-------------------------------- MODULE SsaVm --------------------------------
(***************************************************************************)
(* A straight-line function body lowered by ssa.New and run by the VM      *)
(* (src/unnamed/part_000, vm.Run), one IR instruction per step, as the     *)
(* ssa tests do: the value of the last RET is what Run returns.            *)
(***************************************************************************)
EXTENDS SsaBuild

VARIABLES
    body,   \* the function body
    phase,  \* "build", "run", "done", or "panicked" (the emitter panicked)
    code,   \* the emitted Instructions
    pc,     \* index of the next instruction
    regs,   \* vm.regs: register -> value; a missing register reads as 0
    mem,    \* vm.mem: the cells handed out by Alloca
    ret     \* *ret: the value of the last RET executed, 0 before any

vars == <<body, phase, code, pc, regs, mem, ret>>

\* vm.regs[*r] on a Go map: 0 when absent
RegVal(r) == IF r \in DOMAIN regs THEN regs[r] ELSE 0
\* ExtractValue / Set: an immediate is its value, a register its content
Value(r) == IF r.name = "#" THEN r.cnt ELSE RegVal(r)
SetReg(r, v) == regs' = (r :> v) @@ regs

I == code[pc]

Init == /\ body \in Bodies
        /\ phase = "build"
        /\ code = <<>>
        /\ pc = 1
        /\ regs = [r \in {} |-> 0]
        /\ mem = <<>>
        /\ ret = 0

\* ssa.New: build the instruction list, or panic
Build == /\ phase = "build"
         /\ LET S == build(body)
            IN  /\ code' = S.code
                /\ phase' = IF S.panic THEN "panicked" ELSE "run"
         /\ UNCHANGED <<body, pc, regs, mem, ret>>

Exec(op) == phase = "run" /\ pc <= Len(code) /\ I.op = op

\* alloca: a new zero cell; the register holds its index
VmAlloca == /\ Exec("ALLOCA")
            /\ SetReg(I.to, Len(mem))
            /\ mem' = Append(mem, 0)
            /\ pc' = pc + 1
            /\ UNCHANGED <<body, phase, code, ret>>

\* mov: Set(to, what)
VmMov == /\ Exec("MOV")
         /\ SetReg(I.to, Value(I.a))
         /\ pc' = pc + 1
         /\ UNCHANGED <<body, phase, code, mem, ret>>

\* store: mem[regs[to]] = regs[from]
VmStore == /\ Exec("STORE")
           /\ mem' = [mem EXCEPT ![RegVal(I.to) + 1] = RegVal(I.a)]
           /\ pc' = pc + 1
           /\ UNCHANGED <<body, phase, code, regs, ret>>

\* load: regs[to] = mem[regs[from]]
VmLoad == /\ Exec("LOAD")
          /\ SetReg(I.to, mem[RegVal(I.a) + 1])
          /\ pc' = pc + 1
          /\ UNCHANGED <<body, phase, code, mem, ret>>

\* mutant: the operation is computed without int32 wraparound
VmBinOpNoWrap ==
    /\ phase = "run" /\ pc <= Len(code) /\ I.op \in {"ADD", "MUL", "XOR"}
    /\ SetReg(I.to, CASE I.op = "ADD" -> Value(I.a) + Value(I.b)
                       [] I.op = "MUL" -> Value(I.a) * Value(I.b)
                       [] I.op = "XOR" -> Xor(Value(I.a), Value(I.b)))
    /\ pc' = pc + 1
    /\ UNCHANGED <<body, phase, code, mem, ret>>

\* add / mul / xor: BinOp on int32, which wraps
VmBinOp == /\ phase = "run" /\ pc <= Len(code) /\ I.op \in {"ADD", "MUL", "XOR"}
           /\ SetReg(I.to, Apply(IF I.op = "XOR" THEN "BXOR" ELSE I.op,
                                 Value(I.a), Value(I.b)))
           /\ pc' = pc + 1
           /\ UNCHANGED <<body, phase, code, mem, ret>>

\* return: *ret = the value; the break only leaves the switch, so the run
\* goes on with the next instruction
VmReturn == /\ Exec("RET")
            /\ ret' = Value(I.a)
            /\ pc' = pc + 1
            /\ UNCHANGED <<body, phase, code, regs, mem>>

VmLabel == /\ Exec("LABEL")
           /\ pc' = pc + 1
           /\ UNCHANGED <<body, phase, code, regs, mem, ret>>

\* Run returns after the last instruction
Finish == /\ phase = "run" /\ pc > Len(code)
          /\ phase' = "done"
          /\ UNCHANGED <<body, code, pc, regs, mem, ret>>

Stopped == phase \in {"done", "panicked"} /\ UNCHANGED vars

Next == \/ Build \/ VmAlloca \/ VmMov \/ VmStore \/ VmLoad \/ VmBinOp
        \/ VmReturn \/ VmLabel \/ Finish \/ Stopped

Spec == Init /\ [][Next]_vars

-----------------------------------------------------------------------------
Targets == {code[j].to : j \in 1..Len(code)}

TypeOK ==
    /\ phase \in {"build", "run", "done", "panicked"}
    /\ pc \in 1..(Len(code) + 1)
    /\ DOMAIN regs \subseteq Targets
    /\ \A j \in 1..Len(mem) : mem[j] \in -(2^(Width - 1))..(2^(Width - 1) - 1)
    /\ ret \in -(2^(Width - 1))..(2^(Width - 1) - 1)

(***************************************************************************)
(* Lowering preserves meaning: when the VM has run the whole IR of a body, *)
(* the value Run returns is the value C0 gives the body.  This ties the    *)
(* emitter's register discipline (emitLoadable returns whatever register() *)
(* is after the last registerNew) to the VM's map, memory and wraparound.  *)
(***************************************************************************)
VmComputesBody == phase = "done" => ret = Eval([y \in {} |-> 0], body)

\* instruction i writes register code[i].to
Writes(i) == code[i].op \in {"ALLOCA", "MOV", "LOAD", "ADD", "MUL", "XOR"}

\* the registers instruction i reads
Reads(i) ==
    LET c == code[i]
    IN  CASE c.op = "STORE" -> {c.to, c.a}
          [] c.op \in {"LOAD", "RET", "MOV"} -> {c.a}
          [] c.op \in {"ADD", "MUL", "XOR"} -> {c.a, c.b}
          [] OTHER -> {}

(***************************************************************************)
(* Static single assignment and definition before use: no two             *)
(* instructions write the same register, and every register an            *)
(* instruction reads was written by an earlier one.  The VM reads an       *)
(* unwritten register as 0, so a violation is a silently wrong result.     *)
(***************************************************************************)
SingleDefinition ==
    phase # "build" =>
      /\ \A i, j \in 1..Len(code) :
            i # j /\ Writes(i) /\ Writes(j) => code[i].to # code[j].to
      /\ \A i \in 1..Len(code) : \A r \in Reads(i) :
            r.name = "#" \/ \E j \in 1..(i - 1) : Writes(j) /\ code[j].to = r

=============================================================================
