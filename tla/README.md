# TLA+ models of the c0 compiler front end

c0 compiles a C subset. Its pipeline is:

1. **lex** turns characters into tokens. These sit in a FIFO (`src/token`).
2. **parse** builds AST nodes (`src/parse`, `src/unnamed/part_010`, `part_011`) and tags each one with its token (`src/node/tagging.go`).
3. **analyze** checks scopes, types, loop context and ternary pairing (`src/analyze`, `part_008`, `part_012`).
4. **cfg.Form** builds one control-flow graph per function (`part_002`, `part_003`). **CFG.Connect** answers reachability queries on it.
5. **ssa.New** lowers a function to IR (`src/ssa`).
6. The IR **vm** runs it (`part_000`).

The driver (`part_004`) chains the steps. It calls `cfg.Form` on every function, even after the analyzer has reported errors.

The program is sequential, with no goroutines, persistence or messages. The hard cases are therefore not interleavings. They are the order of steps inside the recursive builders:

- which block is created when;
- which loop context a nested block gets;
- which register `register()` names at the moment it is read;
- which branches a shared memo has already cut.

TLC covers these cases by enumerating every program shape up to a bound.

The one nesting of whole steps is `#use`. `DirectiveUse` lexes and parses the used file with a new `Parser`, inside the `GlobalDeclDef` call of the Parser that met the directive. It then hands back the inner nodes, errors and typedefs, and the outer `handleUse` merges them. `TopParse` models this call stack explicitly.

## Modules

| module | models | state / actions |
|---|---|---|
| `CfgAst` | the statement shapes `Parser.Stmt`/`Block` produce (`src/node/node.go`, `src/parse/type.go`) | `Programs`: every body of up to `MaxStmts` statements per block, nested `MaxDepth` deep. break and continue appear only inside loops, as the analyzer requires. Node ids are paths, so every node is distinct. |
| `CfgForm` | `newblock`, `newstmt`, `newsucc`, `form`, `newif`, `newloop`, `newwhile`, `newfor`, `Form`, `nodeinblock`, `nodesinblock`, `connect`, `Connect` | Pure operators over a builder record `G`: the package globals `blockid` and `branchid`, every block and branch, and a panic flag. `G` is threaded through the recursion in the code's call order, so block and branch numbers equal the code's. `connect` threads its `membranch` memo in and out, because the Go map is shared by reference. |
| `StructuredExec` | the abstract spec: what a body means as structured control flow | A continuation `k` and the last event. Events are "statement n executed" and "condition of n was true/false". |
| `CfgExec` | `Form`, then a walk of the CFG | Variables `body, phase, g, pos, ev, ak`. Actions `FormCfg`, `ExecStmt`, `TakeBranch`, `Done`. `ak` is a history variable: the abstract continuation. |
| `SsaEmit` | `SSA.build` and `SSA.emitBlock` (build.go:118-130) over the CFG `Form` built, with `emitNode`'s panic on a node it does not handle | Variables `body, g, stack, emitted, phase`. `stack` is the Go call stack of `emitBlock`, one frame `[b, i]` per call: the block and the next successor to walk. `emitted` is the sequence of statement nodes `emitNode` ran on (what each emits is `SsaBuild`'s subject). Actions `EmitCall` (the recursive call on the next successor, whose statement loop runs at once; at `StackLimit` frames the stack overflows, `phase = "overflow"`), `EmitReturn` and `Stopped`. The reference is reachability (`Reach`, `Live`, `LoopLive`) and the number of branch paths `PathsFrom` between two blocks. |
| `CfgUse` | the users of a formed CFG: `SsaEmit`'s walk, and `CFG.Connect` | Extends `SsaEmit`. `Connect` changes nothing (its memo is local to the call), so it is checked as an operator on every pair of matchers, once per CFG, in the first state of the walk (`Formed`). |
| `SsaBuild` | `ssa.New` on straight-line bodies: `increase`, `get`, `emit`, `registerNew`, `register`, `getNewVariable`, `getCurrentVariable`, `getNewStorable`, `getNumeric32i`, `emitLoadable`, `emitOpBinary`, `emitAssign`, `emitNode`, `emitBlock`, `build` | Pure operators over a builder record: code, register counter, generations, panic. It also contains the reference semantics `Eval` of the body, in two's complement at `Width` bits. |
| `SsaVm` | the vm: `New`, `Alloca`, `Set`, `Load`, `Store`, `ExtractValue`, `BinOp`, `Run` | Variables `body, phase, code, pc, regs, mem, ret`. There is one action per instruction case of `Run`, plus `Build` (ssa.New) and `Finish`. |
| `ExprParse` | `Tokens.Peek` (comment skipping), `Pop`, `Accept`; `Parser.errorf`; `Parser.Type` as far as a cast needs it; `expratom`, `exprparse` with its postfix loop and call arguments, `precedenceb`, `precedenceu`, `isleftassocb`, `Expr` | Pure operators over a parser record `P = [ts, errs]`: the token FIFO and the number of recorded errors, threaded in the code's call order. The reference is a set of expression trees `Trees(n)` with exactly `n` operators, and `Text`, which prints a tree with the parentheses the spec's precedence table requires. Variables `tree, toks, res`; actions `Parse` (Expr on the printed tokens) and `Parsed`. |
| `Analyzer` | `Analyzer.check` and every check it calls for the modelled node kinds, `Analyze`, `withScope`, `withLoop`, `withFunction`, `scope.add`/`get`, `setType`, `setAssignable`, `setFunction`, `checkTernaries`, `Matches`, `KindToType`, `addTypedef`, `addStruct` with `StructFieldsFromVarDecls`, `setStructFwd`, `checkStructFieldAccess` with `getStructFieldType` and the `structaccess` table | Pure operators over the analyzer record `A` (diagnostics as a bag, scope chain, functions, current function, loop depth, node types, lvalues, ternary counters, return counts, typedefs, structs, struct forwards, struct access, panic flag). Variables `prog, next, st`; one `AnalyzeNode` action per iteration of `Analyze`'s loop (check, then checkTernaries), and `Done`. The reference `Walk` reads each declaration's, use's and jump's context off the tree; `TypeEnv` folds the top-level type items before a node into the type names it may use. |
| `Combinators` | the parser combinators of `src/primitives/primitives.go`: `NewState`, `_advance`, `advance`, `runer`, `runescmp`, `String`, `ExceptString`, `Strings`, `AnyOf`, `Discard` (function and method), `And`, `Or`, `OneOrMore`, `ZeroOrMore`, `Error`, `Fatal`, `Map`, `Pipe`, `Do` | A Go `Parser` closure becomes a record naming its combinator and its parts; the RECURSIVE operator `Run(p, s)` interprets it on a state `[left, line, col, val]` and returns `[st, err, tok]`. Errors keep only their class: no match, end of input, wrapped by `Error`, or a `Fatal` panic, which every combinator passes on until `Do` recovers it. |
| `Lex` | every parser of `src/lex/lex.go` and `Lex` itself | The grammar is a set of constant parsers built with `Combinators`; the Pipe callbacks' switches are the tables `*Kinds`. Variables `plan, st, toks, errs, prevlen, pc`: `plan` is the token sequence the input was written from, the others are `Lex`'s locals. `LexStep` is one iteration of the loop (`all.Do`, the emitted token, the error, the bail when nothing was consumed), `LexEnd` the loop condition, `Returned` the return. |
| `TopParse` | `Parser.Parse` with its resync, `GlobalDeclDef`, `TopVarDecl`, `VarDecl`, `FuncParams`, `FuncDecl`, `FuncDeclDef`, `TypedefDef`, `AddTypedef`, `handleUse`, `DirectiveUse`, `Type` and `Block` on a primitive or typedef name and on `{ }`, `Tokens.Peek`/`Pop`/`Accept`/`Find`, and the tables `IsValidPrimitive` and `IsReserved` | The sub-parsers are pure operators from a Parser frame `[file, pos, errs, nodes, typedefs, at]` to `[fr, ok, val]`. Variables `plan, src, stack, phase, raised`. `plan` gives each file a sequence of top-level items, and `src` holds their tokens. `stack` is the Go call stack of nested `Parse` calls, one frame per Parser. `raised` is a history of every error recorded. Actions: `ParseStep` (one loop iteration on a non-`#use` token, resync included), `EnterUse` (DirectiveUse: a missing file fails at once; otherwise a nested Parse starts, or the stack overflows into `phase = "crashed"`), `ReturnUse` (the nested Parse returns, then `handleUse`), `Finish` and `Stopped`. The reference `Ref` reads acceptance, nodes and typedefs off the plan (spec 4.2.4, 4.2.5). |
| `MC*` | model values for TLC | |

A panic in the code becomes an outcome in the model, for example `phase = "panicked"`. The properties can then ask whether a panic is reachable.

## Runs

| run | cfg | result | shows |
|---|---|---|---|
| cfg_refines | CfgExec.cfg | pass | Every walk of every CFG refines `StructuredExec` (`CfgImplementsStructured`), over all bodies of ≤4 statements per block nested 3 deep (19,773 bodies). At every point the CFG allows exactly the next events the body allows (`SameNextEvents`), so the CFG is trace-equivalent to the body. |
| cfg_panic | CfgExecPanic.cfg | violation | `while(a){ while(b){} break; }` makes Form panic. `newloop` forms the after-loop block with a nil loop context (part_002:87). |
| cfg_use | CfgUse.cfg | pass | Over the CFGs of all 14,899 bodies of ≤4 statements nested 2 deep that `Form` accepts: `ConnectSound` (Connect never reports a path that does not exist) and `ConnectFromEntryComplete` (from the entry it finds every reachable statement). `EmitFollowsPaths`: when build returns, each statement was emitted once per branch path from the entry to its block, so an if/else join is emitted twice. `DoneOnlyAcyclic`: build never returns when a loop is reachable. `EmitEnds` (liveness): without a reachable loop, ssa.New always returns or panics, never overflowing the stack. Together: ssa.New returns exactly when no loop is reachable (break and continue, on which emitNode panics, occur only inside loops). |
| ssa_vm | SsaVm.cfg | pass | For bodies using `=`, `+` and `*`, the vm returns the value of the body (`VmComputesBody`). Each register is written once, before it is read (`SingleDefinition`). |
| expr_parse | ExprParse.cfg | pass | `SameTree`: every tree with up to 3 operators over `&& == + - *`, unary `- ! *`, `[ ]` and calls, printed with minimal parentheses, parses back to itself with no tokens left. Trees of up to 2 operators also get a comment token at every position, which Peek must skip. |
| expr_parens | ExprParens.cfg | violation | `NoSpuriousError`: `( a + 1 ) * 1` leaves an error recorded by the failed cast attempt (part_010:142, type.go:37), so Parse returns ErrParse. |
| analyze | Analyze.cfg | pass | The scope, type, loop, type-name and field input spaces (the type-name space for the other rules over typedef and struct types) in one run, 425,727 states. `ScopeRule`, `LoopRule`: redefinitions, undefined uses and break/continue outside loops are reported exactly where the tree's scoping says. `ReturnRule` (spec 4.3.1): a non-void function without a return of matching type is refused (as missing a return, or at a bare or mistyped return), missing a return is reported only then, and a void function's `return E;` is refused. `AssignRule` (spec invariant 6): an assignment is reported mismatched exactly when both sides have a type and the types differ. `OperatorRule`: `+`, `<`, `==`, `-` and `!` are refused exactly when spec 4.3.1's rule rejects their operand types. `FieldRule`: `y.m` is refused exactly when `y` has a type that is not a struct, or a struct without member `m`. |
| analyze_cond_panic | AnalyzeCondPanic.cfg | violation | `if (true ? true : true) {}` panics: a `?:` never gets a type and checkCond panics (scope.go:561). |
| analyze_prototype | AnalyzePrototype.cfg | violation | `int f(); int f() { return 1; }` is refused as a declaration shadowing a function. checkFunDecl calls isNameShadowed before setFunction (scope.go:435), so setFunction's signature comparison never runs. Spec section 4.2.4 allows both a function declaration and a definition, and section 7 lists `func-different-type` for a mismatch between them. |
| lex | Lex.cfg | pass | `LexMatchesTokens`: any input written from up to 2 of 27 tokens (identifiers, `true`, `NULL`, decimal and hex numbers, string and char literals with escapes, both comment forms, both `#use` forms, and operators chosen so that every greediness decision of the Or chain is met: `++ += <<= <= < -> - == = ! [] [ ;`), each followed by a blank or a linefeed, and possibly ending in one of 7 malformed texts, lexes back to exactly those tokens and lexemes, with exactly one error when the text is malformed. `SpansMatchText`: every token's span runs from its first rune to just after its last. |
| top_parse | TopParse.cfg | pass | Two files, `main` and `h`, of up to 2 items each, use cycles and a typedef left open at the end of a file included, 57,013 states. `TypedefsMerged` (spec 4.2.5): when Parse returns no error, no typedef of the program or of a file it uses, at any depth, is defined twice, and its table holds exactly their names. `ErrorsPropagate`: every error recorded at any depth reaches the outer Parser. `ParseAdvances`: every loop iteration consumes a token, whatever the item. |
| lex_special_ids | LexSpecialIds.cfg | violation | `truex` is lexed as `True` then `Id x`: `SpecialIds` is tried before `Identifier` with no word boundary (lex.go:312), so `int trueCount;` is split. Spec section 9 says re-lexing formatted tokens gives the same kinds. |

### Further disagreements

TLC also produced a counterexample for each of the disagreements below while the modules were built. They are recorded as hazards in PROJECT.json, and no run keeps them. The modules still contain the constants that expose them:
- `AllowBareBlocks`, `BinOps`, `StmtKinds`, `Casts`, `Postfix`, `BinToks` and `ExprOps`.

**CFG and SSA.**
- `Connect` is incomplete between two statements: in `for(init;c;step){x;}`, `Connect(step, x)` is false, because `connect` gives up when it meets end before start (part_003:493). `ConnectComplete` in `CfgUse` states the property; with it as the INVARIANT of CfgUse.cfg TLC reports it violated in an initial state.
- A nested bare block `{ ... }` is added to the CFG as one opaque statement (part_002:197). With `AllowBareBlocks = TRUE`, TLC finds `SameNextEvents` violated: the CFG run executes the block node itself as one statement instead of the statements inside it.
- `^` is never lowered (build.go:24). The VM then reads an unwritten register as 0, which breaks `VmComputesBody`.
- Reassignment stores to the current generation instead of a new one (build.go:63), against spec property 7.
- `int a;` and `a++` panic in ssa.New (build.go:90, 114).
- `a += 3` is lowered as `a = 3`: emitAssign ignores the assignment operator (build.go:98).

**Expression parser.**
- `a ? b ? c : d : e` is not the nested conditional: `?` and `:` are separate right-associative operators (part_010:22).
- `a . b [ 1 ]` parses as `a.(b[1])` (part_010:334).
- `( int ) a [ 1 ]` parses as `((int)a)[1]` (part_010:147).
- These break `SameTree` when `"?"`/`":"`, `"."` or `Casts` are enabled.

**Analyzer.**
- `int f(int x) { return f(y); }` panics in checkFunCall (scope.go:426).
- `return x ? true : true;` with `x` undefined also reports "missing '?'": checkTernaryCond returns before counting (scope.go:125).
- A lone `:` is reported again after every later top-level node (part_008:1305).
- `struct S; typedef struct S t; struct S { int x; }; int f() { t x; }` is refused as `StructOnlyForward`. TypedefFromNode copies the forward type the typedef names when the typedef is checked (typebuild.go:55), and the later definition never reaches it. The glossary allows only pointer uses of a forward-declared struct "until a full definition is seen". With `MCTypeItemsMax == 3` in MCAnalyzer, TLC finds `TypeNameRule` violated by this program, and `AssignRule` by `t x = 1;`. The analyze run therefore stops at two type items and does not check `TypeNameRule`.

**Top-level parser.**
- A global variable `int x;` is refused as an invalid function definition. Spec 4.2.4 lists "variable declaration" among the top-level items, and GlobalDeclDef's own comment (part_009:359) lists global variables, but GlobalDeclDef passes the VarDecl only to FuncDeclDef (part_009:384). `ParseResult` in TopParse states 4.2.4's acceptance; with it as the INVARIANT of TopParse.cfg and `Decls <- MCDecls`, TLC finds it violated by `main` = `int x;`.
- `#use` keeps no set of the files being parsed (directive.go:47). A file that uses itself, or two files that use each other, nest Parse calls until the goroutine stack overflows, which is fatal in Go. `top_parse` admits cycles (`AllowCycles = TRUE`) and reaches the overflow, `phase = "crashed"`; its safety properties hold up to it. With `PROPERTY ParseTerminates` (`<>(phase = "done")` in TopParse) added to TopParse.cfg, TLC finds it violated by `main` containing `#use "main"`.
- `typedef int t(` as the last line is accepted without an error. FuncParams returns EOT unrecorded at the end of input, and TypedefDef returns that error as it is (part_009:323). TLC finds `ParseResult` violated by it.

Every property of a passing run has a mutant in PROJECT.json: a plausible bug in a mapped definition that TLC must catch. The mutants are:

- incrementing the block id after use;
- emitBlock's successor loop starting one branch late or never advancing, and its statement loop skipping the first statement (SSA walk);
- a missing else edge;
- `continue` jumping to the loop body;
- an off-by-one in `nodeinblock`;
- searching for end from the top of the block;
- the result register allocated before the operands;
- a MOV without a new register;
- no int32 wrap;
- a flat precedence table (expressions);
- the operator alternatives of `Lex` in the wrong order (binary before assignment), and a linefeed that keeps the column in `_advance` (lexer);
- AddTypedef without its duplicate check, handleUse dropping the inner errors of a failed `#use`, and the resync without its `Pop` (top-level parser);
- `scope.add` looking only at the innermost scope, a loop never popped, the return count read before the body is checked, `+` typed before its operands are checked, `==` that never compares its operand types, and checkVariable not recording a struct variable in `structaccess` (analyzer).

## Bounds

**CFG runs.**
- Blocks hold up to 4 statements, nested 3 deep (depth 2 for `cfg_use`, to stay within time).
- `cfg_use` sets `StackLimit = 12`. The deepest walk of a loop-free CFG at these bounds needs 11 frames: with a limit of 10, TLC finds `EmitEnds` violated by a nest of ifs. So an overflow in the run comes from a loop, never from the bound.
- At these bounds a loop can sit inside a loop inside an if, and a break or continue can follow a nested loop.
- Every kind of branch (`IF*`, `WHILE*`, `FOR*`, `ALWAYS`) occurs at every nesting depth that matters.

**SSA runs.**
- Bodies have up to 2 statements before the return, over names `{a, b}` and literals `{3, 100}`.
- Expressions have depth 1, so a binary operation can have a variable or a literal on either side.
- Integers are 8 bits wide instead of 32: `100*3` and `100+100` overflow at 8 bits, so wrapping is exercised. TLC's own integers could not hold int32 products.

**Expression runs.**
- Trees have up to 3 operators (2 with comments). Names are `{a}`, and there is one literal.
- This is enough for every pair of adjacent operators, so every precedence and associativity decision meets every other. It is also enough for a postfix operator on an operand of a binary one, and for a unary operator under a postfix one.
- The violation runs add `?:`, `.` and casts one at a time, so each counterexample shows one cause.

**Analyzer runs.**
- `analyze`: `MCInit` draws from five input spaces, each an `INSTANCE Analyzer WITH` its own constants. One space under the union of their constants has too many members to enumerate. The field space uses the names `x` and `y` and the others only `x`. The actions and the reference read only `Names`, `Funcs`, `TypedefNames`, `StructNames`, `MaxParams` and `Shapes`, which the spaces share.
- The scope space (`ScopeInputs`):
  - bodies have up to 2 statements, and if/while/bare blocks hold 1;
  - there is one variable name, `x`, plus an optional parameter `int x`;
  - the return type is int or void.
  - This covers a declaration before, inside and after a nested block; a redeclaration of a parameter; a use before a declaration; break and continue inside and after a loop; and returns only inside a nested block.
- The type space (`TypeInputs`): 2 straight-line statements over `x`, with int, bool and void, and `+`, `<`, `==`, unary `-` and `!` at depth 1. Every operator meets every pair of operand types, and void reaches `==`'s bad-type check.
- The loop space (`ForInputs`): bodies of up to 2 statements with `for` loops whose header is `x = 0` or `int x = 0`, around and inside them declarations, returns, break and continue. `for` opens no scope, so the header's declaration is still visible after the loop and a second `int x` is refused.
- The type-name space (`TypeNameInputs`): up to `MCTypeItemsMax` = 2 items from `typedef ty t;`, `struct S { ty x; };` and `struct S;`, in any order, then `f` declaring one `ty x`, with `ty` among int, void, `t` and `S`. Two items reach a typedef of an undeclared or forward-only struct, a typedef or struct defined twice, a struct whose member is itself or a forward-only struct, and a definition after a forward declaration. Three items reach the stale typedef listed under Further disagreements, which breaks `TypeNameRule` and `AssignRule`; the run keeps two and checks the scope, assignment and field rules there.
- The field space (`FieldInputs`): `f` alone, after `struct S { ty m; };` or after `struct S;`, declaring up to 2 variables of int, bool or `S`, each initialised with nothing, a variable, a literal or `y.m` with `y` and `m` among `x` and `y`. This reaches an access to a struct, to a forward-only struct, to an int, to an undeclared variable and to a missing member, and a member's type meeting the declared type in `AssignRule`.
- The reference gives each declaration one diagnostic, in the code's order: a declaration whose type name is unknown is reported for that alone and declares nothing, and a redeclared name is reported as such before its type is judged complete. A typedef or struct the analyzer refuses declares nothing either.
- `MCInit` is a disjunction of the spaces, not their union. The union makes TLC normalise a set of about 100,000 programs, which takes 80 s; the disjunction enumerates each space in 5 s.
- The violation runs each allow only the construct that causes the failure. For example, `analyze_cond_panic` has no variables, so the only untyped condition is a `?:`.

**Lexer runs.**
- Up to 2 tokens per input (1 for the violation run), each followed by a blank or a linefeed, and an optional malformed tail: 136,544 inputs.
- Two tokens are enough for every pair of adjacent alternatives: a token that is a prefix of the next one's text (`<` then `<=`, `-` then `->`, `tru` then an identifier), a comment followed by anything, and a span that starts on the line after a linefeed or a multi-line comment.
- The malformed tails cover each error path of `Lex`: no alternative matches (`@`), a `Fatal` inside a comment, string, hex number, character literal, escape and `#use`.

**Top-level runs.**
- Files `main` and `h`; up to 2 items per file from `typedef t`, a declaration returning `int` or `t`, a definition, `typedef int t(` at the end of the file, a global variable, a stray `;`, and `#use` of `main`, `h` or a missing file. Plans with use cycles are included.
- This is enough for a typedef used before and after it is defined, for a type defined in `h` and used in `main` after `#use "h"`, and for `h` used twice, so its typedefs are defined twice. It also covers an error inside `h` propagating out, a missing file, and every resync path (a failed item, then a stray `;`).
- `MaxStack = 3` is reached by a cycle (`main` using `main`, or `main` and `h` using each other), so the overflow `phase = "crashed"` occurs in the run.

## Fairness

One run checks liveness: `cfg_use` checks `EmitEnds` under `WF_vars(Step)`, where `Step` is `EmitCall \/ EmitReturn`. The compiler is one goroutine, so while a step of it is possible, that step happens. The walk is the only activity, and `Stopped` holds only after it ended.

`TopParse`'s `Spec` keeps the same fairness for its `Step` (written with `Running` for `ENABLED <<Step>>_vars`, because TLC re-evaluates the sub-parsers inside ENABLED exponentially often). No property of `top_parse` needs it: the only way Parse fails to return is a use cycle, described under Further disagreements.

All other properties are safety properties.

## Not modelled

- **Primitives the lexer does not use.** `End`, `AndLazy`, `Deliver`, `Optional` and `DoRunes`. `RuneRange` is modelled by the set of runes it accepts.
- **Top-level parser.** Not modelled: struct forward declarations and definitions, comma-separated parameters, pointer and array types, comments between top-level tokens, and statements inside function bodies. Statements are modelled in `CfgAst`, and comment skipping in `ExprParse`. Lex errors in a used file are not modelled either.
- **Node tagging** (`src/node/tagging.go`). `Store` numbers nodes from a global counter and records each node's token. The models use node ids as distinct abstract values, which is all `Store` guarantees. The `uint64` counter cannot wrap within one compile, and `DisableTagging` is used only by tests.
- **Data types and printing.** IR printing, `node.Walk`/`String`, and the CLI's file I/O.
- **`vm.Run` over several functions.** Not modelled. Go map order makes the result order-dependent.
- **SSA of branching control flow.** `SsaEmit` models the walk, not the instructions each block emits. The IR has no branch instructions and no phi nodes, so for a branching body the vm runs the concatenated paths and the last `RET` executed gives the result, because Run continues after a RET (part_000:131). The spec lists phi placement and the walk's repetition as open questions (section 9), so no property asks for more.
- **Expression parser.**
  - Not modelled: string, char, bool and NULL atoms (they parse like the literal), `alloc`/`alloc_array`, `->`, and casts to typedef names.
  - The token FIFO's `Find` is modelled in `TopParse`, for Parse's resync.
- **Analyzer.**
  - Not modelled: `->`, and the propagation of `structaccess` through `*`, `[]` and nested members (it needs pointers, arrays or two struct names), function typedefs, parameters of struct type (`FuncParamStruct`; parameters are int), casts, alloc, arrays, pointer operators (`*`, `&`), `~`, `++`/`--`, `!=` (checked exactly like `==`), `assert` and global variables.
  - `for` creates no scope. This agrees with the spec's list of scope-creating nodes.

## Plan for later sittings

1. **Types:** the symmetry of `StructFields.Matches` (it checks no lengths), which needs two structs of one name to differ.
2. **Analyzer:** pointers with `->` and the propagation of `structaccess` through `*`, `[]` and nested structs, and casts.
3. **Violation runs for the uncovered hazards.** Each needs a run of its own.
