# A verification of the C-- compiler

`src/` holds a compiler for C--, a subset of C with integers, arrays,
structures, functions and the library functions `read` and `write`. It
translates a source file into an intermediate code (IR) and the IR into MIPS32
assembly. This directory models the compiler's passes, and the programs they
produce, in TLA+; TLC checks the models on small instances, and TLAPS proves
for every instance that the instructions of each code do what the intermediate
code means, that every name the analysis accepts is found again by the
translator, that what the type analysis accepts gets through it, and that what
the optimizer leaves of a program does what the program did.

- [The system](#the-system): parts, state, operations, interaction
- [The modules](#the-modules), and how they correspond to the code
- [The runs](#the-runs), their bounds, and what each one shows
- [The proofs](#the-proofs)
- [Disagreements](#disagreements) between the code and what it says of itself
- [What is left out](#what-is-left-out), and [the plan](#the-plan)

## The system

The compiler is sequential. What makes it hard is that facts are established in
one place and relied upon in another, later and far away: a symbol that one
pass puts in a table and another looks up again; a flag of a variable that the
translator sets while it emits code and that must be true when the code runs;
words that one function pushes and another pops, with arbitrary code running in
between. The programs it produces add what no unit test of the compiler sees:
recursion over variables that are all static.

| Component | Files | State | Operations | Relied on by |
|---|---|---|---|---|
| Driver | `main.c` | options, open files | runs the passes in order; none after one that failed | everything |
| Lexer | `lexical.l` | position, error count | tokens, numbers, comments | parser |
| Parser | `syntax.y` | the tree, error count | builds the tree, recovers from errors | analysis, IR generation |
| Symbol tables | `symbol.c` | tables in a tree, each a chain of symbols | `new_symbol_table`, `st_add`, `st_find`, `st_findonly` | analysis, IR generation |
| Types | `type.c` | immutable values | equality, predicates, size, descent into arrays and members | analysis, IR generation |
| Semantic analysis | `semantics.c` | `semantics_is_passed`, symbols, the environment of the construct | one `analyse_X` per construct | IR generation, which asserts what the analysis should have made sure of |
| IR generation | `ir.c` | codes so far, counters of variables and labels, `isref` of every variable, `ir` of every symbol | one `translate_X` per construct, `gen_X` per code | code generator |
| Intermediate code | `ast.c`, `ast.h` | the codes of the program | constructors, printing | IR generation, code generator, simulator |
| Optimizer | `optimize.c` | the codes | local passes, with `-DOPTIMIZE` only | - |
| Code generator | `asm.c` | position of the register rotation, `is_incall` | one `rewrite_X` per code | the machine |
| The compiled program | what `asm.c` prints | one static word per IR variable, stack, registers | the emitted instructions | - |
| Containers, objects | `list.c`, `object.c`, `hash.c`, `debug.h` | - | lists, tagged casts, assertions | everything |
| IR simulator | `test/ir/irsim` | a test tool that executes IR | - | the tests |

What makes each component correct, and what is hard about it:

- **Compiled programs and the code generator.** All activations of all
  functions share one `.data` word per variable, so a call saves *every*
  variable of the program on the stack and restores it afterwards. Correct: no
  activation disturbs another one, a return goes to the call that waits for it,
  the stack is given back although nothing undoes a `DEC`, arguments and results
  arrive. Hard: the saving and the restoring are written apart and undo each
  other only if everything that runs in between keeps to its part of the stack;
  temporaries come from a rotation that does not know which of them are in use;
  `is_incall` is a flag of the compiler that stands for a state of the program.
- **IR generation.** Correct: the code computes what the source means, in every
  context in which an expression can stand. Hard: short-circuit conditions with
  labels that are swapped by every negation; conditions as values and values as
  conditions; variables that hold an address instead of a value, by a flag set
  at translation time; arrays and structures, whose places are computed from
  the sizes of the types; arguments that contain calls.
- **Names.** Correct: whatever the analysis accepts, the translation resolves,
  and to the same symbol. Hard: the two passes look at the same tables at
  different times; declarations, definitions and uses of functions come in any
  order; tags, functions and variables share a name space; the analysis goes on
  after an error.
- **Types.** Correct: no erroneous program is accepted and none crashes the
  compiler. Hard: the types `ANY` and `NEVER`, which equal everything; predicates
  that assert what another one should have tested; a translator whose assertions
  say again, in other words, what the analysis has established.
- **Optimizer.** Correct: the program means the same. Hard: no pass knows more than
  how often a variable is assigned and used anywhere; codes are never removed but
  marked, and the counts that the passes rely on are corrected by hand; labels are
  renamed under the jumps that refer to them.

Nothing in the code is concurrent, distributed or persistent, so there are no
crashes, messages or timeouts to model. `PROJECT.json` lists, under `hazards`, the
lines where the above can go wrong, with the properties that would notice.

## The modules

```
 IrOperands ──> IrText ──> IrMachine                           the codes, and a
 (operands)     (gen_X)    (irsim.cc)                          machine for them

 Source ──> Translate ──> Compiled <── Meaning                 source to IR,
 (types,    (ir.c)        (the IR      (what the               optimized or not
  trees)       │           runs)        source means)
               └────────> Assembled <──────────────── Meaning  source to
                               │                               instructions
 Registers ──> AsmRewrite ─────┤
     │         (asm.c)         │
     │             └──────> AsmCode ──> Calls ──> IrFrames     one code at a
     └──────────────────────────│───────┘ │     (calls, as     time, in any
                                │         │      IR means)     order
                        AsmCodeProofs ──> CallsProofs

 IrText ──> Optimize ──> Optimizing ──> Compiled               the optimizer
            (the passes)  │  (the rounds, optimize.c)
                │         └──> OptimizingProofs
                └──> OptimizedRuns <── IrMachine, twice        a pass, before
                        └──> OptimizedRunsProofs               and after

 Scopes   (symbol.c, semantics.c, the lookups of ir.c)         names
   └──> ScopesProofs ──> ScopesTranslation
 CTypes ──> Typing ──> TypingProofs   (type.c, analyse_Exp)    types

 Induction   what the groups of proofs share
```

`SamplePrograms` holds the programs that `Compiled`, `Assembled` and `OptimizedRuns` run. The
chain of claims goes from the source to the instructions:

1. `Scopes`: the names of an accepted program resolve, to the same symbols in both
   passes.
2. `Typing`: the expressions of an accepted program satisfy every assertion of the
   translator.
3. `Compiled`: the IR of a program computes the `Meaning` of the program, and still does
   when the optimizer has been over it.
   `OptimizedRuns`: a program before a pass of the optimizer is implemented by what
   the pass leaves of it.
4. `Calls` implements `IrFrames`: the stack machine gives every activation variables
   of its own, as the IR supposes.
5. `AsmCode` implements `Calls`: the instructions of each code do what `Calls` says.
6. `Assembled`: the instructions of a program compute its `Meaning`.

The last claim is the others put together, for whole programs: everything between
the tree and the machine is in it, and nothing between is compared with. 3 to 5 say
where it would go wrong. They hold for more: `IrFrames`, `Calls` and `AsmCode` let any
code of a program come next, which includes every control flow there is.

A machine word is an integer, and memory is counted in words: an offset of 4 in
`src/` is an offset of 1 here. Wherever a module has an operator called *mutant*,
it is a plausible bug of the definition below it; `PROJECT.json` says which
property notices it.

### IrOperands, IrText, IrCode: the intermediate code

Operands (`irop`) and codes (`ircode`) as records, what an operand denotes
(variable, `*variable`, `&variable`, constant), and integer arithmetic with the
division of the machine, which truncates. `IrText` has the codes themselves, as the
`gen_X` of `ir.c` build them, for the modules about whole programs. `IrCode` adds, for `Calls`, the constants that
describe a program: how many variables it has, its call sites, the set of its
codes. `InBounds` says that dereferences stay in live blocks; C-- has no bounds
checks, and nothing is promised to a program that leaves its arrays.

### IrFrames: what the IR means

The abstract specification. Each activation has an environment; `CALL` suspends
it and starts the callee with arbitrary values; `DEC` gives a fresh block, whose
address is any that is free; `RETURN` and `Resume` give the caller its own
environment back, with the result in the variable of the call site. It is
what the IR simulator does with the same codes.

### Calls: the stack

| Model | Code |
|---|---|
| `data` | the `.data` words `asm_generate` reserves, one per variable |
| `stack`, `sp`, `fp`, `ra`, `v0` | the stack segment and the registers that live across codes |
| `ctl = "incall"` | `is_incall` |
| `Assign`, `BinOp`, `Read`, `Write`, `Dec`, `Arg`, `Param`, `Return` | `rewrite_Assign` ..., each with all its instructions |
| `Call`, `Land` | `rewrite_Call` before and after its `jal` |
| `Prepared`, `CallSp`, `CallFp` | `prepare_call` with `gen_store_vars` |
| `LoadedVars`, `Resume` | `end_call` with `gen_load_vars` |
| `AddressTakesRegister` | the rotation of `get_reg` coming back to the register that holds the popped word |

`frames`, `live` and `args` are history: what the machine would have to remember
for the program to be right. The machine never reads them to decide what it does;
`live` confines dereferences and `args` counts parameters, which are obligations of
the program. `lost` is where a return leads that goes to no call site.

Programs whose call site table is wrong are not considered: `ResultOf` is the
target of the `CALL` at a site, which the code after the `jal` has built in.

### Registers, AsmRewrite, AsmCode: the instructions of one code

`RewriteX` of `AsmRewrite` is the list of instructions that `rewrite_X` prints. Its
parameter `c` counts the calls of `get_reg`, which fixes the temporaries. `Exec` of
`AsmCode` is one MIPS instruction on a machine of 32 registers, `data` and `stack`;
every code is started from all (or some) positions of the rotation, with `Junk` in
every temporary: any integer for `ImplementsCalls`, and for `NoJunk` one that the program
cannot compute by itself (`JunkIsFresh`), so that it is recognised. Guards and history are
those of `Calls`, so that `ImplementsCalls` compares exactly the effects.

### Assembled: the instructions of a program

The loop of `asm_generate` takes the codes of `Translate` one by one (`Generate`) with the
state it has in `asm.c`: what is printed, the position of the rotation, `is_incall`. The
header's routines `read` and `write` come first. Then the loader jumps to `main` and the
machine executes one instruction a step, with labels resolved in the text, registers
and stack words that hold `Junk`, and `syscall` for input and output. It
is strict: it stands still at an address that is no word, at a jump to a label
that is not there exactly once, and behind the last instruction, and
`ComputesMeaning` forbids all of it.

### Scopes: names, through both passes

The environment chooses a program, construct by construct; `db` is the symbol
tables. The actions `TypeSpecifier` ... `Finish` are the handlers of `semantics.c` for
specifiers, structures, external declarations, function heads, blocks, local
definitions and uses; each contains all the lookups, `st_add`s and errors of its
handler. `nodes` is the part of the tree the translation visits. The actions
`TranslateX` are the lookups of `ir.c`, with their assertions: `dangling` is an
assertion of the translation that fails, `aborted` that of `st_add`, `unsupported`
the panic at global variables and function declarations.

### CTypes, Typing: types

`CTypes` is `type.c`: types as records, `type_full_eq` with its two levels of strictness,
the predicates, and the size. Both recursions are recursive functions over the
`Types` of a scope. `BuiltUp` says that a type contains no type that contains it, without
which neither function would be defined.

`Typing` is the expressions. `analyse_Exp` visits the operands first, so that the state is
a stack of analysed operands, and an action is the rest of one handler: it takes its
operands off the stack, reports (`passed`), stops in an assertion or a panic (`stopped`), or
pushes the result. An expression is reduced to what can still matter: its type, the
alternative of the grammar by which the check for left values goes, and what
`translate_Exp` and `translate_Cond` will do with it (`value`, `cond`: no assertion fails;
`isref`: its variable holds an address). Expressions of every depth therefore have
finitely many values, and no bound on the depth is needed. `supported` names what the
translator does not do by design, one panic or `assert` each: `FLOAT`, the name of a
function or a tag as a value, calls that return structures, assignments of
structures, and of arrays to members.

### Source, Translate, Meaning, Compiled: from the source to its result

`Source` has the trees of the grammar as records, and the types with their sizes,
as far as correct programs need them. `Translate` is `ir.c` as operators on the state
of the translator: the codes so far, the two counters, the variables marked `isref`,
the variables of the symbols, and whether every assertion held. `Meaning` is an
interpreter of the source that shares nothing with the translation: it has no
variables, labels or addresses, and a location is an object with a path into it.
`Compiled` runs the translation on the machine of `IrMachine`, in the default build or in
the one with the optimizer.

### IrMachine: the machine of the intermediate code

What the IR simulator does with a program, one code a step (`RunAssign` ...
`Halt`); labels take no step. It is strict: uninitialised
variables and words have no value, blocks do not touch one another, a block goes with
its activation, and a code that needs what is not there leaves the program stuck, which
`ComputesMeaning` forbids. A variable that no code uses gets no value (`Keep`), which no
program can notice. Where a block comes is open here; in `Compiled` it is the lowest
place, so that a program has one run. `CallsAreWhole` says of a program that its `ARG`s, `CALL`s
and `PARAM`s belong together; `ArgsGoStraightToParams` is what that means when it runs.

### Optimize, Optimizing: the build with `-DOPTIMIZE`

The passes of `optimize.c` as operators on its state: the codes, which of them are
marked (`ignore`), the current names of the labels, and the three counts per variable.
In `Optimizing` each pass is an action (`DeadAssign` ... `DupGoto`), in the order of
`optimize()`, and `DupVar` one action per code; the hundred rounds end
early when one changes nothing. What is not marked is printed (`ir_linearise`). Two passes do what they must not, see
[below](#disagreements). The history variable `sound` becomes false when they do: when a
value is forwarded to a place where it need not be the value any more (`Justified` says when
it is), or when a label
disappears under a jump. `ComputesMeaning` is claimed as long as `sound` holds, which is the
case for 236 of the 247 programs.

`WellFormed` is what the passes rely on: jumps have labels that are printed, no two
printed labels have one name, and a variable that is counted as used once has that use
and no other, although the counts are those of the last `optimizeDeadAssign`.
`PassesFitTogether` says that it always holds.

### OptimizedRuns: a program before and after a pass

`before` is any well-formed state of the optimizer and `after` what one pass makes of it,
soundly. The machine of `IrMachine` executes `before`, and `After` is an
instance of the same machine with a refinement mapping: the codes are those that
`after` leaves, the variables those that are still used, the blocks those that are still
made. `ImplementsAfter` is the specification of that machine. Every step of the program
is a step of what the pass has left of it, or none: same input, output, arguments and
results, same words in memory, and every variable and word that is read has a value. The
codes that `ir_linearise` leaves out are `Nothing` here and not executed, so that codes keep
their places.

Which address a block has may not matter to a program that stays inside its objects, but
one that computes addresses by itself could write into a block that the optimizer has dropped.
`StoresAreKept` says that it does not. It is an obligation of the program, like `InBounds`.

`Source`, `Translate`, `Meaning`, `Compiled` and `Assembled` use recursive operators
and are checked, not proved about.

## The runs

Each property of a passing run has a mutant in `PROJECT.json` that breaks it, so
that the instance is known to be large enough for the property to be able to
fail. Nine runs pass:

| Run | Instance | Shows |
|---|---|---|
| `calls` | 2 variables, 2 call sites, 9 words of stack; arguments and calls, with blocks of one word and stores through a passed address, or with arithmetic, `READ` and `WRITE` | every property of `Calls`, and `ImplementsIr`; what the routines push (`ra`) is harmless during calls |
| `asm_local` | every code that stays in an activation, every kind of operand, all 16 positions of the rotation | the instructions of these codes |
| `asm_wrap` | 17 variables, calls with and without arguments, three positions | the instructions of the call sequence, the rotation's way round included |
| `scopes` | a name for variables and parameters, one for variables, functions and tags, and `read`; blocks two deep | both passes agree |
| `scopes_shadow` | one variable name, two names in a definition, initialisers, two parameters, a function called `read`, bare identifiers | no table has a name twice |
| `compiled` | 247 programs in both builds, on up to four inputs | compiled programs compute what they mean, and stop, optimized or not; their calls are whole; the passes of the optimizer fit together |
| `optimized_runs` | 11 programs, one of them with a block that nobody uses, before and after each of the first passes: 1434 pairs | the program that a pass leaves does what the one before it did |
| `assembled` | every third of the expression programs, and those with data, loops and calls: 90 programs | the instructions of a program compute what the source means, and the machine stops |
| `types` | 10 variables, each of another type, 2 tags, `read`, `write` and 2 functions; expressions of every depth | no error is lost, what is accepted can be translated, equal structures lie alike |

**Calls.** A save area is `NumVars + 2 = 4` words, so that 9 words hold two suspended
callers with an argument, or one with blocks above and below it. That is enough for a
caller's caller to be disturbed. The codes of a run are those of one of two programs,
which `MCCalls` chooses at the start: with all of them at once the garbage that `READ`
leaves below `sp` multiplies with the blocks, and there are too many states. `Words` bounds the results of
arithmetic: small numbers, and the highest address of the stack, so that numbers and
addresses meet. Two call sites return into different variables, so that a return to
the wrong one is noticed. A program that needs more stack stops in the model; in reality
it would run into other memory, which no property is about. `FramesIntact`,
`BlocksDisjoint` and `StackLayout` say how the stack is shared, `ReturnsHome` that
control goes where it should, `LandRestores` that `sp`, `fp`, `ra` and the variables come
back. `ImplementsIr` is the refinement `Spec => Ir!Spec`: with the map of `Calls`, every
step is a step of `IrFrames`.

**AsmCode.** 17 variables are one more than the rotation has registers plus one, so
that the rotation comes round inside `gen_load_vars`: there `Calls` predicts that
exactly `t2` receives its own address, and the instructions agree (`ImplementsCalls`);
`CallCosts` says of the instructions alone what the caller gets back.
With two variables and three words of stack every local code is tried on
every kind of operand. `Rotations` are the positions of `get_reg` that are tried: all of
them for local codes; the first, one in the middle and the last for calls, where the
length of the sequences makes every register take every role anyway.

**Scopes.** The bounds are the number of nodes, symbols, tables, nested blocks,
parameters and names of a definition, all named in the `.cfg` files. Two of the
symbols are those of `read` and `write`. Four nodes are what a conflict needs: a
declaration, a definition, something in its body and one use after it. Models with
initialisers that name other variables, with functions as statements or with
parameters called like their function run into the disagreements below, and are
apart.

**Compiled.** The expressions are all those of a family: sums, products,
quotients, signs, comparisons as numbers and assignments as operands, and
conditions of two levels with `!`, `&&`, `||`, with assignments and calls of `write` in
operands that may be skipped. Each is put into the frame "read x, read y, use it,
write y, return x" and run on four inputs: 0, 1, 2 and -3 for x, which are the
signs and the values that make comparisons go all ways. Programs by hand cover what
is not an expression: matrices, structures in arrays and arrays in structures,
array assignment between different lengths, arrays and structures as arguments,
recursion, calls in arguments, blocks in loops, and loops whose condition does the
work. Each program is deterministic, so that the state space is a set of lines.
`Addresses` are far from the numbers programs compute with. `CallsAreLaidOut` is the
hypothesis of two theorems about the machine, checked for the code of every program in
both builds, and `PassesFitTogether` that of the theorem about a pass.

**OptimizedRuns.** The pairs are taken from the passes of two rounds (one or less for the larger
programs): after that little changes. Between the forwards of `optimizeDupVar` there are
states of their own. Three places for blocks are what the programs need, and a block may take
any that is free, so that both programs must make the same choice. Compared with `compiled`
this is one step at a time and does not ask what the program means.

**Assembled.** A program takes some hundred instructions, so that only every third of the
expressions is run, on two of the inputs; data and loops on one. The third
that is taken has every operator and every shape of condition. The
programs with calls have fewer than 16 variables, because calls are wrong with more
(`asm_alias`); they have two arguments, a call within an expression, recursion that needs
its parameter afterwards, a function without parameters that leaves a block, and one
that writes into the block of its caller. `StackSize` is more than any of them takes.

**Typing.** The only bound is `MaxStack = 2` operands that wait, which is what every
operator takes; calls therefore have at most two arguments. The scope has
what makes the comparisons of types differ: arrays of other lengths and dimensions,
structures that are equal although their members have other names, one that differs in
the length of an array only, and structures of these in either order.

**Fairness.** Only `Compiled` and `Assembled` have any: weak fairness of `Begin \/ Step`.
Somebody starts the program, and the machine executes the next code, or instruction,
whenever it can; there is one thread of control and no waiting. `Terminates` of both
is liveness. Translation and optimizer get no fairness: they take a bounded number
of steps. `OptimizedRuns` has none, because refinement is about steps only. The other specifications let the program choose any next code, or the next
construct, and so promise no progress.

**Deadlock** is checked everywhere but in `types`. A machine that has halted and a compiler
that has stopped have an explicit stuttering action (`Done`, `Over`, `Stop`), so that a
deadlock would be a state from which the real program could not go on. In `types` it can not
go on, once an assertion has failed (`stopped`).

## The proofs

### The calling convention

`CallsProofs` proves about `Calls`, for every number of variables, size
of the stack, set of call sites and program:

| Theorem | Statement |
|---|---|
| `TypeCorrect` | `Spec => []TypeOK` |
| `SavedAreIntact` | `Spec => []FramesIntact`: what is saved for a suspended caller stays |
| `ReturnsGoHome` | `Spec => []ReturnsHome`: every return goes to the call that waits |
| `BlocksAreDisjoint` | `Spec => []BlocksDisjoint`: blocks and call sequence never meet |
| `FramesAreLinked` | `Spec => []StackLayout` |
| `CallsAreTransparent` | `NumVars < TempRegs => (Spec => LandRestores)`: with fewer than 16 variables, calls give the caller everything back |
| `CodeImplementsIr` | `NumVars < TempRegs => (Spec => ImplementsIr)`: with fewer than 16 variables, the machine does what the IR means |

The assumptions are those that `IrCode` and `Calls` state about their constants:
`NumVars` and `StackSize` are natural numbers, call sites and inputs are integers, `ResultOf`
gives each site a variable, `Program` consists of codes, and the return address of
`main` is no call site. Nothing else is assumed. The last two need fewer than
16 variables because they are false from 16 on; see below.

The inductive invariant is

    IInv == TypeOK /\ FramesIntact /\ BlocksDisjoint /\ StackLayout

and `ReturnsHome` follows from it at each step. None of the parts is inductive alone.
`FramesIntact` is kept by a store through a pointer only because blocks are disjoint
from save areas, and by a push only because the save areas lie at or above `sp`
(`StackLayout`). `BlocksDisjoint` is kept by `Land`, which brings older blocks back, only because
the blocks of a suspended frame are known to lie above its save area. And
`StackLayout` is kept by `Land` only because what is popped into `fp` and `ra` is what was
saved (`FramesIntact`). The step that a call is entered, the longest, is shared by `Arg`
and `Call`: lemma `Preparing` shows that `prepare_call`, or the fact that it has been called
already, leads to the same invariant. There is one lemma per action, and `Inductive` puts
them together.

The refinement needs one more part, `ArgsIntact`: the arguments in flight lie in order from
`sp` upwards. Then every action of `Calls` maps to the action of `IrFrames` of the same name,
`Land` to `Resume`, `Done` to no step (`StepRefines`). Three of the lemmas say what is at
stake: `DecRefines`, that the words between the new and the old `sp` are free;
`ParamRefines`, that the word at `sp` is the argument that was passed last;
`LandRefines`, that what is popped and what the frame remembers are the same.

### The instructions

`AsmCodeProofs` proves about `AsmCode`, with the same assumptions, for every set of
positions of the rotation, and for every integer that the temporaries may hold:

| Theorem | Statement |
|---|---|
| `InstructionsDoTheCodes` | `AsmSpec => ImplementsCalls`: the instructions of every code have the effect that `Calls` gives it |
| `InstructionsLeakNothing` | `JunkIsFresh => (AsmSpec => []NoJunk)`: what a temporary held before reaches no variable, no word of the stack and no register that lives on |
| `CallsCostTheAliased` | `AsmSpec => CallCosts`: a call gives back `sp`, `fp`, `ra` and all variables except that of the result and those that `AddressTakesRegister` names |
| `LoadsWhatWasStored` | `NumVars < TempRegs => (AsmSpec => CallPreservesVariables)`: `# load_vars` undoes `# store_vars` |
| `InstructionsImplementIr` | `NumVars < TempRegs => (AsmSpec => ImplementsIr)`: the instructions do what the IR means |

The first three hold with 16 variables and more, too: `Calls` says which variable receives its own
address then (`AddressTakesRegister`), and that is what the instructions do. `asm_alias`
refutes `LoadsWhatWasStored` without its hypothesis; `CallsCostTheAliased` says what is left of
it: in each call the variable with index `var_count - 16` is lost, every sixteenth before
it, and no other.

`Run` is a recursion over the list of instructions. `RunFunction` shows that the recursion
is defined, `RunOne` and `RunConcat` that running `p \o q` is running `p` and then `q`.
From then on nothing looks at lists: `Runs(m, code, n)` says that `code` takes machine `m` to
`n`, each instruction has a lemma that says what `n` is, and so has each function of `asm.c`
that prints some: `PrepareOprandRuns`, `ApplyOprandRuns`, `PushRuns`, `PopRuns`. The loops over
all variables are inductions: after `k` rounds of `gen_store_vars` `k` words are on the stack and
the rest of the machine is as it was (`StoreVarsRuns`); after `k` rounds of `gen_load_vars`
`k` variables are back, except that the one whose address took the register of the popped
word holds that address (`LoadVarsRuns`). What keeps registers apart
everywhere else is `RegsDiffer`: fewer than 16 calls of `get_reg` give distinct registers. There is
one lemma per code, and `AsmStep` puts them together: under the invariant of `CallsProofs`,
which bounds `sp` and `fp`, every step of `AsmCode` is a step of `Calls`. `MCAsmCode` assumes
`JunkIsFresh` of its instances, so that TLC evaluates it.

### The optimizer and the machine of the intermediate code

`OptimizingProofs` proves about `Optimizing`, `OptimizedRunsProofs` about `OptimizedRuns` and
`IrMachine`, for programs of any length, any inputs and any places for blocks:

| Theorem | Module | Statement |
|---|---|---|
| `PassesAlwaysFit` | `OptimizingProofs` | `OptimizerSpec => []PassesFitTogether`: in any number of rounds, every pass finds what it relies on |
| `EachPassImplements` | `OptimizedRunsProofs` | `Spec => ([]StoresAreKept => ImplementsAfter)`: what a sound pass leaves of a program does what the program does |
| `EveryStepIsAPass` | | every sound step of `OptimizerSpec` is between two programs that `OptimizedRuns` compares |
| `ArgumentsGoStraight` | | `MachineSpec /\ code \in Seq(Codes) /\ CallsAreWhole(code) => []ArgsGoStraightToParams` |
| `MachineIsTyped` | | `MachineSpec /\ code \in Seq(Codes) => []MachineTypeOK`: no word outlives its block, no block its activation |

Assumed are that `Bases` are integers, that inputs are sequences of integers, and that `Texts` are
`WellFormed` and sound. The third is not a restriction: `PassesAlwaysFit` says that the optimizer
never leaves these states as long as it is sound, and `compiled` checks that what the translator
hands over is one of them. Nothing of `Translate` is in these modules, so that the theorems
hold for every program that could be written in the intermediate code.

`PassesAlwaysFit` is by the invariant `OptimizerInv`, that is `WellFormed(opt)` while `opt.sound`. The
passes need each other's parts of it. `optimizeDupVar` replaces the use of a variable and does not
correct the count, which is harmless because the operand it puts there adds a use of another
variable that was counted in the assignment it drops (`CountsHold`, lemma `ForwardKeeps`).
`optimizeDupLabel` renames labels under the jumps; a jump still has its label because the leader of
a row of labels stays and takes no other name (`LeaderFacts`, `Moves`). `UseCount` is the fact about
`Cardinality` behind it: a count of one is one use.

`EachPassImplements` is a refinement with the invariant `RunsInv`: the two programs are one pass
apart (`TwoPrograms`), the machine is at a code and not between, and suspended activations are
at `CALL`s (`InStep`). It goes in three layers:

1. What a step has in common. A pass does one of three things to a code. It leaves it, with
   operands that have the same value (`Agrees`): the step is a step of both (`StepAgrees`, one lemma per kind of code).
   It drops it, when it computes what nobody uses or jumps to what comes next (`Drops`): the step is
   none of the other machine's (`StepDropped`). It folds it into an assignment or a jump (`Folds`, `StepFolded`).
2. What each pass does to each code. `PassIsLocal`: codes are `Alike`, `Dropped` or `IsFolded`, and every jump
   still leads to the same code, by a label that is printed (`JumpsKept`). It holds of `optimizeDeadAssign`,
   `optimizeDupLabel`, `optimizeConstExp` and `optimizeDupGoto`, each for its own reason.
3. `optimizeDupVar` is not local: the code that receives a value is right only if the assignment has
   been executed, and the value is still the same. `ValuesHold` says so of the machine as it runs, in
   the current activation and in all suspended ones, between the assignment `i` and its use `u`
   (`HoldsAt`). Its three cases are those of `Justified`. A constant that is assigned in one
   place is in the variable wherever it has a value at all. So is the address of a block
   which is made right before the assignment. And in a straight line nothing comes between.
   `ValuesStay` shows that each step keeps it, `ForwardAgrees` that the receiving code then agrees.

That a sequence of passes implements the first program follows by transitivity, from
`EveryStepIsAPass`; it is not stated, because the passes are not bounded in number.
Refinement does not say that the optimized program goes on: that is `Terminates` in `compiled`.

`ArgumentsGoStraight` is what the code generator builds on: `is_incall`, a flag of the compiler, stands
for a state of the program. The hypothesis is about the text of the program alone, and
`CallsAreLaidOut` checks it of what is translated. The invariant `CallsInv` says that as many
arguments are on their way as there are `ARG`s right before the next code, or `PARAM`s from it on
(`Waiting`); jumps and returns come to where there are none.

### The names

Two modules prove about `Scopes`, for every set of names and every bound; that is, for every
source program, correct or not:

| Theorem | Module | Statement |
|---|---|---|
| `TypesAreKept`, `TypeCorrect` | `ScopesProofs` | `Spec => []TypeInv`, `Spec => []TypeOK` |
| `NamesAreUnique` | | `Spec => []UniqueNames`: no table gets a second symbol of one name |
| `StructTagsAreGlobal` | | `Spec => []TagsAreGlobal` |
| `UsesAreResolved` | | `Spec => []StableInv`: as long as there is no error, every use has a symbol, and no later declaration comes between |
| `NamesAreStable` | | `~Inits => (Spec => []StableNames)`: the translation finds the symbol that the analysis has found |
| `UsesAreStable` | | the same with initialisers, of calls and operands |
| `FunctionsAreKept`, `AcceptedFunctions` | `ScopesTranslation` | `Spec => []FunctionsAreDefined`: in an accepted program each function that is declared or called has one body with as many parameters |
| `TranslationIsPrepared` | | the invariant of the translation |
| `NamesAreFound` | | `~Inits /\ ~BareUses => (Spec => []TranslationFindsNames)`: no assertion and no cast of a lookup fails |

`BoundsAssumption` and the names of the library are all that is assumed. `Inits` and
`BareUses` say whether programs may have initialisers, and identifiers as statements. With
initialisers the theorem is false (`scopes_inits`); so it is with the name of a function as a
statement, which the analysis lets pass.

`ScopesProofs` begins with what the operations on the tables do, whoever calls them. `st_find` climbs a
chain of tables by recursion. It is defined because a table is younger than its
parent, and the lemma used everywhere is what it finds when the tables have grown: the same,
unless one of the tables of the chain got the name. The invariant is built in layers,
each of which needs the ones before:

- `TypeInv`: the tables are a tree, those of the open constructs get younger from the outside
  in, blocks are inside of statements and definitions before them, and each node refers to a
  table that exists.
- `Unique`: kept because every handler looks before it calls `st_add`, which is only of use because
  it looks in the table it adds to.
- `GlobalTags`: struct tags are in the outermost table only, and what hides one there was
  in scope before it, or a function of the name is.
- `StableInv`: of each use, the symbol it was resolved to is in a table of its chain, and no table
  below has the name. Declarations come before statements in a block, so that a table below is
  never added to afterwards; the outermost table is, but there `st_find` has been everywhere else.
  An initialiser is a use before the declarations of its block end, which is why
  it is not covered.
- `FunInv`: the states of the functions (declared, defined) agree with the nodes that the
  analysis has left for the translation, in spite of the errors after which it goes on.
- `TransInv`: whatever a lookup will need at a later node has its variable or label from a node
  before that; those that the analysis has left are in that order. Every step of the translation
  moves one node on, and needs `StableInv` to know that the symbol it finds is the one that
  was prepared.

### The types of expressions

`TypingProofs` proves about `Typing`, for every scope:

| Theorem | Statement |
|---|---|
| `TypeCorrect` | `Spec => []TypeOK` |
| `ReportsErrors` | `Spec => []ErrorsAreReported`: no expression has the type `ANY` or `NEVER` before an error is reported |
| `TranslatesAccepted` | `Spec => []AcceptedIsTranslated`: what is accepted and supported fails no assertion of the translator |
| `ExplainsStops` | `Spec => []StopsAreExplained`: the analysis aborts only at a reported index, or at an assignment of one tag to another |
| `EqualStructures` | `BuiltUp(depth) => (Spec => []EqualStructuresLieAlike)`: structures that count as equal have the same size and members at the same places |

The assumptions are those of the scope: `TypesAssumption` of `CTypes` (the set of types is closed
under elements, members, parameters and results, all of which are integers, floats, arrays or
structures, and the base of an array is no array) and `SymbolsAssumption` of `Typing` (no
symbol is declared with the type of an error, and `read` and `write`, where they are
functions, are the library's). The invariant says of every expression on the stack
what holds of it when it was pushed (`Good`): an error type only after a report; a supported
expression that is accepted can be translated both ways; and the address flag of an array
or structure is set. It is inductive because the handlers test, in the order in which they do, at least
what the translator asserts. There is one lemma per handler.

`EqualStructures` is an induction over how deep types are nested. `Same` and `Size` are defined by
recursion over types, so that `SameDefined` and `SizeDefined` come first: where types are built
up from others, for which `depth` stands, there is one function as the definition says.
`EqualSizes` then is the statement about all types, with the condition that makes it inductive:
arrays are compared with their lengths, or are no arrays. It is met by members, which are
compared strictly, and by the base of an array, which is no array; it is not met by
operands, and two arrays that count as equal may have different sizes. `MCTyping` computes a
`Depth` of its types and assumes `BuiltUp` of it.

### Induction

The induction theorems of the library have a predicate as a parameter, which the provers
cannot instantiate. `Induction` states them with sets and functions instead: `SetInduction`
(a set that has a number whenever it has all smaller ones has all numbers) follows from
the well-foundedness of `<`, and the other lemmas follow from it: what `FlattenSeq` returns;
that a function may be defined by recursion to arguments of less depth (`RecursiveFunction`);
that a sum or a product over `1 .. n` is determined by its equations (`Accumulation`).

### What is only model-checked

- `ComputesMeaning`, `JumpsStayInside` and `CallsAreLaidOut` of `Compiled`, and everything about
  `Assembled`: the translation is a recursion over
  the syntax tree with operators that are declared `RECURSIVE`, which the provers do not take.
  `ComputesMeaning` would need an induction over programs with a relation between the
  environments of `Meaning` and the variables of the code.
- `StoresAreKept`, an obligation of the program, which the machine alone cannot fulfil.
- `Terminates`, as any liveness under fairness.

## Disagreements

Three runs end in a counterexample: the code does not do what a comment or an
assertion of its own says.

- `asm_alias`: `# load_vars` does not undo `# store_vars`. `gen_load_vars` keeps one register
  over `var_count` calls of `get_reg`, which has 16 registers; with 16 or more IR
  variables, the one with index `var_count - 16` is overwritten with its own address after every
  call. The property holds with 15 and fewer (`CallsAreTransparent`, `CodeImplementsIr`).
- `scopes_inits`: `AssertNotNull(val->ir)` in the translation of an identifier. In
  `{ int a; { int b = a; int a; } }` the analysis finds the outer `a`, the translation the
  inner one, which has no variable yet.
- `compiled_not`: `!x` in the place of a value is left "for later", where the test for it
  (`count == 1`) can never succeed: no code is emitted.

More of them were met while modelling and have no run of their own:

- `st_add` asserts that a name is new, and `int f(int f)` makes it fail. Adding `AddsAreChecked`
  to the invariants of `MCScopesShadow.cfg` shows it.
- The statement `f;` for a function `f` passes the analysis and fails the same assertion as
  `scopes_inits`. Setting `UseNames = {"f"}` in `MCScopesShadow.cfg` shows it.
- `int b[2] = a;` assigns the first word of `a` to the variable that holds the address of `b`;
  "offset must be a address" (`ir.c`, 914) no longer holds. `Programs <- ArrayInitPrograms` and the
  invariant `OffsetsAreAddresses` in `MCCompiled.cfg` show it.
- `S = T` for two tags ends in the panic of `type_full_eq` with nothing reported. It is the second case of
  `StopsAreExplained`.
- `optimizeDupVar` forwards `y` from `x = y` to the use of `x` when `x` is assigned once and used once. `y`
  may have been assigned again in between, the use may be reached on a path without the assignment, and
  assignments by `PARAM` and arithmetic are not counted. It is recorded in `sound`.
- `optimizeDupLabel` merges labels that follow each other by copying the name of the first over the
  names of the others. A label that took the name of one of these in an earlier round keeps it:
  `if (a) {} else { if (1) {} }` ends with a `GOTO` to a label that is not printed. It is recorded in
  `sound`. Together, 11 of the 247 programs meet one of the two.

`Translate` emits code for array elements that is read when it is used, not when it is
evaluated, so that `a[0] + (a[0] = 1)` differs from left-to-right evaluation. C leaves
this order open; `Meaning` is used only with programs that do not depend on it.

## What is left out

- **Lexing and parsing**: generated code; the trees are the input of the models.
- **Driver**: `main` calls the passes one after the other and none after one that failed, which
  `Scopes` has in its guards; the rest is options, files and printing.
- **Containers**: lists and hash tables are sequences and sets. A failed assertion or
  cast is modelled where it can happen.
- **Names in the assembly**: a function called `l1` or like an instruction collides with what the
  generator makes up. `Assembled` knows labels by their names, but only functions that
  are called otherwise.
- **Floating point numbers and functions that return structures**: the translation ends
  in an assertion failure. `Typing` has them, `Translate` has not.
- **Width of words**: integers are unbounded. Overflow in MIPS arithmetic traps or wraps
  exactly where that of the source is undefined.

## The plan

Everything that was planned is modelled, and every safety property of the modules
without `RECURSIVE` operators is proved. What would say more:

1. The translation as a relation between trees and codes instead of recursive operators, so
   that `CallsAreLaidOut` and `JumpsStayInside` could be proved of every translated program by
   induction over the construction, and after them `ComputesMeaning` for expressions.
2. The machine of `IrMachine` as the abstract specification of `Calls` for a fixed program, in
   place of `IrFrames`, which lets any code come next.
