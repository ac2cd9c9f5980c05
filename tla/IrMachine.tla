------------------------------ MODULE IrMachine ------------------------------
(***************************************************************************)
(* The intermediate code of a program running, one code a step, as the     *)
(* repository's IR simulator executes it (src/test/ir/irsim/irsim.cc).     *)
(*                                                                         *)
(* Labels emit nothing there, so that they take no step here: pc is never  *)
(* at one.  Neither is it at a code that is there but is not printed,      *)
(* which the optimizer leaves behind and OptimizedRuns calls Nothing.      *)
(*                                                                         *)
(* Each activation has its own variables and blocks.  A variable has no    *)
(* value before its first assignment, nor has a word of a block; blocks    *)
(* never touch, so that an address one word off is nobody's.  A program    *)
(* that uses what has no value, writes where no block is, or runs from one *)
(* function into the next is stuck.                                        *)
(***************************************************************************)
EXTENDS IrText, SequencesExt

CONSTANT
  Bases  \* where blocks may begin

ASSUME BasesAssumption == Bases \subseteq Int

VARIABLES
  status,  \* "running" or "halted" here; a compiler may come before
  code,    \* the program
  inp,     \* what is left to be read
  pc,      \* the next code
  data,    \* the variables of the current activation that have a value
  blocks,  \* the words of the blocks: the variable that DEC gave the block
           \* to, and how many activations were suspended then
  mem,     \* the words that have a value
  frames,  \* the suspended activations, the oldest first
  args,    \* the arguments passed and not yet taken
  out,     \* what was written
  result   \* what main returned

registers == <<inp, pc, data, blocks, mem, frames, args, out, result>>
machineVars == <<status, code, registers>>

-----------------------------------------------------------------------------
\* The codes that are not executed.
Silent(c) == c.op \in {"Label", "Nothing"}

\* What is executed next, from i on; behind the last code is nothing.
Rest(codes, i) ==
  CHOOSE j \in i .. Len(codes) + 1 :
    /\ \A k \in i .. j - 1 : k \in DOMAIN codes => Silent(codes[k])
    /\ j \in DOMAIN codes => ~Silent(codes[j])

Entries(f, codes) == {i \in DOMAIN codes : codes[i] = Func(f)}
Places(l, codes)  == {i \in DOMAIN codes : codes[i] = Label(l)}

BodyOf(f, codes)   == Rest(codes, 1 + CHOOSE i \in Entries(f, codes) : TRUE)
TargetOf(l, codes) == Rest(codes, CHOOSE i \in Places(l, codes) : TRUE)

\* The machine is about to execute main.
MachineInit ==
  /\ status = "running"
  /\ Entries("main", code) # {}
  /\ inp \in Seq(Int)
  /\ pc = BodyOf("main", code)
  /\ data = << >> /\ blocks = << >> /\ mem = << >>
  /\ frames = << >> /\ args = << >> /\ out = << >>
  /\ result = 0

-----------------------------------------------------------------------------
(* What a code needs. *)

Here == IF pc \in DOMAIN code THEN code[pc] ELSE [op |-> "End"]

HasValue(op) ==
  /\ op.kind # "Constant" => op.var \in DOMAIN data
  /\ op.kind = "Deref" => data[op.var] \in DOMAIN mem

Val(op) == Value(op, data, mem)

\* What a target of an assignment must have: the word it names must exist.
CanTake(op) == op.kind = "Deref" => op.var \in DOMAIN data /\ data[op.var] \in DOMAIN blocks

\* What the next code reads.
Reads ==
  CASE Here.op = "Assign"       -> {Here.right}
    [] Here.op \in ArithKinds \cup {"Branch"} -> {Here.op1, Here.op2}
    [] Here.op = "Return"       -> {Here.ret}
    [] Here.op = "Arg"          -> {Here.arg}
    [] Here.op = "Write"        -> {Here.write}
    [] OTHER                    -> {}

\* The program may execute it: a function is entered by calls only.
Executable ==
  /\ Here.op \notin {"Func", "End"}
  /\ \A op \in Reads : HasValue(op)
  /\ Here.op = "Assign" => CanTake(Here.left)
  /\ Here.op = "Div" => Val(Here.op2) # 0
  /\ Here.op = "Param" => args # << >>
  /\ Here.op = "Read" => inp # << >>
  /\ Here.op = "Call" => Entries(Here.func, code) # {}
  /\ Here.op \in {"Goto", "Branch"} => Places(Here.label, code) # {}

At(ops) == status = "running" /\ Here.op \in ops /\ Executable

-----------------------------------------------------------------------------
(* What it does. *)

With(f, x, v) == [y \in DOMAIN f \cup {x} |-> IF y = x THEN v ELSE f[y]]

\* Only the variables that some code uses are worth keeping.
IsUsed(v, codes) == \E i \in DOMAIN codes : FieldsUsing(codes[i], v) # {}
Keep(env, x, v) == IF IsUsed(x, code) THEN With(env, x, v) ELSE env

Advance == pc' = Rest(code, pc + 1) /\ UNCHANGED <<status, code, result>>

RunAssign ==
  /\ At({"Assign"})
  /\ IF Here.left.kind = "Deref"
     THEN mem' = With(mem, data[Here.left.var], Val(Here.right)) /\ data' = data
     ELSE data' = Keep(data, Here.left.var, Val(Here.right)) /\ mem' = mem
  /\ Advance
  /\ UNCHANGED <<inp, blocks, frames, args, out>>

RunArith ==
  /\ At(ArithKinds)
  /\ data' = Keep(data, Here.target, Arith(Here.op, Val(Here.op1), Val(Here.op2)))
  /\ Advance
  /\ UNCHANGED <<inp, blocks, mem, frames, args, out>>

RunGoto ==
  /\ At({"Goto"})
  /\ pc' = TargetOf(Here.label, code)
  /\ UNCHANGED <<status, code, inp, data, blocks, mem, frames, args, out, result>>

RunBranch ==
  /\ At({"Branch"})
  /\ pc' = IF Relation(Here.relop, Val(Here.op1), Val(Here.op2))
           THEN TargetOf(Here.label, code) ELSE Rest(code, pc + 1)
  /\ UNCHANGED <<status, code, inp, data, blocks, mem, frames, args, out, result>>

\* There is room for n words, one word away from every block.
Free(base, n) == \A a \in base - 1 .. base + n : a \notin DOMAIN blocks

RunDec(base) ==
  /\ At({"Dec"})
  /\ Free(base, Here.size)
  /\ LET new == base .. base + Here.size - 1
     IN blocks' = [a \in DOMAIN blocks \cup new |->
                     IF a \in new THEN [var |-> Here.var, depth |-> Len(frames)] ELSE blocks[a]]
  /\ data' = Keep(data, Here.var, base)
  /\ Advance
  /\ UNCHANGED <<inp, mem, frames, args, out>>

RunRead ==
  /\ At({"Read"})
  /\ data' = Keep(data, Here.read, Head(inp))
  /\ inp' = Tail(inp)
  /\ Advance
  /\ UNCHANGED <<blocks, mem, frames, args, out>>

RunWrite ==
  /\ At({"Write"})
  /\ out' = Append(out, Val(Here.write))
  /\ Advance
  /\ UNCHANGED <<inp, data, blocks, mem, frames, args>>

RunArg ==
  /\ At({"Arg"})
  /\ args' = Append(args, Val(Here.arg))
  /\ Advance
  /\ UNCHANGED <<inp, data, blocks, mem, frames, out>>

RunCall ==
  /\ At({"Call"})
  /\ frames' = Append(frames, [data |-> data, pc |-> pc])
  /\ data' = << >>
  /\ pc' = BodyOf(Here.func, code)
  /\ UNCHANGED <<status, code, inp, blocks, mem, args, out, result>>

RunParam ==
  /\ At({"Param"})
  /\ data' = Keep(data, Here.param, Last(args))
  /\ args' = Front(args)
  /\ Advance
  /\ UNCHANGED <<inp, blocks, mem, frames, out>>

\* Mutant: what was in the blocks outlives the activation.
DiscardBlocksOnly(mine) ==
  /\ blocks' = [a \in DOMAIN blocks \ mine |-> blocks[a]]
  /\ mem' = mem

\* The blocks of the activation go with it.
Discard(mine) ==
  /\ blocks' = [a \in DOMAIN blocks \ mine |-> blocks[a]]
  /\ mem'    = [a \in DOMAIN mem \ mine |-> mem[a]]

RunReturn ==
  /\ At({"Return"}) /\ frames # << >>
  /\ LET f == Last(frames)
     IN /\ data' = Keep(f.data, code[f.pc].target, Val(Here.ret))
        /\ pc' = Rest(code, f.pc + 1)
  /\ frames' = Front(frames)
  /\ Discard({a \in DOMAIN blocks : blocks[a].depth = Len(frames)})
  /\ UNCHANGED <<status, code, inp, args, out, result>>

Halt ==
  /\ At({"Return"}) /\ frames = << >>
  /\ result' = Val(Here.ret)
  /\ status' = "halted"
  /\ UNCHANGED <<code, inp, pc, data, blocks, mem, frames, args, out>>

\* What takes no block.
OtherStep ==
  \/ RunAssign \/ RunArith \/ RunGoto \/ RunBranch
  \/ RunRead \/ RunWrite \/ RunArg \/ RunCall \/ RunParam \/ RunReturn \/ Halt

MachineNext == OtherStep \/ \E base \in Bases : RunDec(base)

MachineSpec == MachineInit /\ [][MachineNext]_machineVars

-----------------------------------------------------------------------------
(* Types. *)

\* Some variables with their values.
IsEnv(env) == \A x \in DOMAIN env : x \in Nat /\ env[x] \in Int

\* Every block belongs to an activation that is not over, every word that has a
\* value to a block, and every suspended activation waits behind a CALL
\* (irsim.cc 378-398).
MachineTypeOK ==
  status \in {"running", "halted"} =>
    /\ \A s \in {inp, args, out} : s \in Seq(Int)
    /\ pc \in 1 .. Len(code) + 1
    /\ pc \in DOMAIN code => ~Silent(code[pc])
    /\ IsEnv(data)
    /\ \A a \in DOMAIN blocks : a \in Int /\ blocks[a].depth \in 0 .. Len(frames)
    /\ \A a \in DOMAIN mem : a \in DOMAIN blocks /\ mem[a] \in Int
    /\ \A i \in DOMAIN frames :
         /\ IsEnv(frames[i].data)
         /\ frames[i].pc \in DOMAIN code /\ code[frames[i].pc].op = "Call"
    /\ result \in Int

-----------------------------------------------------------------------------
(* Calls. *)

\* Right before i there are n ARG codes, right behind e there are n PARAM codes.
ArgsBefore(codes, i, n) ==
  /\ i - n >= 1 /\ \A k \in i - n .. i - 1 : codes[k].op = "Arg"
  /\ i - n > 1 => codes[i - n - 1].op # "Arg"

ParamsAfter(codes, e, n) ==
  /\ e + n <= Len(codes) /\ \A k \in e + 1 .. e + n : codes[k].op = "Param"
  /\ e + n < Len(codes) => codes[e + n + 1].op # "Param"

\* A function takes its parameters first, and a call comes right behind the
\* arguments, as many as there are parameters.  main has none.
CallsAreWhole(codes) ==
  /\ \A i \in DOMAIN codes :
       /\ codes[i].op = "Arg" => i < Len(codes) /\ codes[i + 1].op \in {"Arg", "Call"}
       /\ codes[i].op = "Param" => i > 1 /\ codes[i - 1].op \in {"Func", "Param"}
       /\ codes[i].op = "Call" =>
            \E n \in 0 .. i : /\ ArgsBefore(codes, i, n)
                             /\ \A e \in Entries(codes[i].func, codes) : ParamsAfter(codes, e, n)
  /\ \A e \in Entries("main", codes) : ParamsAfter(codes, e, 0)

\* Between the first argument of a call and the last parameter of the callee
\* nothing else is executed, and the callee takes exactly what was passed.
\* The code generator opens a frame at the first ARG and passes arguments on
\* the stack, so it depends on this (asm.c, is_incall; ir.c, 890-908).
ArgsGoStraightToParams ==
  status = "running" =>
    /\ args # << >> => Here.op \in {"Arg", "Call", "Param"}
    /\ Here.op = "Param" => args # << >>
    /\ Here.op = "Call" =>
         \A e \in Entries(Here.func, code) : ParamsAfter(code, e, Len(args))
=============================================================================
