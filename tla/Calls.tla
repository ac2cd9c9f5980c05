-------------------------------- MODULE Calls --------------------------------
(***************************************************************************)
(* The run-time of a compiled program, as src/src/asm.c lays it out: one   *)
(* static .data word per IR variable, shared by all the activations, and a *)
(* stack that grows downwards.  Before the first ARG of a call (or before  *)
(* the CALL, when it has none) the caller pushes every variable of the     *)
(* program, its return address and its frame pointer; it then pushes the   *)
(* arguments and jumps.  The callee pops the arguments as its PARAMs, takes*)
(* its DEC blocks from the stack and never gives them back; the caller     *)
(* does, by resetting sp to fp when control is back.                       *)
(*                                                                         *)
(*      address             contents                                       *)
(*      s                   <- sp before the call                          *)
(*      s-1 .. s-NumVars    t1, t2, ..., t_NumVars                         *)
(*      s-NumVars-1         ra                                             *)
(*      s-NumVars-2         fp           <- fp during the call             *)
(*      below               the arguments, then the callee's blocks        *)
(*                                                                         *)
(* One action per IR code; its effect is that of all the instructions      *)
(* emitted for the code.  Only CALL is two actions, because the callee     *)
(* runs between the jal and the instructions after it.  AsmCode shows that *)
(* the instructions have these effects.  The programs are those of         *)
(* IrFrames: any code of Program may come next.                            *)
(*                                                                         *)
(* frames, live and args are history variables: they record what the       *)
(* program may rely on, and no action reads them to decide what the        *)
(* machine does, except that live confines dereferences and args counts    *)
(* the PARAMs.                                                             *)
(***************************************************************************)
EXTENDS IrCode, Registers, Sequences, FiniteSets

CONSTANTS
  Halt,      \* the return address main is entered with
  StackSize  \* bound: words of stack; a program that needs more faults

ASSUME HaltAssumption  == Halt \in Int \ Sites
ASSUME StackAssumption == StackSize \in Nat

VARIABLES
  data,   \* the .data words of the variables
  stack,  \* the words of the stack segment
  sp, fp, ra, v0,  \* the registers that live longer than one IR code
  ctl,    \* what kind of code comes next; "incall" is asm.c's is_incall
  frames, live, args

vars == <<data, stack, sp, fp, ra, v0, ctl, frames, live, args>>

Addr == 0 .. StackSize - 1

\* The address of the .data word of x, next to those of the stack.
Label(x) == StackSize + x

\* How much prepare_call pushes.
SaveSize == NumVars + 2

Frame == [env : [Vars -> Int], live : SUBSET Addr, site : Sites \cup {Halt},
          ra : Int, fp : Int, sp : 0 .. StackSize]

Ctl == {"code", "incall", "entry", "returned", "halted", "lost"}

TypeOK ==
  /\ data \in [Vars -> Int]
  /\ stack \in [Addr -> Int]
  /\ sp \in 0 .. StackSize
  /\ fp \in Int /\ ra \in Int /\ v0 \in Int
  /\ ctl \in Ctl
  /\ frames \in Seq(Frame)
  /\ live \subseteq Addr
  /\ args \in Seq(Int)

Init ==
  /\ data = [x \in Vars |-> 0]
  /\ stack = [a \in Addr |-> 0]
  /\ sp = StackSize
  /\ fp = 0 /\ ra = Halt /\ v0 = 0
  /\ ctl = "code"
  /\ frames = << >> /\ live = {} /\ args = << >>

Top == frames[Len(frames)]

Eval(op) == Value(op, data, stack)

Readable(op) == InBounds(op, data, live)

-----------------------------------------------------------------------------
(* Codes that stay inside the current activation. *)

Assign(left, right) ==
  /\ ctl = "code"
  /\ Readable(left) /\ Readable(right)
  /\ IF left.kind = "Deref"
     THEN stack' = [stack EXCEPT ![data[left.var]] = Eval(right)]
          /\ data' = data
     ELSE data' = [data EXCEPT ![left.var] = Eval(right)] /\ stack' = stack
  /\ UNCHANGED <<sp, fp, ra, v0, ctl, frames, live, args>>

\* Mutant of BinOp: rewrite_Add emits a sub.
BinOpSubtracts(kind, x, op1, op2) ==
  /\ ctl = "code"
  /\ Readable(op1) /\ Readable(op2)
  /\ kind = "Div" => Eval(op2) # 0
  /\ data' = [data EXCEPT ![x] =
       Arith(IF kind = "Add" THEN "Sub" ELSE kind, Eval(op1), Eval(op2))]
  /\ UNCHANGED <<stack, sp, fp, ra, v0, ctl, frames, live, args>>

BinOp(kind, x, op1, op2) ==
  /\ ctl = "code"
  /\ Readable(op1) /\ Readable(op2)
  /\ kind = "Div" => Eval(op2) # 0
  /\ Arith(kind, Eval(op1), Eval(op2)) \in Words
  /\ data' = [data EXCEPT ![x] = Arith(kind, Eval(op1), Eval(op2))]
  /\ UNCHANGED <<stack, sp, fp, ra, v0, ctl, frames, live, args>>

\* Mutants of Read: the jal is made without saving ra; ra is stored before sp
\* is lowered.
ReadLosesRa(x, i) ==
  /\ ctl = "code"
  /\ v0' = i
  /\ ra' = -1
  /\ data' = [data EXCEPT ![x] = i]
  /\ UNCHANGED <<stack, sp, fp, ctl, frames, live, args>>

ReadSavesAtSp(x, i) ==
  /\ ctl = "code"
  /\ sp \in Addr
  /\ stack' = [stack EXCEPT ![sp] = ra]
  /\ v0' = i
  /\ data' = [data EXCEPT ![x] = i]
  /\ UNCHANGED <<sp, fp, ra, ctl, frames, live, args>>

\* ra is saved around the jal to the read routine, in the word below sp.
Read(x, i) ==
  /\ ctl = "code"
  /\ sp >= 1
  /\ stack' = [stack EXCEPT ![sp - 1] = ra]
  /\ v0' = i
  /\ data' = [data EXCEPT ![x] = i]
  /\ UNCHANGED <<sp, fp, ra, ctl, frames, live, args>>

\* The write routine leaves 0 in v0.
Write(op) ==
  /\ ctl = "code"
  /\ sp >= 1
  /\ Readable(op)
  /\ stack' = [stack EXCEPT ![sp - 1] = ra]
  /\ v0' = 0
  /\ UNCHANGED <<data, sp, fp, ra, ctl, frames, live, args>>

\* Mutants of Dec: the variable gets the old sp; the stack grows upwards.
DecTakesOldSp(x, size) ==
  /\ ctl = "code"
  /\ sp >= size /\ sp + size <= StackSize
  /\ sp' = sp - size
  /\ data' = [data EXCEPT ![x] = sp]
  /\ live' = live \cup (sp .. sp + size - 1)
  /\ UNCHANGED <<stack, fp, ra, v0, ctl, frames, args>>

DecGrowsUp(x, size) ==
  /\ ctl = "code"
  /\ sp' = sp + size
  /\ data' = [data EXCEPT ![x] = sp + size]
  /\ live' = live \cup (sp .. sp + size - 1)
  /\ UNCHANGED <<stack, fp, ra, v0, ctl, frames, args>>

Dec(x, size) ==
  /\ ctl = "code"
  /\ sp >= size
  /\ sp' = sp - size
  /\ data' = [data EXCEPT ![x] = sp - size]
  /\ live' = live \cup (sp - size .. sp - 1)
  /\ UNCHANGED <<stack, fp, ra, v0, ctl, frames, args>>

-----------------------------------------------------------------------------
(* Calls.  prepare_call does nothing once is_incall is set. *)

Prepared ==
  [a \in Addr |->
     IF a \in sp - NumVars .. sp - 1 THEN data[sp - a]
     ELSE IF a = sp - NumVars - 1 THEN ra
     ELSE IF a = sp - SaveSize THEN fp
     ELSE stack[a]]

CallStack == IF ctl = "incall" THEN stack ELSE Prepared
CallSp == IF ctl = "incall" THEN sp ELSE sp - SaveSize
CallFp == IF ctl = "incall" THEN fp ELSE CallSp

Suspended == [env |-> data, live |-> live, site |-> Halt,
              ra |-> ra, fp |-> fp, sp |-> sp]

CallFrames == IF ctl = "incall" THEN frames ELSE Append(frames, Suspended)

\* Mutant of Arg: the word is stored before sp is lowered.
ArgStoresFirst(op) ==
  /\ ctl \in {"code", "incall"}
  /\ CallSp >= 1
  /\ Readable(op)
  /\ stack' = [CallStack EXCEPT ![CallSp] = Value(op, data, CallStack)]
  /\ sp' = CallSp - 1
  /\ fp' = CallFp
  /\ ctl' = "incall"
  /\ frames' = CallFrames
  /\ args' = Append(args, Value(op, data, CallStack))
  /\ UNCHANGED <<data, ra, v0, live>>

Arg(op) ==
  /\ ctl \in {"code", "incall"}
  /\ CallSp >= 1
  /\ Readable(op)
  /\ stack' = [CallStack EXCEPT ![CallSp - 1] = Value(op, data, CallStack)]
  /\ sp' = CallSp - 1
  /\ fp' = CallFp
  /\ ctl' = "incall"
  /\ frames' = CallFrames
  /\ args' = Append(args, Value(op, data, CallStack))
  /\ UNCHANGED <<data, ra, v0, live>>

\* rewrite_Call up to its jal.
Call(site) ==
  /\ ctl \in {"code", "incall"}
  /\ CallSp >= 0
  /\ stack' = CallStack
  /\ sp' = CallSp
  /\ fp' = CallFp
  /\ ra' = site
  /\ ctl' = IF args = << >> THEN "code" ELSE "entry"
  /\ frames' = [CallFrames EXCEPT ![Len(CallFrames)].site = site]
  /\ UNCHANGED <<data, v0, live, args>>

Param(x) ==
  /\ ctl = "entry"
  /\ data' = [data EXCEPT ![x] = stack[sp]]
  /\ sp' = sp + 1
  /\ args' = SubSeq(args, 1, Len(args) - 1)
  /\ ctl' = IF Len(args) = 1 THEN "code" ELSE "entry"
  /\ UNCHANGED <<stack, fp, ra, v0, frames, live>>

\* jr $ra: control is wherever ra says.
Return(op) ==
  /\ ctl = "code"
  /\ Readable(op)
  /\ v0' = Eval(op)
  /\ ctl' = IF ra = Halt THEN "halted"
            ELSE IF ra \in Sites THEN "returned" ELSE "lost"
  /\ UNCHANGED <<data, stack, sp, fp, ra, frames, live, args>>

\* gen_load_vars pops every word into one register and takes the next one
\* of the rotation for the address of the variable.  When the rotation comes
\* back to the first register, the address overwrites the popped word.
AddressTakesRegister(x) == (NumVars + 1 - x) % TempRegs = 0

\* What gen_load_vars leaves in x.
Restored(x) ==
  IF AddressTakesRegister(x) THEN Label(x) ELSE stack[fp + SaveSize - x]

\* The caller goes on with these variables and registers.
Resume(values, s, f, r) ==
  /\ ctl = "returned"
  /\ data' = values
  /\ sp' = s /\ fp' = f /\ ra' = r
  /\ ctl' = "code"
  /\ frames' = SubSeq(frames, 1, Len(frames) - 1)
  /\ live' = Top.live
  /\ UNCHANGED <<stack, v0, args>>

LoadedVars == [x \in Vars |-> Restored(x)]

WithResult == [LoadedVars EXCEPT ![ResultOf[ra]] = v0]

\* Mutants of Land: fp is not popped; ra is popped before fp; sp is not reset
\* to fp; the result is stored before the variables are loaded.
LandForgetsFp == Resume(WithResult, fp + SaveSize, fp, stack[fp + 1])

LandSwapsPops == Resume(WithResult, fp + SaveSize, stack[fp + 1], stack[fp])

LandTrustsSp ==
  /\ sp + SaveSize <= StackSize
  /\ Resume([[x \in Vars |-> stack[sp + SaveSize - x]] EXCEPT ![ResultOf[ra]] = v0],
            sp + SaveSize, stack[sp], stack[sp + 1])

LandLosesResult == Resume(LoadedVars, fp + SaveSize, stack[fp], stack[fp + 1])

\* rewrite_Call after its jal: end_call, then the result.
Land == Resume(WithResult, fp + SaveSize, stack[fp], stack[fp + 1])

\* main has returned to the start-up code.
Done == ctl = "halted" /\ UNCHANGED vars

\* The switch of asm_generate.
Execute(c) ==
  \/ c.op = "Assign" /\ Assign(c.left, c.right)
  \/ c.op \in ArithKinds /\ BinOp(c.op, c.target, c.op1, c.op2)
  \/ c.op = "Return" /\ Return(c.ret)
  \/ c.op = "Dec" /\ Dec(c.var, c.size)
  \/ c.op = "Arg" /\ Arg(c.arg)
  \/ c.op = "Call" /\ Call(c.site)
  \/ c.op = "Param" /\ Param(c.param)
  \/ c.op = "Read" /\ \E i \in Inputs : Read(c.read, i)
  \/ c.op = "Write" /\ Write(c.write)

Next == Land \/ Done \/ \E c \in Program : Execute(c)

Spec == Init /\ [][Next]_vars

-----------------------------------------------------------------------------
(* Properties. *)

Depth == Len(frames)

\* The fp that the call of the activation frames[k] runs with.
Base(k) == frames[k].sp - SaveSize

\* The save area of frames[k].
SaveArea(k) == Base(k) .. frames[k].sp - 1

\* Whatever the functions that are running have done to the variables, to
\* sp and to their own blocks, the save area of every suspended caller still
\* holds the caller's variables, return address and frame pointer
\* (gen_store_vars, prepare_call).
FramesIntact ==
  \A k \in 1 .. Depth :
    /\ \A x \in Vars : stack[frames[k].sp - x] = frames[k].env[x]
    /\ stack[Base(k) + 1] = frames[k].ra
    /\ stack[Base(k)] = frames[k].fp

\* A RETURN jumps to the call site of the caller that is waiting for it, or
\* out of the program when nobody is: never to a stale return address.
ReturnsHome ==
  /\ ctl = "returned" => frames # << >> /\ ra = Top.site /\ fp = Base(Depth)
  /\ ctl = "halted" => frames = << >>
  /\ ctl # "lost"

\* A block that the program may still use is never where the call sequence
\* writes: it lies at or above sp, outside every save area and outside the
\* arguments in flight.
BlocksDisjoint ==
  \A a \in live :
    /\ a >= sp + Len(args)
    /\ \A k \in 1 .. Depth : a \notin SaveArea(k)

\* The suspended frames lie one below the other, each linked to the one above
\* by the saved fp and ra, the innermost by the registers; what is below the
\* innermost save area is the arguments in flight and the blocks of the
\* running function.
StackLayout ==
  /\ \A k \in 1 .. Depth :
       /\ Base(k) >= sp + Len(args)
       /\ \A j \in 1 .. Depth :
            j < k => Base(j) >= frames[k].sp /\ frames[j].live \subseteq frames[k].live
       /\ k > 1 => frames[k].fp = Base(k - 1) /\ frames[k].ra = frames[k - 1].site
       /\ k = 1 => frames[k].ra = Halt
       /\ k < Depth \/ ctl # "incall" => frames[k].site \in Sites
       /\ frames[k].live \subseteq live
       /\ \A a \in frames[k].live : a >= frames[k].sp
  /\ Depth > 0 => fp = Base(Depth)
  /\ ra = IF ctl = "incall" THEN Top.ra
          ELSE IF Depth = 0 THEN Halt ELSE Top.site
  /\ ctl \in {"incall", "entry"} => Depth > 0 /\ sp + Len(args) = Base(Depth)
  /\ ctl = "incall" => Top.env = data /\ Top.live = live
  /\ ctl \notin {"incall", "entry"} <=> args = << >>

\* A call gives the stack back completely: when the caller goes on, sp, fp
\* and ra are what they were before the call, although the callee never
\* undoes its DECs.  So are its variables, in a program with fewer than
\* TempRegs of them.
LandRestores ==
  [][Land => /\ sp' = Top.sp /\ fp' = Top.fp /\ ra' = Top.ra
             /\ \A x \in Vars \ {ResultOf[ra]} : data'[x] = Top.env[x]]_vars

\* With fewer than TempRegs variables, the compiled program does what the IR
\* means: every step of the machine is a step of IrFrames.  The caller's
\* frame counts as suspended from the jal on, and v0 as the result while a
\* RETURN is on its way.
Ir == INSTANCE IrFrames WITH
  env <- data,
  mem <- [a \in live |-> stack[a]],
  frames <- [k \in 1 .. IF ctl = "incall" THEN Depth - 1 ELSE Depth |->
               [env |-> frames[k].env, live |-> frames[k].live,
                site |-> frames[k].site]],
  result <- IF ctl \in {"returned", "halted"} THEN v0 ELSE 0

ImplementsIr == Ir!Spec
=============================================================================
