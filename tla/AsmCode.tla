------------------------------- MODULE AsmCode -------------------------------
(***************************************************************************)
(* What the instructions that src/src/asm.c emits for each IR code do when *)
(* they run.  An action runs the whole sequence of one code, as AsmRewrite *)
(* gives it.                                                               *)
(*                                                                         *)
(* Code is entered from anywhere, so nothing is known of the temporaries   *)
(* when a sequence starts: they hold Junk, a value that nothing computes,  *)
(* and the rotation may stand anywhere.                                    *)
(*                                                                         *)
(* The state, the guards and the history are those of Calls; the property  *)
(* is that the machine below does what Calls says.                         *)
(***************************************************************************)
EXTENDS Calls, AsmRewrite

CONSTANTS
  Rotations,  \* the positions of get_reg's rotation that are explored
  Junk        \* what a register holds that a sequence must not rely on

ASSUME RotationsAssumption == Rotations \subseteq Nat
ASSUME JunkAssumption      == Junk \in Int

-----------------------------------------------------------------------------
(* The machine. *)

\* The return address of the jal to a library routine.
Here == -1

Load(m, a) == IF a \in Addr THEN m.stack[a] ELSE m.data[a - StackSize]

Store(m, a, w) ==
  IF a \in Addr THEN [m EXCEPT !.stack[a] = w]
                ELSE [m EXCEPT !.data[a - StackSize] = w]

Exec(m, ins) ==
  CASE ins.i = "li"   -> [m EXCEPT !.reg[ins.rd] = ins.imm]
    [] ins.i = "la"   -> [m EXCEPT !.reg[ins.rd] = Label(ins.var)]
    [] ins.i = "move" -> [m EXCEPT !.reg[ins.rd] = m.reg[ins.rs]]
    [] ins.i = "addi" -> [m EXCEPT !.reg[ins.rd] = m.reg[ins.rs] + ins.imm]
    [] ins.i = "lw"   -> [m EXCEPT !.reg[ins.rd] = Load(m, m.reg[ins.rs])]
    [] ins.i = "sw"   -> Store(m, m.reg[ins.rs], m.reg[ins.rd])
    [] OTHER          -> [m EXCEPT !.reg[ins.rd] =
                            Arith(ins.i, m.reg[ins.rs], m.reg[ins.rt])]

\* The machine as a sequence of instructions finds it.
Machine ==
  [data  |-> data,
   stack |-> stack,
   reg   |-> [r \in 0 .. 31 |-> CASE r = SP -> sp
                                  [] r = FP -> fp
                                  [] r = RA -> ra
                                  [] r = V0 -> v0
                                  [] OTHER  -> Junk]]

\* What becomes of machine m when it executes code.
RunFrom(m, code) ==
  LET after[k \in 0 .. Len(code)] ==
        IF k = 0 THEN m ELSE Exec(after[k - 1], code[k])
  IN after[Len(code)]

Run(code) == RunFrom(Machine, code)

BecomeMachine(m) ==
  /\ data' = m.data
  /\ stack' = m.stack
  /\ sp' = m.reg[SP] /\ fp' = m.reg[FP] /\ ra' = m.reg[RA] /\ v0' = m.reg[V0]

-----------------------------------------------------------------------------
(* The library routines. *)

\* A jal to read or write, and the routine that printHeader prints.
CallRoutine(v0AtReturn) ==
  Li(RA, Here) \o Li(A0, Junk) \o Li(V0, v0AtReturn)

-----------------------------------------------------------------------------
(* The program runs. *)

AsmAssign(left, right, c) ==
  /\ ctl = "code"
  /\ Readable(left) /\ Readable(right)
  /\ BecomeMachine(Run(RewriteAssign(left, right, c)))
  /\ UNCHANGED <<ctl, frames, live, args>>

AsmBinOp(kind, x, op1, op2, c) ==
  /\ ctl = "code"
  /\ Readable(op1) /\ Readable(op2)
  /\ kind = "Div" => Eval(op2) # 0
  /\ Arith(kind, Eval(op1), Eval(op2)) \in Words
  /\ BecomeMachine(Run(RewriteArith(kind, x, op1, op2, c)))
  /\ UNCHANGED <<ctl, frames, live, args>>

AsmRead(x, i, c) ==
  /\ ctl = "code"
  /\ sp >= 1
  /\ BecomeMachine(Run(RewriteRead(x, CallRoutine(i), c)))
  /\ UNCHANGED <<ctl, frames, live, args>>

AsmWrite(op, c) ==
  /\ ctl = "code"
  /\ sp >= 1
  /\ Readable(op)
  /\ BecomeMachine(Run(RewriteWrite(op, CallRoutine(0), c)))
  /\ UNCHANGED <<ctl, frames, live, args>>

AsmDec(x, size, c) ==
  /\ ctl = "code"
  /\ sp >= size
  /\ BecomeMachine(Run(RewriteDec(x, size, c)))
  /\ live' = live \cup (sp' .. sp - 1)
  /\ UNCHANGED <<ctl, frames, args>>

AsmArg(op, c) ==
  /\ ctl \in {"code", "incall"}
  /\ CallSp >= 1
  /\ Readable(op)
  /\ BecomeMachine(Run(RewriteArg(NumVars, ctl = "incall", op, c)))
  /\ ctl' = "incall"
  /\ frames' = CallFrames
  /\ args' = Append(args, stack'[sp'])
  /\ UNCHANGED live

AsmCall(site, c) ==
  /\ ctl \in {"code", "incall"}
  /\ CallSp >= 0
  /\ BecomeMachine(Run(PrepareCall(NumVars, ctl = "incall", c) \o Li(RA, site)))
  /\ ctl' = IF args = << >> THEN "code" ELSE "entry"
  /\ frames' = [CallFrames EXCEPT ![Len(CallFrames)].site = site]
  /\ UNCHANGED <<live, args>>

AsmParam(x, c) ==
  /\ ctl = "entry"
  /\ BecomeMachine(Run(RewriteParam(x, c)))
  /\ args' = SubSeq(args, 1, Len(args) - 1)
  /\ ctl' = IF Len(args) = 1 THEN "code" ELSE "entry"
  /\ UNCHANGED <<frames, live>>

\* Up to the jr.
AsmReturn(op, c) ==
  /\ ctl = "code"
  /\ Readable(op)
  /\ BecomeMachine(Run(Front(RewriteReturn(op, c))))
  /\ ctl' = IF ra' = Halt THEN "halted"
            ELSE IF ra' \in Sites THEN "returned" ELSE "lost"
  /\ UNCHANGED <<frames, live, args>>

AsmLand(c) ==
  /\ ctl = "returned"
  /\ BecomeMachine(Run(RewriteCallTail(NumVars, ResultOf[ra], c)))
  /\ ctl' = "code"
  /\ frames' = SubSeq(frames, 1, Len(frames) - 1)
  /\ live' = Top.live
  /\ UNCHANGED args

AsmExecute(code, c) ==
  \/ code.op = "Assign" /\ AsmAssign(code.left, code.right, c)
  \/ code.op \in ArithKinds
       /\ AsmBinOp(code.op, code.target, code.op1, code.op2, c)
  \/ code.op = "Return" /\ AsmReturn(code.ret, c)
  \/ code.op = "Dec" /\ AsmDec(code.var, code.size, c)
  \/ code.op = "Arg" /\ AsmArg(code.arg, c)
  \/ code.op = "Call" /\ AsmCall(code.site, c)
  \/ code.op = "Param" /\ AsmParam(code.param, c)
  \/ code.op = "Read" /\ \E i \in Inputs : AsmRead(code.read, i, c)
  \/ code.op = "Write" /\ AsmWrite(code.write, c)

AsmNext ==
  \/ Done
  \/ \E c \in Rotations : AsmLand(c) \/ \E code \in Program : AsmExecute(code, c)

AsmSpec == Init /\ [][AsmNext]_vars

-----------------------------------------------------------------------------
(* Properties. *)

\* The emitted instructions do what Calls says each code does.  In
\* particular no register is handed out again while its value is needed.
ImplementsCalls == Spec

\* After a call the caller's variables are what they were when they were
\* stored ("# store_vars", "# load_vars": asm.c, 288 and 300), except for
\* the one that receives the result.
CallPreservesVariables ==
  [][\A x \in Vars :
       ctl = "returned" /\ ctl' = "code" /\ x # ResultOf[ra]
         => data'[x] = Top.env[x]]_vars

\* What a call costs its caller, however many variables there are: sp, fp, ra and
\* the variables are what they were before ("# store_vars", "# load_vars": asm.c,
\* 288 and 300), but for the one that receives the result, and those whose
\* address gen_load_vars has put over the value before it stores it.
CallCosts ==
  [][ctl = "returned" /\ ctl' = "code" =>
       /\ sp' = Top.sp /\ fp' = Top.fp /\ ra' = Top.ra
       /\ \A x \in Vars \ {ResultOf[ra]} :
            data'[x] = IF AddressTakesRegister(x) THEN Label(x) ELSE Top.env[x]]_vars

\* The operands whose value a code uses.
OperandsOf(code) ==
  CASE code.op = "Assign"     -> {code.right}
    [] code.op \in ArithKinds -> {code.op1, code.op2}
    [] code.op = "Return"     -> {code.ret}
    [] code.op = "Arg"        -> {code.arg}
    [] code.op = "Write"      -> {code.write}
    [] OTHER                  -> {}

\* Nothing that a program computes with, and no address, is Junk, so that Junk
\* in a variable shows that a register was used that the code has not set.
JunkIsFresh ==
  /\ Junk \notin Words \cup Inputs \cup Sites \cup {Halt}
  /\ Junk \notin 0 .. StackSize + NumVars
  /\ \A code \in Program : \A op \in OperandsOf(code) :
       op.kind = "Constant" => op.value # Junk

\* No value of a register that a sequence did not set itself reaches a
\* variable, the stack or a register that outlives the sequence.
NoJunk ==
  /\ \A x \in Vars : data[x] # Junk
  /\ \A a \in Addr : stack[a] # Junk
  /\ Junk \notin {sp, fp, ra, v0}
=============================================================================
