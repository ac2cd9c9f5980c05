----------------------------- MODULE CallsProofs -----------------------------
(***************************************************************************)
(* The calling convention of Calls is correct for every program, whatever  *)
(* the number of its variables, the size of the stack and the depth of the *)
(* calls; with fewer than 16 variables it implements IrFrames.             *)
(***************************************************************************)
EXTENDS Calls, TLAPS, SequenceTheorems

Assumptions ==
  /\ NumVars \in Nat /\ Sites \subseteq Int /\ ResultOf \in [Sites -> Vars]
  /\ Program \subseteq Codes /\ Inputs \subseteq Int /\ Words \subseteq Int
  /\ Halt \in Int /\ Halt \notin Sites /\ StackSize \in Nat

\* The assumptions on the constants, by one name.
LEMMA Constants == Assumptions
BY NumVarsAssumption, SitesAssumption, ResultAssumption, ProgramAssumption,
   InputsAssumption, WordsAssumption, HaltAssumption, StackAssumption
DEF Assumptions

\* The inductive invariant.
IInv ==
  /\ TypeOK
  /\ FramesIntact
  /\ BlocksDisjoint
  /\ StackLayout

-----------------------------------------------------------------------------
(* Operands. *)

\* A readable operand has a value, whatever the stack is that it is read in.
LEMMA ValueIsWord ==
  ASSUME TypeOK, NEW op \in Operands, Readable(op),
         NEW mem \in [Addr -> Int]
  PROVE  Value(op, data, mem) \in Int
<1>1. CASE op \in VarOperands
  BY <1>1 DEF Value, VarOperands, TypeOK
<1>2. CASE op \in DerefOperands
  <2>1. op.kind = "Deref" /\ op.var \in Vars /\ data[op.var] \in Addr
    BY <1>2 DEF DerefOperands, TypeOK, Readable, InBounds
  <2>2. Value(op, data, mem) = mem[data[op.var]]
    BY <2>1 DEF Value
  <2> QED BY <2>1, <2>2
<1>3. CASE op \in RefOperands
  BY <1>3 DEF Value, RefOperands, TypeOK
<1>4. CASE op \in ConstOperands
  BY <1>4 DEF Value, ConstOperands
<1> QED BY <1>1, <1>2, <1>3, <1>4 DEF Operands

\* The same, read in the stack of the machine.
LEMMA EvalIsWord ==
  ASSUME TypeOK, NEW op \in Operands, Readable(op)
  PROVE  Eval(op) \in Int
BY ValueIsWord DEF Eval, TypeOK

\* What the fields of a code are, for each kind of code.
LEMMA CodeFields ==
  ASSUME NEW c \in Program
  PROVE  /\ c.op = "Assign" => c.left \in Targets /\ c.right \in Operands
         /\ c.op \in ArithKinds =>
              c.target \in Vars /\ c.op1 \in Operands /\ c.op2 \in Operands
         /\ c.op = "Return" => c.ret \in Operands
         /\ c.op = "Dec" => c.var \in Vars /\ c.size \in Nat
         /\ c.op = "Arg" => c.arg \in Operands
         /\ c.op = "Call" => c.site \in Sites
         /\ c.op = "Param" => c.param \in Vars
         /\ c.op = "Read" => c.read \in Vars
         /\ c.op = "Write" => c.write \in Operands
<1>1. c \in Codes
  BY Constants DEF Assumptions
<1> QED BY <1>1 DEF Codes, ArithKinds

-----------------------------------------------------------------------------
(* Codes that leave the frames alone. *)

\* Where a frame lies, and that its save area is part of the stack.
LEMMA FrameBounds ==
  ASSUME IInv, NEW k \in 1 .. Depth
  PROVE  /\ Depth \in Nat /\ frames[k] \in Frame
         /\ Base(k) \in Nat /\ frames[k].sp \in 0 .. StackSize
         /\ Base(k) = frames[k].sp - NumVars - 2
         /\ Base(k) >= sp + Len(args) /\ Len(args) \in Nat /\ sp \in Nat
<1>1. /\ Depth \in Nat /\ frames[k] \in Frame
      /\ Len(args) \in Nat /\ sp \in 0 .. StackSize
  BY DEF IInv, TypeOK, Depth
<1>2. frames[k].sp \in 0 .. StackSize
  BY <1>1 DEF Frame
<1>3. Base(k) >= sp + Len(args)
  BY DEF IInv, StackLayout
<1> QED
  BY SMTT(30), <1>1, <1>2, <1>3, Constants DEF Base, SaveSize, Assumptions

\* A write to a live block or below sp misses every save area.
LEMMA StackWrite ==
  ASSUME IInv, NEW a \in Addr, a \in live \/ a < sp, NEW w \in Int,
         stack' = [stack EXCEPT ![a] = w], frames' = frames
  PROVE  FramesIntact'
<1> SUFFICES ASSUME NEW k \in 1 .. Depth
             PROVE  /\ \A x \in Vars : stack'[frames[k].sp - x] = frames[k].env[x]
                    /\ stack'[Base(k) + 1] = frames[k].ra
                    /\ stack'[Base(k)] = frames[k].fp
  BY DEF FramesIntact, Depth, Base
<1>1. a \notin SaveArea(k)
  <2>1. CASE a \in live
    BY <2>1 DEF IInv, BlocksDisjoint
  <2>2. CASE a < sp
    BY <2>2, FrameBounds, Constants DEF SaveArea, Assumptions, Addr
  <2> QED BY <2>1, <2>2
<1> DEFINE s == frames[k].sp
<1>0. /\ s \in 0 .. StackSize /\ Base(k) \in Nat /\ Base(k) = s - NumVars - 2
      /\ NumVars \in Nat /\ StackSize \in Nat
  BY FrameBounds, Constants DEF Assumptions
<1>2. /\ \A x \in Vars : s - x \in SaveArea(k)
      /\ Base(k) \in SaveArea(k) /\ Base(k) + 1 \in SaveArea(k)
  <2> HIDE DEF s
  <2>1. SaveArea(k) = s - NumVars - 2 .. s - 1
    BY <1>0 DEF SaveArea, s
  <2> QED BY <1>0, <2>1 DEF Vars
<1>3. \A b \in SaveArea(k) : stack'[b] = stack[b]
  <2>1. SaveArea(k) \subseteq Addr
    BY <1>0 DEF SaveArea, Addr
  <2> QED BY <1>1, <2>1 DEF IInv, TypeOK
<1> QED BY <1>2, <1>3 DEF IInv, FramesIntact

\* The rest of the invariant does not look at the stack, and at the
\* variables only during a call.
LEMMA SameLayout ==
  ASSUME IInv, ctl = "code", UNCHANGED <<sp, fp, ra, ctl, frames, live, args>>
  PROVE  BlocksDisjoint' /\ StackLayout'
BY DEF IInv, BlocksDisjoint, StackLayout, Depth, Base, SaveArea, Top

\* An assignment writes a variable or a word of a live block.
LEMMA AssignStep ==
  ASSUME IInv, NEW left \in Targets, NEW right \in Operands, Assign(left, right)
  PROVE  IInv'
<1>1. Eval(right) \in Int
  BY EvalIsWord DEF IInv, Assign
<1>2. BlocksDisjoint' /\ StackLayout'
  BY SameLayout DEF Assign
<1>3. CASE left.kind = "Deref"
  <2>1. data[left.var] \in live /\ data[left.var] \in Addr
    BY <1>3 DEF Assign, Readable, InBounds, IInv, TypeOK
  <2>2. stack' = [stack EXCEPT ![data[left.var]] = Eval(right)]
        /\ frames' = frames
    BY <1>3 DEF Assign
  <2>3. FramesIntact'
    BY <1>1, <2>1, <2>2, StackWrite
  <2>4. TypeOK'
    BY <1>1, <1>3, <2>2 DEF Assign, IInv, TypeOK
  <2> QED BY <1>2, <2>3, <2>4 DEF IInv
<1>4. CASE left.kind # "Deref"
  <2>1. TypeOK'
    BY <1>1, <1>4 DEF Assign, IInv, TypeOK
  <2>2. FramesIntact'
    BY <1>4 DEF Assign, IInv, FramesIntact, Depth, Base
  <2> QED BY <1>2, <2>1, <2>2 DEF IInv
<1> QED BY <1>3, <1>4

\* Arithmetic changes one variable.
LEMMA BinOpStep ==
  ASSUME IInv, NEW kind, NEW x \in Vars, NEW op1, NEW op2,
         BinOp(kind, x, op1, op2)
  PROVE  IInv'
<1>1. BlocksDisjoint' /\ StackLayout'
  BY SameLayout DEF BinOp
<1>2. TypeOK'
  BY Constants DEF BinOp, IInv, TypeOK, Assumptions
<1>3. FramesIntact'
  BY DEF BinOp, IInv, FramesIntact, Depth, Base
<1> QED BY <1>1, <1>2, <1>3 DEF IInv

\* READ writes one word below sp and one variable.
LEMMA ReadStep ==
  ASSUME IInv, NEW x \in Vars, NEW i \in Inputs, Read(x, i)
  PROVE  IInv'
<1>1. BlocksDisjoint' /\ StackLayout'
  BY SameLayout DEF Read
<1>2. TypeOK'
  BY Constants DEF Read, IInv, TypeOK, Assumptions
<1>3. sp - 1 \in Addr /\ sp - 1 < sp /\ ra \in Int
  BY Constants DEF Read, IInv, TypeOK, Addr, Assumptions
<1>4. FramesIntact'
  BY <1>3, StackWrite DEF Read
<1> QED BY <1>1, <1>2, <1>4 DEF IInv

\* WRITE writes one word below sp.
LEMMA WriteStep ==
  ASSUME IInv, NEW op \in Operands, Write(op)
  PROVE  IInv'
<1>1. BlocksDisjoint' /\ StackLayout'
  BY SameLayout DEF Write
<1>2. TypeOK'
  <2>1. stack' = [stack EXCEPT ![sp - 1] = ra] /\ v0' = 0
        /\ UNCHANGED <<data, sp, fp, ra, ctl, frames, live, args>>
    BY DEF Write
  <2>2. stack' \in [Addr -> Int]
    BY <2>1 DEF IInv, TypeOK
  <2> QED BY <2>1, <2>2 DEF IInv, TypeOK
<1>3. sp - 1 \in Addr /\ sp - 1 < sp /\ ra \in Int
  BY Constants DEF Write, IInv, TypeOK, Addr, Assumptions
<1>4. FramesIntact'
  <2>1. stack' = [stack EXCEPT ![sp - 1] = ra] /\ frames' = frames
    BY DEF Write
  <2> QED BY <1>3, <2>1, StackWrite
<1> QED BY <1>1, <1>2, <1>4 DEF IInv

\* DEC lowers sp; the new block lies below everything that is saved.
LEMMA DecStep ==
  ASSUME IInv, NEW x \in Vars, NEW size \in Nat, Dec(x, size)
  PROVE  IInv'
<1>1. sp' = sp - size /\ sp' \in 0 .. sp /\ sp \in 0 .. StackSize
  BY Constants DEF Dec, IInv, TypeOK, Assumptions
<1>2. TypeOK'
  BY <1>1, Constants DEF Dec, IInv, TypeOK, Addr, Assumptions
<1>3. FramesIntact'
  BY DEF Dec, IInv, FramesIntact, Depth, Base
<1>4. args = << >> /\ args' = args /\ Len(args) = 0
  BY DEF Dec, IInv, StackLayout
<1>5. BlocksDisjoint'
  <2> SUFFICES ASSUME NEW a \in live'
               PROVE  /\ a >= sp'
                      /\ \A k \in 1 .. Depth : a \notin SaveArea(k)
    BY <1>1, <1>4 DEF BlocksDisjoint, Depth, SaveArea, Base, Dec
  <2>1. CASE a \in live
    BY <2>1, <1>1, <1>4 DEF IInv, BlocksDisjoint, TypeOK, Addr
  <2>2. CASE a \in sp' .. sp - 1
    BY <2>2, <1>1, FrameBounds DEF SaveArea
  <2> QED BY <2>1, <2>2, <1>1 DEF Dec
<1>6. StackLayout'
  <2>1. Depth' = Depth /\ frames' = frames /\ ctl' = ctl /\ fp' = fp
        /\ ra' = ra /\ live \subseteq live' /\ ctl = "code"
    BY DEF Dec, Depth
  <2>2. \A k \in 1 .. Depth : Base(k) >= sp' + Len(args)
    BY <1>1, <1>4, FrameBounds
  <2> QED BY <1>4, <2>1, <2>2 DEF IInv, StackLayout, Base, Top, Depth
<1> QED BY <1>2, <1>3, <1>5, <1>6 DEF IInv

-----------------------------------------------------------------------------
(* The call sequence. *)

\* During a call sequence the caller's save area is on top of the stack, and
\* what comes next of the sequence is written below it.
LEMMA Preparing ==
  ASSUME IInv, ctl \in {"code", "incall"}, CallSp \in Nat
  PROVE  /\ CallStack \in [Addr -> Int]
         /\ CallFrames \in Seq(Frame) /\ Len(CallFrames) \in Nat \ {0}
         /\ CallSp \in 0 .. StackSize /\ CallFp \in Int
         /\ \A a \in live : CallStack[a] = stack[a] /\ a >= CallSp + Len(args)
         /\ LET d == Len(CallFrames)
                s(k) == CallFrames[k].sp IN
            /\ CallFp = s(d) - SaveSize
            /\ CallSp + Len(args) = s(d) - SaveSize
            /\ CallFrames[d].env = data /\ CallFrames[d].live = live
            /\ CallFrames[d].ra = ra
            /\ \A k \in 1 .. d :
                 /\ \A x \in Vars : CallStack[s(k) - x] = CallFrames[k].env[x]
                 /\ CallStack[s(k) - SaveSize + 1] = CallFrames[k].ra
                 /\ CallStack[s(k) - SaveSize] = CallFrames[k].fp
                 /\ s(k) - SaveSize >= CallSp + Len(args)
                 /\ \A j \in 1 .. d : j < k => /\ s(j) - SaveSize >= s(k)
                                                /\ CallFrames[j].live \subseteq CallFrames[k].live
                 /\ k > 1 => /\ CallFrames[k].fp = s(k - 1) - SaveSize
                             /\ CallFrames[k].ra = CallFrames[k - 1].site
                 /\ k = 1 => CallFrames[k].ra = Halt
                 /\ k < d => CallFrames[k].site \in Sites
                 /\ CallFrames[k].live \subseteq live
                 /\ \A a \in CallFrames[k].live : a >= s(k)
                 /\ \A a \in live : a \notin s(k) - SaveSize .. s(k) - 1
<1> DEFINE d == Len(CallFrames)
           s(k) == CallFrames[k].sp
           F(k) == /\ \A x \in Vars : CallStack[s(k) - x] = CallFrames[k].env[x]
                   /\ CallStack[s(k) - SaveSize + 1] = CallFrames[k].ra
                   /\ CallStack[s(k) - SaveSize] = CallFrames[k].fp
                   /\ s(k) - SaveSize >= CallSp + Len(args)
                   /\ \A j \in 1 .. d : j < k => /\ s(j) - SaveSize >= s(k)
                                                  /\ CallFrames[j].live \subseteq CallFrames[k].live
                   /\ k > 1 => /\ CallFrames[k].fp = s(k - 1) - SaveSize
                               /\ CallFrames[k].ra = CallFrames[k - 1].site
                   /\ k = 1 => CallFrames[k].ra = Halt
                   /\ k < d => CallFrames[k].site \in Sites
                   /\ CallFrames[k].live \subseteq live
                   /\ \A a \in CallFrames[k].live : a >= s(k)
                   /\ \A a \in live : a \notin s(k) - SaveSize .. s(k) - 1
<1>1. CASE ctl = "incall"
  <2>1. /\ CallStack = stack /\ CallSp = sp /\ CallFp = fp
        /\ CallFrames = frames
    BY <1>1 DEF CallStack, CallSp, CallFp, CallFrames
  <2>2. Depth > 0 /\ Depth \in Nat /\ Depth = Len(frames)
    BY <1>1 DEF IInv, StackLayout, TypeOK, Depth
  <2>3. /\ CallStack \in [Addr -> Int]
        /\ CallFrames \in Seq(Frame) /\ Len(CallFrames) \in Nat \ {0}
        /\ CallSp \in 0 .. StackSize /\ CallFp \in Int
    BY <2>1, <2>2 DEF IInv, TypeOK
  <2>4. \A a \in live : CallStack[a] = stack[a] /\ a >= CallSp + Len(args)
    BY <2>1 DEF IInv, BlocksDisjoint
  <2>5. /\ CallFp = s(d) - SaveSize /\ CallSp + Len(args) = s(d) - SaveSize
        /\ CallFrames[d].env = data /\ CallFrames[d].live = live
        /\ CallFrames[d].ra = ra
    BY <1>1, <2>1, <2>2 DEF IInv, StackLayout, Base, Top
  <2>6. ASSUME NEW k \in 1 .. d PROVE F(k)
    <3>1. /\ \A x \in Vars : CallStack[s(k) - x] = CallFrames[k].env[x]
          /\ CallStack[s(k) - SaveSize + 1] = CallFrames[k].ra
          /\ CallStack[s(k) - SaveSize] = CallFrames[k].fp
      BY <2>1, <2>2 DEF IInv, FramesIntact, Base
    <3>2. /\ s(k) - SaveSize >= CallSp + Len(args)
          /\ \A j \in 1 .. d : j < k => /\ s(j) - SaveSize >= s(k)
                                         /\ CallFrames[j].live \subseteq CallFrames[k].live
          /\ k > 1 => /\ CallFrames[k].fp = s(k - 1) - SaveSize
                      /\ CallFrames[k].ra = CallFrames[k - 1].site
          /\ k = 1 => CallFrames[k].ra = Halt
          /\ k < d => CallFrames[k].site \in Sites
          /\ CallFrames[k].live \subseteq live
          /\ \A a \in CallFrames[k].live : a >= s(k)
      BY <2>1, <2>2 DEF IInv, StackLayout, Base
    <3>3. \A a \in live : a \notin s(k) - SaveSize .. s(k) - 1
      BY <2>1, <2>2 DEF IInv, BlocksDisjoint, SaveArea, Base
    <3> QED BY <3>1, <3>2, <3>3
  <2> QED BY <2>3, <2>4, <2>5, <2>6
<1>2. CASE ctl = "code"
  <2>1. /\ CallStack = Prepared /\ CallSp = sp - SaveSize /\ CallFp = CallSp
        /\ CallFrames = Append(frames, Suspended)
        /\ args = << >> /\ Len(args) = 0 /\ SaveSize = NumVars + 2
        /\ NumVars \in Nat /\ StackSize \in Nat /\ sp \in 0 .. StackSize
    BY <1>2, Constants DEF CallStack, CallSp, CallFp, CallFrames, IInv,
       StackLayout, SaveSize, Assumptions, TypeOK
  <2>2. Suspended \in Frame
    BY DEF Suspended, Frame, IInv, TypeOK
  <2>3. /\ CallFrames \in Seq(Frame) /\ Len(CallFrames) = Depth + 1
        /\ Depth \in Nat
        /\ \A k \in 1 .. Depth : CallFrames[k] = frames[k]
        /\ CallFrames[Depth + 1] = Suspended
    BY <2>1, <2>2, AppendProperties DEF IInv, TypeOK, Depth
  <2>4. CallStack \in [Addr -> Int]
    BY <2>1 DEF Prepared, IInv, TypeOK, Addr, Vars
  <2>5. \A a \in Addr : a >= sp => CallStack[a] = stack[a]
    BY <2>1 DEF Prepared, Addr
  <2>6. \A a \in live : a >= sp /\ a \in Addr
    BY <2>1 DEF IInv, BlocksDisjoint, TypeOK, Addr
  <2>7. /\ \A x \in Vars : CallStack[sp - x] = data[x]
        /\ CallStack[sp - SaveSize + 1] = ra
        /\ CallStack[sp - SaveSize] = fp
    <3>1. ASSUME NEW x \in Vars PROVE CallStack[sp - x] = data[x]
      <4>1. /\ sp - x \in Addr /\ sp - x \in sp - NumVars .. sp - 1
            /\ sp - (sp - x) = x
        BY <2>1 DEF Addr, Vars
      <4> QED BY <2>1, <4>1 DEF Prepared
    <3>2. CallStack[sp - SaveSize + 1] = ra
      <4>1. /\ sp - SaveSize + 1 \in Addr
            /\ sp - SaveSize + 1 = sp - NumVars - 1
            /\ sp - SaveSize + 1 \notin sp - NumVars .. sp - 1
        BY <2>1 DEF Addr
      <4> QED BY <2>1, <4>1 DEF Prepared
    <3>3. CallStack[sp - SaveSize] = fp
      <4>1. /\ sp - SaveSize \in Addr
            /\ sp - SaveSize # sp - NumVars - 1
            /\ sp - SaveSize \notin sp - NumVars .. sp - 1
        BY <2>1 DEF Addr
      <4> QED BY <2>1, <4>1 DEF Prepared
    <3> QED BY <3>1, <3>2, <3>3
  <2>8. \A k \in 1 .. Depth :
          /\ frames[k].sp \in 0 .. StackSize
          /\ frames[k].sp - SaveSize >= sp
          /\ \A x \in Vars : CallStack[frames[k].sp - x] = frames[k].env[x]
          /\ CallStack[frames[k].sp - SaveSize + 1] = frames[k].ra
          /\ CallStack[frames[k].sp - SaveSize] = frames[k].fp
    <3> SUFFICES ASSUME NEW k \in 1 .. Depth
                 PROVE  /\ frames[k].sp \in 0 .. StackSize
                        /\ frames[k].sp - SaveSize >= sp
                        /\ \A x \in Vars :
                             CallStack[frames[k].sp - x] = frames[k].env[x]
                        /\ CallStack[frames[k].sp - SaveSize + 1] = frames[k].ra
                        /\ CallStack[frames[k].sp - SaveSize] = frames[k].fp
      OBVIOUS
    <3> DEFINE top == frames[k].sp
    <3>1. top \in 0 .. StackSize /\ top - SaveSize >= sp
      BY <2>1, FrameBounds DEF Base
    <3> HIDE DEF top
    <3>2. /\ \A x \in Vars : top - x \in Addr /\ top - x >= sp
          /\ top - SaveSize \in Addr /\ top - SaveSize >= sp
          /\ top - SaveSize + 1 \in Addr /\ top - SaveSize + 1 >= sp
      BY <2>1, <3>1 DEF Addr, Vars
    <3>3. /\ \A x \in Vars : CallStack[top - x] = stack[top - x]
          /\ CallStack[top - SaveSize + 1] = stack[top - SaveSize + 1]
          /\ CallStack[top - SaveSize] = stack[top - SaveSize]
      BY <2>5, <3>2
    <3>4. /\ \A x \in Vars : stack[top - x] = frames[k].env[x]
          /\ stack[top - SaveSize + 1] = frames[k].ra
          /\ stack[top - SaveSize] = frames[k].fp
      BY DEF IInv, FramesIntact, Base, top
    <3> QED BY <3>1, <3>3, <3>4 DEF top
  <2>9. \A k \in 1 .. Depth :
          /\ \A j \in 1 .. Depth :
               j < k => /\ frames[j].sp - SaveSize >= frames[k].sp
                        /\ frames[j].live \subseteq frames[k].live
          /\ k > 1 => /\ frames[k].fp = frames[k - 1].sp - SaveSize
                      /\ frames[k].ra = frames[k - 1].site
          /\ k = 1 => frames[k].ra = Halt
          /\ frames[k].site \in Sites
          /\ frames[k].live \subseteq live
          /\ \A a \in frames[k].live : a >= frames[k].sp
          /\ \A a \in live : a \notin frames[k].sp - SaveSize .. frames[k].sp - 1
    BY <1>2, <2>3 DEF IInv, StackLayout, BlocksDisjoint, Base, SaveArea
  <2>10. /\ Suspended.env = data /\ Suspended.live = live /\ Suspended.ra = ra
         /\ Suspended.fp = fp /\ Suspended.sp = sp
    BY DEF Suspended
  <2>11. /\ Depth > 0 => fp = frames[Depth].sp - SaveSize /\ ra = frames[Depth].site
         /\ Depth = 0 => ra = Halt
    BY <1>2, <2>3 DEF IInv, StackLayout, Base, Top, Depth
  <2>12. ASSUME NEW k \in 1 .. Depth PROVE F(k)
    <3>1. CallFrames[k] = frames[k] /\ k \in 1 .. d /\ k < d /\ d = Depth + 1
      BY <2>3
    <3>2. \A j \in 1 .. d : j < k => j \in 1 .. Depth
      BY <2>3
    <3>3. k > 1 => k - 1 \in 1 .. Depth
      BY <2>3
    <3>4. \A j \in 1 .. d : j < k => /\ s(j) - SaveSize >= s(k)
                                    /\ CallFrames[j].live \subseteq CallFrames[k].live
      <4>1. \A j \in 1 .. d : j < k => CallFrames[j] = frames[j]
        BY <2>3, <3>2
      <4> QED BY <2>9, <3>1, <3>2, <4>1
    <3>5. k > 1 => /\ CallFrames[k].fp = s(k - 1) - SaveSize
                   /\ CallFrames[k].ra = CallFrames[k - 1].site
      BY <2>3, <2>9, <3>1, <3>3
    <3> HIDE DEF s
    <3>6. s(k) = frames[k].sp
      BY <3>1 DEF s
    <3>7. /\ \A x \in Vars : CallStack[s(k) - x] = CallFrames[k].env[x]
          /\ CallStack[s(k) - SaveSize + 1] = CallFrames[k].ra
          /\ CallStack[s(k) - SaveSize] = CallFrames[k].fp
      BY <2>8, <3>1, <3>6
    <3>8. s(k) - SaveSize >= CallSp + Len(args)
      BY <2>1, <2>8, <3>6
    <3>9. /\ k = 1 => CallFrames[k].ra = Halt
          /\ k < d => CallFrames[k].site \in Sites
          /\ CallFrames[k].live \subseteq live
          /\ \A a \in CallFrames[k].live : a >= s(k)
          /\ \A a \in live : a \notin s(k) - SaveSize .. s(k) - 1
      BY <2>9, <3>1, <3>6
    <3> QED BY <3>4, <3>5, <3>7, <3>8, <3>9
  <2>13. F(Depth + 1)
    <3>1. CallFrames[Depth + 1] = Suspended /\ d = Depth + 1
      BY <2>3
    <3>2. \A j \in 1 .. d : j < Depth + 1 => j \in 1 .. Depth
      BY <2>3
    <3>3. \A j \in 1 .. d : j < Depth + 1 => s(j) - SaveSize >= sp
      BY <2>3, <2>8, <3>2
    <3>4. Depth > 0 => /\ fp = s(Depth) - SaveSize
                       /\ ra = CallFrames[Depth].site
      BY <2>3, <2>11
    <3>5. \A j \in 1 .. d : j < Depth + 1 => CallFrames[j].live \subseteq live
      BY <2>3, <2>9, <3>2
    <3> HIDE DEF s
    <3>6. s(Depth + 1) = sp
      BY <2>10, <3>1 DEF s
    <3> QED
      BY <2>1, <2>3, <2>6, <2>7, <2>10, <2>11, <3>1, <3>3, <3>4, <3>5, <3>6
  <2>14. \A k \in 1 .. d : F(k)
    <3>1. \A k \in 1 .. d : k \in 1 .. Depth \/ k = Depth + 1
      BY <2>3
    <3> QED BY <2>12, <2>13, <3>1
  <2>15. /\ d \in Nat \ {0} /\ CallSp \in 0 .. StackSize /\ CallFp \in Int
         /\ CallFp = s(d) - SaveSize /\ CallSp + Len(args) = s(d) - SaveSize
         /\ CallFrames[d].env = data /\ CallFrames[d].live = live
         /\ CallFrames[d].ra = ra
    BY <2>1, <2>3, <2>10
  <2>16. \A a \in live : CallStack[a] = stack[a] /\ a >= CallSp + Len(args)
    BY <2>1, <2>5, <2>6 DEF Addr
  <2> HIDE DEF F
  <2> QED BY <2>3, <2>4, <2>14, <2>15, <2>16 DEF F
<1> QED BY <1>1, <1>2

\* ARG saves the caller when it is the first, and writes one word below.
LEMMA ArgStep ==
  ASSUME IInv, NEW op \in Operands, Arg(op)
  PROVE  IInv'
<1> DEFINE v == Value(op, data, CallStack)
           d == Len(CallFrames)
           s(k) == CallFrames[k].sp
<1>1. /\ ctl \in {"code", "incall"} /\ CallSp >= 1 /\ CallSp \in Nat
      /\ Readable(op) /\ stack' = [CallStack EXCEPT ![CallSp - 1] = v]
      /\ sp' = CallSp - 1 /\ fp' = CallFp /\ ctl' = "incall"
      /\ frames' = CallFrames /\ args' = Append(args, v)
      /\ data' = data /\ ra' = ra /\ v0' = v0 /\ live' = live
  BY Constants DEF Arg, IInv, TypeOK, CallSp, SaveSize, Assumptions
<1>2. v \in Int
  BY <1>1, Preparing, ValueIsWord DEF IInv
<1>3. /\ Len(args) \in Nat /\ args' \in Seq(Int) /\ Len(args') = Len(args) + 1
      /\ args' # << >> /\ sp' + Len(args') = CallSp + Len(args)
      /\ NumVars \in Nat /\ StackSize \in Nat /\ SaveSize = NumVars + 2
  <2>1. args \in Seq(Int)
    BY DEF IInv, TypeOK
  <2>2. /\ Len(args) \in Nat /\ Append(args, v) \in Seq(Int)
        /\ Len(Append(args, v)) = Len(args) + 1
    BY <1>2, <2>1, AppendProperties, LenProperties
  <2>3. args' \in Seq(Int) /\ Len(args') = Len(args) + 1
    BY <1>1, <2>2
  <2>4. args' # << >>
    BY <2>2, <2>3, EmptySeq
  <2>5. sp' + Len(args') = CallSp + Len(args)
    BY <1>1, <2>2, <2>3
  <2> QED
    BY <2>2, <2>3, <2>4, <2>5, Constants DEF Assumptions, SaveSize
<1>4. /\ Depth' = d /\ d \in Nat \ {0} /\ Top' = CallFrames[d]
      /\ \A k \in 1 .. d : CallFrames[k] \in Frame /\ s(k) \in 0 .. StackSize
  <2>1. CallFrames \in Seq(Frame) /\ d \in Nat \ {0}
    BY <1>1, Preparing
  <2>2. \A k \in 1 .. d : CallFrames[k] \in Frame
    BY <2>1, ElementOfSeq
  <2>3. \A k \in 1 .. d : s(k) \in 0 .. StackSize
    BY <2>2 DEF Frame
  <2>4. Depth' = d /\ Top' = CallFrames[d]
    BY <1>1 DEF Depth, Top
  <2> QED BY <2>1, <2>2, <2>3, <2>4
<1>5. TypeOK'
  <2>1. CallSp - 1 \in 0 .. StackSize
    <3>1. CallSp \in 0 .. StackSize
      BY <1>1, Preparing
    <3> QED BY <1>1, <1>3, <3>1
  <2>2. stack' \in [Addr -> Int]
    BY <1>1, <1>2, Preparing
  <2> QED BY <1>1, <1>3, <2>1, <2>2, Preparing DEF IInv, TypeOK, Ctl
<1>6. FramesIntact'
  <2> SUFFICES ASSUME NEW k \in 1 .. d
               PROVE  /\ \A x \in Vars : stack'[s(k) - x] = CallFrames[k].env[x]
                      /\ stack'[s(k) - SaveSize + 1] = CallFrames[k].ra
                      /\ stack'[s(k) - SaveSize] = CallFrames[k].fp
    BY <1>1, <1>4 DEF FramesIntact, Base
  <2>1. s(k) \in Int /\ s(k) - SaveSize > CallSp - 1
    <3>1. s(k) - SaveSize >= CallSp + Len(args)
      BY <1>1, Preparing
    <3>2. s(k) \in Int
      BY <1>4
    <3> HIDE DEF s
    <3> QED BY <1>1, <1>3, <3>1, <3>2
  <2>2. /\ \A x \in Vars : s(k) - x # CallSp - 1
        /\ s(k) - SaveSize + 1 # CallSp - 1 /\ s(k) - SaveSize # CallSp - 1
    <3>1. \A x \in Vars : x \in Int /\ x < SaveSize
      BY <1>3 DEF Vars
    <3> HIDE DEF s
    <3> QED BY <1>3, <2>1, <3>1
  <2>3. /\ \A x \in Vars : CallStack[s(k) - x] = CallFrames[k].env[x]
        /\ CallStack[s(k) - SaveSize + 1] = CallFrames[k].ra
        /\ CallStack[s(k) - SaveSize] = CallFrames[k].fp
    BY <1>1, Preparing
  <2>4. \A a \in Int : a # CallSp - 1 => stack'[a] = CallStack[a]
    BY <1>1, Preparing
  <2>5. /\ \A x \in Vars : s(k) - x \in Int
        /\ s(k) - SaveSize + 1 \in Int /\ s(k) - SaveSize \in Int
    BY SMTT(30), <1>3, <2>1 DEF Vars
  <2> HIDE DEF s
  <2> QED BY <2>2, <2>3, <2>4, <2>5
<1>7. BlocksDisjoint'
  <2>1. \A a \in live : a >= sp' + Len(args')
    BY <1>1, <1>3, Preparing
  <2>2. \A a \in live : \A k \in 1 .. d : a \notin s(k) - SaveSize .. s(k) - 1
    BY <1>1, Preparing
  <2> QED BY <1>1, <1>4, <2>1, <2>2 DEF BlocksDisjoint, SaveArea, Base
<1>8. StackLayout'
  <2>1. \A k \in 1 .. d :
          /\ s(k) - SaveSize >= sp' + Len(args')
          /\ \A j \in 1 .. d : j < k => /\ s(j) - SaveSize >= s(k)
                                         /\ CallFrames[j].live \subseteq CallFrames[k].live
          /\ k > 1 => /\ CallFrames[k].fp = s(k - 1) - SaveSize
                      /\ CallFrames[k].ra = CallFrames[k - 1].site
          /\ k = 1 => CallFrames[k].ra = Halt
          /\ k < d => CallFrames[k].site \in Sites
          /\ CallFrames[k].live \subseteq live
          /\ \A a \in CallFrames[k].live : a >= s(k)
    <3>1. CallSp + Len(args) = sp' + Len(args')
      BY <1>3
    <3> QED BY <1>1, <3>1, Preparing
  <2>2. /\ CallFp = s(d) - SaveSize /\ CallFrames[d].ra = ra
        /\ sp' + Len(args') = s(d) - SaveSize
        /\ CallFrames[d].env = data /\ CallFrames[d].live = live
    BY <1>1, <1>3, Preparing
  <2>3. /\ Top'.ra = ra /\ Top'.env = data /\ Top'.live = live
    BY <1>4, <2>2
  <2>4. frames' = CallFrames /\ ctl' = "incall" /\ live' = live /\ data' = data
        /\ fp' = CallFp /\ ra' = ra
    BY <1>1
  <2>5. d > 0 /\ d # 0
    BY <1>4
  <2>6. \A k \in 1 .. Depth' :
          /\ Base(k)' >= sp' + Len(args')
          /\ \A j \in 1 .. Depth' :
               j < k => /\ Base(j)' >= frames'[k].sp
                        /\ frames'[j].live \subseteq frames'[k].live
          /\ k > 1 => frames'[k].fp = Base(k - 1)' /\ frames'[k].ra = frames'[k - 1].site
          /\ k = 1 => frames'[k].ra = Halt
          /\ k < Depth' => frames'[k].site \in Sites
          /\ frames'[k].live \subseteq live'
          /\ \A a \in frames'[k].live : a >= frames'[k].sp
    BY <1>4, <2>1, <2>4 DEF Base
  <2>7. fp' = Base(Depth)' /\ sp' + Len(args') = Base(Depth)'
    BY <1>4, <2>2, <2>4 DEF Base
  <2> HIDE DEF d
  <2> QED BY <1>3, <1>4, <2>3, <2>4, <2>5, <2>6, <2>7 DEF StackLayout
<1> QED BY <1>5, <1>6, <1>7, <1>8 DEF IInv

\* CALL without arguments saves the caller; either way the frame gets its site.
LEMMA CallStep ==
  ASSUME IInv, NEW site \in Sites, Call(site)
  PROVE  IInv'
<1> DEFINE d == Len(CallFrames)
           s(k) == CallFrames[k].sp
<1>1. /\ ctl \in {"code", "incall"} /\ CallSp \in Nat
      /\ stack' = CallStack /\ sp' = CallSp /\ fp' = CallFp /\ ra' = site
      /\ ctl' = IF args = << >> THEN "code" ELSE "entry"
      /\ frames' = [CallFrames EXCEPT ![d].site = site]
      /\ data' = data /\ v0' = v0 /\ live' = live /\ args' = args
  BY Constants DEF Call, IInv, TypeOK, CallSp, SaveSize, Assumptions
<1>2. /\ site \in Int /\ NumVars \in Nat /\ SaveSize = NumVars + 2
      /\ Len(args) \in Nat /\ args \in Seq(Int)
  BY Constants DEF IInv, TypeOK, Assumptions, SaveSize
<1>3. /\ CallFrames \in Seq(Frame) /\ d \in Nat \ {0}
  BY <1>1, Preparing
<1> DEFINE called == [CallFrames[d] EXCEPT !.site = site]
<1>4. /\ called \in Frame /\ frames' = [CallFrames EXCEPT ![d] = called]
      /\ called.site = site /\ called.env = CallFrames[d].env
      /\ called.live = CallFrames[d].live /\ called.ra = CallFrames[d].ra
      /\ called.fp = CallFrames[d].fp /\ called.sp = CallFrames[d].sp
  <2>1. CallFrames[d] \in Frame
    BY <1>3
  <2> QED BY <1>1, <2>1 DEF Frame
<1> HIDE DEF called
<1>5. /\ frames' \in Seq(Frame) /\ Len(frames') = d /\ Depth' = d
      /\ Top' = called
      /\ \A k \in 1 .. d : frames'[k] = IF k = d THEN called ELSE CallFrames[k]
  BY <1>3, <1>4, ExceptSeq DEF Depth, Top
<1>6. \A k \in 1 .. d :
        /\ frames'[k].env = CallFrames[k].env /\ frames'[k].ra = CallFrames[k].ra
        /\ frames'[k].fp = CallFrames[k].fp /\ frames'[k].sp = s(k)
        /\ frames'[k].live = CallFrames[k].live
        /\ frames'[k].site = IF k = d THEN site ELSE CallFrames[k].site
  <2> SUFFICES ASSUME NEW k \in 1 .. d
               PROVE  /\ frames'[k].env = CallFrames[k].env
                      /\ frames'[k].ra = CallFrames[k].ra
                      /\ frames'[k].fp = CallFrames[k].fp
                      /\ frames'[k].sp = CallFrames[k].sp
                      /\ frames'[k].live = CallFrames[k].live
                      /\ frames'[k].site =
                           IF k = d THEN site ELSE CallFrames[k].site
    OBVIOUS
  <2>1. CASE k = d
    <3>1. frames'[k] = called
      BY <1>5, <2>1
    <3> QED BY <1>4, <2>1, <3>1
  <2>2. CASE k # d
    <3>1. frames'[k] = CallFrames[k]
      BY <1>5, <2>2
    <3> QED BY <2>2, <3>1
  <2> QED BY <2>1, <2>2
<1>7. TypeOK'
  BY <1>1, <1>2, <1>5, Preparing DEF IInv, TypeOK, Ctl
<1>8. FramesIntact'
  <2>1. \A k \in 1 .. d :
          /\ \A x \in Vars : CallStack[s(k) - x] = CallFrames[k].env[x]
          /\ CallStack[s(k) - SaveSize + 1] = CallFrames[k].ra
          /\ CallStack[s(k) - SaveSize] = CallFrames[k].fp
    BY <1>1, Preparing
  <2> QED BY <1>1, <1>5, <1>6, <2>1 DEF FramesIntact, Base
<1>9. BlocksDisjoint'
  <2>1. \A a \in live : /\ a >= sp' + Len(args')
                        /\ \A k \in 1 .. d : a \notin s(k) - SaveSize .. s(k) - 1
    BY <1>1, Preparing
  <2> QED BY <1>1, <1>5, <1>6, <2>1 DEF BlocksDisjoint, SaveArea, Base
<1>10. StackLayout'
  <2>1. \A k \in 1 .. d :
          /\ s(k) - SaveSize >= sp' + Len(args')
          /\ \A j \in 1 .. d : j < k => /\ s(j) - SaveSize >= s(k)
                                         /\ CallFrames[j].live \subseteq CallFrames[k].live
          /\ k > 1 => /\ CallFrames[k].fp = s(k - 1) - SaveSize
                      /\ CallFrames[k].ra = CallFrames[k - 1].site
          /\ k = 1 => CallFrames[k].ra = Halt
          /\ k < d => CallFrames[k].site \in Sites
          /\ CallFrames[k].live \subseteq live
          /\ \A a \in CallFrames[k].live : a >= s(k)
    BY <1>1, <1>2, Preparing
  <2>2. CallFp = s(d) - SaveSize /\ sp' + Len(args') = s(d) - SaveSize
    BY <1>1, <1>2, Preparing
  <2>3. ctl' # "incall" /\ (ctl' = "code" <=> args' = << >>)
        /\ (ctl' = "entry" <=> args' # << >>)
    BY <1>1
  <2>4. \A k \in 1 .. d :
          /\ frames'[k].sp - SaveSize >= sp' + Len(args')
          /\ \A j \in 1 .. d :
               j < k => /\ frames'[j].sp - SaveSize >= frames'[k].sp
                        /\ frames'[j].live \subseteq frames'[k].live
          /\ k > 1 => /\ frames'[k].fp = frames'[k - 1].sp - SaveSize
                      /\ frames'[k].ra = frames'[k - 1].site
          /\ k = 1 => frames'[k].ra = Halt
          /\ frames'[k].site \in Sites
          /\ frames'[k].live \subseteq live'
          /\ \A a \in frames'[k].live : a >= frames'[k].sp
    BY <1>1, <1>3, <1>6, <2>1
  <2>5. fp' = frames'[d].sp - SaveSize /\ sp' + Len(args') = frames'[d].sp - SaveSize
        /\ ra' = frames'[d].site
    BY <1>1, <1>3, <1>6, <2>2
  <2>6. Top'.site = site /\ ra' = Top'.site
    BY <1>1, <1>4, <1>5
  <2>7. d # 0 /\ d > 0
    BY <1>3
  <2> HIDE DEF d
  <2> QED BY <1>5, <2>3, <2>4, <2>5, <2>6, <2>7 DEF StackLayout, Base
<1> QED BY <1>7, <1>8, <1>9, <1>10 DEF IInv

\* PARAM pops one argument.
LEMMA ParamStep ==
  ASSUME IInv, NEW x \in Vars, Param(x)
  PROVE  IInv'
<1>1. /\ ctl = "entry" /\ sp' = sp + 1
      /\ data' = [data EXCEPT ![x] = stack[sp]]
      /\ args' = SubSeq(args, 1, Len(args) - 1)
      /\ ctl' = IF Len(args) = 1 THEN "code" ELSE "entry"
      /\ UNCHANGED <<stack, fp, ra, v0, frames, live>>
  BY DEF Param
<1>2. /\ Depth > 0 /\ Depth \in Nat /\ sp + Len(args) = Base(Depth)
      /\ args \in Seq(Int) /\ args # << >> /\ sp \in Nat
  BY <1>1 DEF IInv, StackLayout, TypeOK, Depth
<1>3. Len(args) \in Nat \ {0}
  BY <1>2, EmptySeq
<1>4. /\ args' \in Seq(Int) /\ Len(args') = Len(args) - 1
      /\ args' = << >> <=> Len(args) = 1
      /\ sp' + Len(args') = sp + Len(args)
  <2> DEFINE n == Len(args) - 1
  <2>1. \A i \in 1 .. n : args[i] \in Int
    BY <1>2, <1>3, ElementOfSeq
  <2>2. n \in Nat /\ args' = SubSeq(args, 1, n)
    BY <1>1, <1>3
  <2>3. args' \in Seq(Int) /\ Len(args') = n
    <3> HIDE DEF n
    <3> QED BY <2>1, <2>2, SubSeqProperties
  <2>4. args' = << >> <=> n = 0
    BY <2>3, EmptySeq
  <2>5. sp' + Len(args') = sp + Len(args)
    <3>1. sp' = sp + 1 /\ sp \in Nat
      BY <1>1, <1>2
    <3> QED BY <1>3, <2>3, <3>1
  <2> QED BY <1>3, <2>3, <2>4, <2>5
<1>5. sp \in Addr /\ sp' \in 0 .. StackSize
  <2>0. Depth \in 1 .. Depth
    BY <1>2
  <2>1. Base(Depth) \in 0 .. StackSize
    <3>1. /\ Base(Depth) \in Nat /\ frames[Depth].sp \in 0 .. StackSize
          /\ Base(Depth) = frames[Depth].sp - NumVars - 2
      BY <2>0, FrameBounds
    <3> QED BY <3>1, Constants DEF Assumptions
  <2> QED BY <1>1, <1>2, <1>3, <2>1, Constants DEF Addr, Assumptions
<1>6. TypeOK'
  BY <1>1, <1>4, <1>5 DEF IInv, TypeOK, Ctl
<1>7. FramesIntact'
  BY <1>1 DEF IInv, FramesIntact, Base, Depth
<1>8. BlocksDisjoint'
  BY <1>1, <1>4 DEF IInv, BlocksDisjoint, SaveArea, Base, Depth
<1>9. StackLayout'
  BY <1>1, <1>2, <1>4 DEF IInv, StackLayout, Base, Depth, Top
<1> QED BY <1>6, <1>7, <1>8, <1>9 DEF IInv

\* RETURN leaves the frames alone.
LEMMA ReturnStep ==
  ASSUME IInv, NEW op \in Operands, Return(op)
  PROVE  IInv'
<1>1. /\ ctl = "code" /\ v0' = Eval(op) /\ Eval(op) \in Int
      /\ ctl' \in {"halted", "returned", "lost"}
      /\ UNCHANGED <<data, stack, sp, fp, ra, frames, live, args>>
  BY EvalIsWord DEF Return, IInv
<1>2. TypeOK'
  BY <1>1 DEF IInv, TypeOK, Ctl
<1>3. FramesIntact' /\ BlocksDisjoint'
  BY <1>1 DEF IInv, FramesIntact, BlocksDisjoint, SaveArea, Base, Depth
<1>4. StackLayout'
  BY <1>1 DEF IInv, StackLayout, Base, Depth, Top
<1> QED BY <1>2, <1>3, <1>4 DEF IInv

\* Back in the caller: its save area is popped, and the blocks of the callee
\* go with it, because they all lie below.
LEMMA LandStep ==
  ASSUME IInv, ReturnsHome, Land
  PROVE  IInv'
<1> DEFINE n == Depth - 1
<1>1. /\ ctl = "returned" /\ ctl' = "code" /\ sp' = fp + SaveSize
      /\ data' = [[x \in Vars |-> Restored(x)] EXCEPT ![ResultOf[ra]] = v0]
      /\ fp' = stack[fp] /\ ra' = stack[fp + 1]
      /\ frames' = SubSeq(frames, 1, n) /\ live' = Top.live
      /\ stack' = stack /\ v0' = v0 /\ args' = args
  BY DEF Land, Resume, WithResult, LoadedVars, Depth
<1>2. /\ frames # << >> /\ frames \in Seq(Frame) /\ Depth = Len(frames)
      /\ fp = Base(Depth) /\ ra = Top.site
  BY <1>1 DEF ReturnsHome, IInv, TypeOK, Depth
<1>3. Depth \in Nat \ {0} /\ n \in Nat /\ Depth \in 1 .. Depth
  <2>1. Depth \in Nat \ {0}
    BY <1>2, EmptySeq
  <2> QED BY <2>1
<1>4. /\ Depth' = n /\ frames' \in Seq(Frame)
      /\ \A k \in 1 .. n : k \in 1 .. Depth /\ frames'[k] = frames[k]
  <2>1. \A k \in 1 .. n : k \in 1 .. Depth
    BY <1>3
  <2>2. \A k \in 1 .. n : frames[k] \in Frame
    BY <1>2, <2>1, ElementOfSeq
  <2> HIDE DEF n
  <2>3. /\ SubSeq(frames, 1, n) \in Seq(Frame) /\ Len(SubSeq(frames, 1, n)) = n
        /\ \A k \in 1 .. n : SubSeq(frames, 1, n)[k] = frames[k]
    BY <1>3, <2>2, SubSeqProperties
  <2> QED BY <1>1, <2>1, <2>3 DEF Depth
<1> DEFINE top == frames[Depth]
<1>5. /\ Top = top /\ top \in Frame /\ fp \in Nat /\ top.sp \in 0 .. StackSize
      /\ fp = top.sp - NumVars - 2 /\ SaveSize = NumVars + 2
      /\ NumVars \in Nat /\ StackSize \in Nat
  <2>1. Base(Depth) = top.sp - NumVars - 2 /\ Base(Depth) \in Nat
        /\ top \in Frame /\ top.sp \in 0 .. StackSize
    BY <1>3, FrameBounds
  <2> QED BY <1>2, <2>1, Constants DEF Top, SaveSize, Assumptions
<1>6. /\ sp' = top.sp /\ sp' \in 0 .. StackSize
      /\ fp' = top.fp /\ ra' = top.ra /\ live' = top.live
  <2>1. stack[Base(Depth) + 1] = top.ra /\ stack[Base(Depth)] = top.fp
    BY <1>3 DEF IInv, FramesIntact
  <2>2. sp' = top.sp
    BY <1>1, <1>5
  <2> QED BY <1>1, <1>2, <1>5, <2>1, <2>2
<1>7. args = << >> /\ args' = << >> /\ Len(args) = 0
  BY <1>1 DEF IInv, StackLayout
<1>8. TypeOK'
  <2>1. \A x \in Vars : Restored(x) \in Int
    <3> SUFFICES ASSUME NEW x \in Vars PROVE Restored(x) \in Int
      OBVIOUS
    <3>1. fp + SaveSize - x \in Addr /\ Label(x) \in Int
      BY <1>5 DEF Addr, Vars, Label
    <3>2. stack[fp + SaveSize - x] \in Int
      BY <3>1 DEF IInv, TypeOK
    <3> QED BY <3>1, <3>2 DEF Restored
  <2>2. data' \in [Vars -> Int]
    <3>1. v0 \in Int
      BY DEF IInv, TypeOK
    <3> QED BY <1>1, <2>1, <3>1
  <2>3. fp' \in Int /\ ra' \in Int /\ live' \subseteq Addr
    BY <1>5, <1>6 DEF Frame
  <2>4. stack' \in [Addr -> Int] /\ v0' \in Int /\ args' \in Seq(Int)
    BY <1>1 DEF IInv, TypeOK
  <2> QED BY <1>1, <1>4, <1>6, <2>2, <2>3, <2>4 DEF TypeOK, Ctl
<1>9. FramesIntact'
  BY <1>1, <1>4 DEF IInv, FramesIntact, Base
<1>10. BlocksDisjoint'
  <2>1. top.live \subseteq live /\ \A a \in top.live : a >= top.sp
    BY <1>3 DEF IInv, StackLayout
  <2>2. \A a \in live : \A k \in 1 .. Depth : a \notin SaveArea(k)
    BY DEF IInv, BlocksDisjoint
  <2>3. \A k \in 1 .. n : SaveArea(k)' = SaveArea(k)
    BY <1>4 DEF SaveArea, Base
  <2>4. \A a \in live' : a >= sp' + Len(args')
    <3>1. sp' + Len(args') = top.sp
      BY <1>5, <1>6, <1>7
    <3> QED BY <1>6, <2>1, <3>1
  <2> QED BY <1>4, <1>6, <2>1, <2>2, <2>3, <2>4 DEF BlocksDisjoint
<1>11. StackLayout'
  <2>1. \A k \in 1 .. n :
          /\ Base(k) >= top.sp /\ frames[k].live \subseteq top.live
          /\ \A j \in 1 .. n :
               j < k => /\ Base(j) >= frames[k].sp
                        /\ frames[j].live \subseteq frames[k].live
          /\ k > 1 => frames[k].fp = Base(k - 1) /\ frames[k].ra = frames[k - 1].site
          /\ k = 1 => frames[k].ra = Halt
          /\ frames[k].site \in Sites
          /\ \A a \in frames[k].live : a >= frames[k].sp
    <3>1. \A k \in 1 .. n : k \in 1 .. Depth /\ k < Depth
      BY <1>3
    <3> QED BY <1>3, <3>1 DEF IInv, StackLayout
  <2>2. \A k \in 1 .. n :
          /\ Base(k)' = Base(k) /\ frames'[k] = frames[k]
          /\ k > 1 => Base(k - 1)' = Base(k - 1) /\ frames'[k - 1] = frames[k - 1]
    <3>1. \A k \in 1 .. n : k > 1 => k - 1 \in 1 .. n
      BY <1>3
    <3> QED BY <1>4, <3>1 DEF Base
  <2>3. /\ n > 0 => top.fp = Base(n) /\ top.ra = frames[n].site
        /\ n = 0 => top.ra = Halt
    BY <1>3 DEF IInv, StackLayout
  <2>4. n > 0 => fp' = frames'[n].sp - SaveSize /\ ra' = Top'.site
    <3>1. n > 0 => n \in 1 .. n
      BY <1>3
    <3>2. n > 0 => Top' = frames[n]
      BY <1>4, <3>1 DEF Top, Depth
    <3>3. n > 0 => frames'[n] = frames[n]
      BY <1>4, <3>1
    <3> QED BY <1>6, <2>3, <3>1, <3>2, <3>3 DEF Base
  <2>5. n = 0 => ra' = Halt
    BY <1>6, <2>3
  <2>6. \A k \in 1 .. n : Base(k) >= sp' + Len(args')
    <3>1. sp' + Len(args') = top.sp
      BY <1>5, <1>6, <1>7
    <3> QED BY <2>1, <3>1
  <2>7. \A k \in 1 .. n :
          /\ Base(k)' >= sp' + Len(args')
          /\ \A j \in 1 .. n :
               j < k => /\ Base(j)' >= frames'[k].sp
                        /\ frames'[j].live \subseteq frames'[k].live
          /\ k > 1 => frames'[k].fp = Base(k - 1)' /\ frames'[k].ra = frames'[k - 1].site
          /\ k = 1 => frames'[k].ra = Halt
          /\ frames'[k].site \in Sites
          /\ frames'[k].live \subseteq live'
          /\ \A a \in frames'[k].live : a >= frames'[k].sp
    <3> SUFFICES ASSUME NEW k \in 1 .. n
                 PROVE  /\ Base(k)' >= sp' + Len(args')
                        /\ \A j \in 1 .. n :
                             j < k => /\ Base(j)' >= frames'[k].sp
                                      /\ frames'[j].live \subseteq frames'[k].live
                        /\ k > 1 => /\ frames'[k].fp = Base(k - 1)'
                                    /\ frames'[k].ra = frames'[k - 1].site
                        /\ k = 1 => frames'[k].ra = Halt
                        /\ frames'[k].site \in Sites
                        /\ frames'[k].live \subseteq live'
                        /\ \A a \in frames'[k].live : a >= frames'[k].sp
      OBVIOUS
    <3>1. frames'[k] = frames[k] /\ Base(k)' = Base(k) /\ live' = top.live
      BY <1>6, <2>2
    <3>2. Base(k)' >= sp' + Len(args')
      BY <2>6, <3>1
    <3>3. \A j \in 1 .. n :
            j < k => /\ Base(j)' >= frames'[k].sp
                     /\ frames'[j].live \subseteq frames'[k].live
      BY <2>1, <2>2
    <3>4. k > 1 => /\ frames'[k].fp = Base(k - 1)'
                   /\ frames'[k].ra = frames'[k - 1].site
      BY <2>1, <2>2
    <3>5. /\ k = 1 => frames'[k].ra = Halt
          /\ frames'[k].site \in Sites
          /\ frames'[k].live \subseteq live'
          /\ \A a \in frames'[k].live : a >= frames'[k].sp
      BY <2>1, <3>1
    <3> QED BY <3>2, <3>3, <3>4, <3>5
  <2> HIDE DEF n
  <2> QED
    BY <1>1, <1>3, <1>4, <1>7, <2>4, <2>5, <2>7 DEF StackLayout, Base
<1> QED BY <1>8, <1>9, <1>10, <1>11 DEF IInv

-----------------------------------------------------------------------------
(* The theorems. *)

\* A return address that is in ra outside a call sequence is that of the
\* caller that waits, or Halt when nobody does.
LEMMA HomeStep ==
  ASSUME IInv, ReturnsHome, NEW op \in Operands, Return(op)
  PROVE  ReturnsHome'
<1>1. /\ ctl = "code" /\ UNCHANGED <<fp, ra, frames>>
      /\ ctl' = IF ra = Halt THEN "halted"
                ELSE IF ra \in Sites THEN "returned" ELSE "lost"
  BY DEF Return
<1>2. Depth \in Nat /\ frames \in Seq(Frame) /\ Depth = Len(frames)
  BY DEF IInv, TypeOK, Depth
<1>3. CASE Depth = 0
  <2>1. ra = Halt /\ frames = << >>
    BY <1>1, <1>2, <1>3, EmptySeq DEF IInv, StackLayout
  <2> QED BY <1>1, <2>1 DEF ReturnsHome
<1>4. CASE Depth > 0
  <2>1. /\ ra = Top.site /\ Top.site \in Sites /\ fp = Base(Depth)
    BY <1>1, <1>2, <1>4 DEF IInv, StackLayout, Top, Depth
  <2>2. frames # << >> /\ Halt \notin Sites
    BY <1>2, <1>4, EmptySeq, Constants DEF Assumptions
  <2>3. ctl' = "returned" /\ ra' = Top'.site /\ fp' = frames'[Depth'].sp - SaveSize
    BY <1>1, <2>1, <2>2 DEF Top, Depth, Base
  <2> QED BY <1>1, <2>2, <2>3 DEF ReturnsHome, Base
<1> QED BY <1>2, <1>3, <1>4

\* Every step keeps the invariant.
LEMMA Inductive ==
  ASSUME IInv, ReturnsHome, [Next]_vars
  PROVE  IInv' /\ ReturnsHome'
<1>1. CASE Land
  <2>1. ReturnsHome'
    BY <1>1 DEF Land, Resume, ReturnsHome
  <2> QED BY <1>1, <2>1, LandStep
<1>2. CASE Done \/ UNCHANGED vars
  <2>1. UNCHANGED vars
    BY <1>2 DEF Done
  <2> QED
    BY <2>1 DEF vars, IInv, TypeOK, FramesIntact, BlocksDisjoint, StackLayout,
                ReturnsHome, Depth, Base, SaveArea, Top
<1>3. ASSUME NEW c \in Program, Execute(c) PROVE IInv' /\ ReturnsHome'
  <2>1. CASE c.op = "Assign" /\ Assign(c.left, c.right)
    <3>1. IInv'
      BY <2>1, CodeFields, AssignStep
    <3> QED BY <2>1, <3>1 DEF Assign, ReturnsHome
  <2>2. CASE c.op \in ArithKinds /\ BinOp(c.op, c.target, c.op1, c.op2)
    <3>1. IInv'
      BY <2>2, CodeFields, BinOpStep
    <3> QED BY <2>2, <3>1 DEF BinOp, ReturnsHome
  <2>3. CASE c.op = "Return" /\ Return(c.ret)
    BY <2>3, CodeFields, ReturnStep, HomeStep
  <2>4. CASE c.op = "Dec" /\ Dec(c.var, c.size)
    <3>1. IInv'
      BY <2>4, CodeFields, DecStep
    <3> QED BY <2>4, <3>1 DEF Dec, ReturnsHome
  <2>5. CASE c.op = "Arg" /\ Arg(c.arg)
    <3>1. IInv'
      BY <2>5, CodeFields, ArgStep
    <3> QED BY <2>5, <3>1 DEF Arg, ReturnsHome
  <2>6. CASE c.op = "Call" /\ Call(c.site)
    <3>1. IInv'
      BY <2>6, CodeFields, CallStep
    <3> QED BY <2>6, <3>1 DEF Call, ReturnsHome
  <2>7. CASE c.op = "Param" /\ Param(c.param)
    <3>1. IInv'
      BY <2>7, CodeFields, ParamStep
    <3> QED BY <2>7, <3>1 DEF Param, ReturnsHome
  <2>8. CASE c.op = "Read" /\ \E i \in Inputs : Read(c.read, i)
    <3>1. IInv'
      BY <2>8, CodeFields, ReadStep
    <3> QED BY <2>8, <3>1 DEF Read, ReturnsHome
  <2>9. CASE c.op = "Write" /\ Write(c.write)
    <3>1. IInv'
      BY <2>9, CodeFields, WriteStep
    <3> QED BY <2>9, <3>1 DEF Write, ReturnsHome
  <2> QED
    BY <1>3, <2>1, <2>2, <2>3, <2>4, <2>5, <2>6, <2>7, <2>8, <2>9 DEF Execute
<1> QED BY <1>1, <1>2, <1>3 DEF Next

\* The invariant holds before main runs.
LEMMA Initially ==
  ASSUME Init
  PROVE  IInv /\ ReturnsHome
<1>1. Depth = 0 /\ args = << >> /\ ctl = "code" /\ Len(args) = 0
  BY EmptySeq DEF Init, Depth
<1>2. TypeOK
  BY Constants, EmptySeq DEF Init, TypeOK, Assumptions, Ctl
<1>3. FramesIntact /\ BlocksDisjoint
  BY <1>1 DEF Init, FramesIntact, BlocksDisjoint
<1>4. StackLayout
  BY <1>1 DEF Init, StackLayout
<1>5. ReturnsHome
  BY <1>1 DEF ReturnsHome
<1> QED BY <1>2, <1>3, <1>4, <1>5 DEF IInv

\* The invariant holds of every behaviour of the machine.
LEMMA Invariant == Spec => [](IInv /\ ReturnsHome)
BY Initially, Inductive, PTL DEF Spec

\* The registers, the stack and the records of the frames always have their
\* types; in particular sp never leaves the stack segment.
THEOREM TypeCorrect == Spec => []TypeOK
<1>1. IInv => TypeOK
  BY DEF IInv
<1> QED BY <1>1, Invariant, PTL

\* No function, however deep its own calls, disturbs what gen_store_vars and
\* prepare_call have saved for a caller.
THEOREM SavedAreIntact == Spec => []FramesIntact
<1>1. IInv => FramesIntact
  BY DEF IInv
<1> QED BY <1>1, Invariant, PTL

\* Every jr $ra of a RETURN lands behind the jal of the waiting caller.
THEOREM ReturnsGoHome == Spec => []ReturnsHome
BY Invariant, PTL

\* The blocks of DEC never overlap what the call sequence writes.
THEOREM BlocksAreDisjoint == Spec => []BlocksDisjoint
<1>1. IInv => BlocksDisjoint
  BY DEF IInv
<1> QED BY <1>1, Invariant, PTL

\* The save areas are stacked one below the other and linked by fp and ra.
THEOREM FramesAreLinked == Spec => []StackLayout
<1>1. IInv => StackLayout
  BY DEF IInv
<1> QED BY <1>1, Invariant, PTL

\* What the caller gets back.
LEMMA GivesBackTheOthers ==
  ASSUME IInv, ReturnsHome, Land
  PROVE  /\ sp' = Top.sp /\ fp' = Top.fp /\ ra' = Top.ra
         /\ \A x \in Vars \ {ResultOf[ra]} :
              data'[x] = IF AddressTakesRegister(x) THEN Label(x) ELSE Top.env[x]
<1>1. /\ ctl = "returned" /\ sp' = fp + SaveSize
      /\ data' = [[x \in Vars |-> Restored(x)] EXCEPT ![ResultOf[ra]] = v0]
      /\ fp' = stack[fp] /\ ra' = stack[fp + 1]
  BY DEF Land, Resume, WithResult, LoadedVars
<1>2. Depth \in Nat \ {0} /\ fp = Base(Depth) /\ Top = frames[Depth]
  BY <1>1, EmptySeq DEF ReturnsHome, IInv, TypeOK, Depth, Top
<1>3. fp = Top.sp - SaveSize /\ Top.sp \in Int /\ SaveSize \in Int
  <2>1. Depth \in 1 .. Depth
    BY <1>2
  <2>2. frames[Depth].sp \in 0 .. StackSize
    BY <2>1, FrameBounds
  <2>3. StackSize \in Nat /\ NumVars \in Nat
    BY Constants DEF Assumptions
  <2> QED BY <1>2, <2>2, <2>3 DEF Base, SaveSize
<1>4. /\ \A x \in Vars : stack[Top.sp - x] = Top.env[x]
      /\ stack[fp + 1] = Top.ra /\ stack[fp] = Top.fp
  BY <1>2 DEF IInv, FramesIntact
<1>5. fp + SaveSize = Top.sp
  BY <1>3
<1>6. \A x \in Vars :
        Restored(x) = IF AddressTakesRegister(x) THEN Label(x) ELSE Top.env[x]
  <2> SUFFICES ASSUME NEW x \in Vars, ~AddressTakesRegister(x)
               PROVE  Restored(x) = Top.env[x]
    BY Zenon DEF Restored
  <2>1. Restored(x) = stack[fp + SaveSize - x]
    BY Zenon DEF Restored
  <2>2. fp + SaveSize - x = Top.sp - x
    BY <1>3, <1>5 DEF Vars
  <2>3. stack[Top.sp - x] = Top.env[x]
    BY <1>4
  <2> QED BY <2>1, <2>2, <2>3
<1>7. \A x \in Vars \ {ResultOf[ra]} : data'[x] = Restored(x)
  BY <1>1
<1> QED BY <1>1, <1>4, <1>5, <1>6, <1>7

\* With fewer than TempRegs variables no address takes the register of the
\* word that is being restored.
LEMMA NoAlias ==
  ASSUME NumVars < TempRegs, NEW x \in Vars
  PROVE  ~AddressTakesRegister(x)
<1>1. NumVars \in Nat /\ TempRegs = 16
  BY Constants DEF Assumptions, TempRegs, FirstTemp, LastTemp
<1>2. NumVars + 1 - x \in 1 .. 15
  BY <1>1 DEF Vars
<1> QED BY <1>1, <1>2 DEF AddressTakesRegister

\* With fewer than TempRegs variables the caller gets all of them back.
LEMMA GivesBack ==
  ASSUME NumVars < TempRegs, IInv, ReturnsHome, Land
  PROVE  /\ sp' = Top.sp /\ fp' = Top.fp /\ ra' = Top.ra
         /\ \A x \in Vars \ {ResultOf[ra]} : data'[x] = Top.env[x]
BY GivesBackTheOthers, NoAlias, Zenon

\* In a program with fewer than TempRegs variables a call is transparent: the
\* caller has its sp, fp and ra again and, but for the result, its variables.
THEOREM CallsAreTransparent ==
  ASSUME NumVars < TempRegs
  PROVE  Spec => LandRestores
<1>1. IInv /\ ReturnsHome =>
        (Land => /\ sp' = Top.sp /\ fp' = Top.fp /\ ra' = Top.ra
                 /\ \A x \in Vars \ {ResultOf[ra]} : data'[x] = Top.env[x])
  BY GivesBack
<1> QED BY <1>1, Invariant, PTL DEF LandRestores

-----------------------------------------------------------------------------
(* The refinement: with fewer variables than the rotation has registers,   *)
(* every step of Calls is a step of IrFrames.                              *)

\* The arguments in flight lie at sp and above, the last one at sp.
ArgsIntact == \A i \in 1 .. Len(args) : stack[sp + Len(args) - i] = args[i]

RInv == IInv /\ ReturnsHome /\ ArgsIntact

\* The memory and the frames of IrFrames.
Mem == [a \in live |-> stack[a]]

IrFrame(k) == [env |-> frames[k].env, live |-> frames[k].live, site |-> frames[k].site]
IrDepth == IF ctl = "incall" THEN Depth - 1 ELSE Depth
IrStack == [k \in 1 .. IrDepth |-> IrFrame(k)]

IrResult == IF ctl \in {"returned", "halted"} THEN v0 ELSE 0

-----------------------------------------------------------------------------

\* The initial states of the machine are initial states of IrFrames.
LEMMA RefinesInit ==
  ASSUME Init
  PROVE  Ir!Init
<1>1. data \in [Vars -> Int] /\ Depth = 0 /\ ctl = "code" /\ live = {} /\ args = << >>
  BY EmptySeq DEF Init, Depth
<1>2. [a \in live |-> stack[a]] = << >>
  BY <1>1
<1>3. [k \in 1 .. IF ctl = "incall" THEN Depth - 1 ELSE Depth |->
         [env |-> frames[k].env, live |-> frames[k].live, site |-> frames[k].site]] = << >>
  BY <1>1
<1> QED BY <1>1, <1>2, <1>3 DEF Ir!Init, Ir!None, Ir!Vars, Vars

\* A readable operand has the same value in both.
LEMMA SameValue ==
  ASSUME NEW op \in Operands, Readable(op)
  PROVE  /\ Ir!Readable(op)
         /\ Ir!Eval(op) = Eval(op)
<1>1. op.kind = "Deref" => data[op.var] \in live
  BY DEF Readable, InBounds
<1> QED BY <1>1 DEF Ir!Readable, Ir!InBounds, Ir!Eval, Eval, Ir!Value, Value

-----------------------------------------------------------------------------
(* Arguments. *)

\* Outside a call sequence there are no arguments in flight.
LEMMA NoArgs ==
  ASSUME IInv, ctl \notin {"incall", "entry"}
  PROVE  args = << >> /\ Len(args) = 0
BY EmptySeq DEF IInv, StackLayout

\* ARG puts the new argument below the others.
LEMMA ArgKeepsArgs ==
  ASSUME RInv, NEW op \in Operands, Arg(op)
  PROVE  ArgsIntact'
<1> DEFINE n == Len(args)
           v == Value(op, data, CallStack)
<1>1. /\ ctl \in {"code", "incall"} /\ CallSp >= 1
      /\ stack' = [CallStack EXCEPT ![CallSp - 1] = v]
      /\ sp' = CallSp - 1 /\ args' = Append(args, v)
  BY DEF Arg
<1>2. /\ n \in Nat /\ sp \in Nat /\ stack \in [Addr -> Int] /\ args \in Seq(Int)
      /\ NumVars \in Nat /\ CallSp \in Int
  BY Constants DEF RInv, IInv, TypeOK, Assumptions, CallSp, SaveSize
<1>3. CallStack \in [Addr -> Int] /\ CallSp \in 0 .. StackSize /\ StackSize \in Nat
  BY <1>1, <1>2, Preparing, Constants DEF RInv, Assumptions
<1>4. CallSp - 1 \in Addr
  BY <1>1, <1>3 DEF Addr
<1>5. stack'[CallSp - 1] = v /\ \A a \in Addr : a # CallSp - 1 => stack'[a] = CallStack[a]
  BY <1>1, <1>3, <1>4
<1>6. v \in Int
  BY <1>1, <1>3, ValueIsWord DEF Arg, RInv, IInv
<1>7. /\ Len(args') = n + 1 /\ args'[n + 1] = v
      /\ \A i \in 1 .. n : args'[i] = args[i]
  BY <1>1, <1>2, <1>6, AppendProperties
<1>8. \A i \in 1 .. n : stack'[CallSp + n - i] = args[i]
  <2>1. CASE ctl = "code"
    BY <2>1, NoArgs DEF RInv
  <2>2. CASE ctl = "incall"
    <3> SUFFICES ASSUME NEW i \in 1 .. n PROVE stack'[CallSp + n - i] = args[i]
      OBVIOUS
    <3>1. CallStack = stack /\ CallSp = sp
      BY <2>2 DEF CallStack, CallSp
    <3>2. stack[sp + n - i] = args[i]
      BY DEF RInv, ArgsIntact
    <3>3. /\ Depth \in 1 .. Depth /\ sp + n = Base(Depth)
      BY <2>2 DEF RInv, IInv, StackLayout, TypeOK, Depth
    <3>4. Base(Depth) < StackSize
      <4>1. /\ frames[Depth].sp \in 0 .. StackSize
            /\ Base(Depth) = frames[Depth].sp - NumVars - 2
        BY <3>3, FrameBounds DEF RInv
      <4> QED BY <1>2, <1>3, <4>1
    <3>5. sp + n - i \in Addr /\ sp + n - i # CallSp - 1
      BY <1>2, <1>3, <3>1, <3>3, <3>4 DEF Addr
    <3> QED BY <1>5, <3>1, <3>2, <3>5
  <2> QED BY <1>1, <2>1, <2>2
<1>9. \A i \in 1 .. n + 1 : stack'[sp' + (n + 1) - i] = args'[i]
  <2> SUFFICES ASSUME NEW i \in 1 .. n + 1
               PROVE  stack'[sp' + (n + 1) - i] = args'[i]
    OBVIOUS
  <2> HIDE DEF n, v
  <2>1. sp' + (n + 1) - i = CallSp + n - i
    BY <1>1, <1>2, <1>3
  <2>2. CASE i = n + 1
    <3>1. CallSp + n - i = CallSp - 1
      BY <1>2, <1>3, <2>2
    <3> QED BY <1>5, <1>7, <2>1, <2>2, <3>1
  <2>3. CASE i # n + 1
    <3>1. i \in 1 .. n
      BY <1>2, <2>3
    <3> QED BY <1>7, <1>8, <2>1, <3>1
  <2> QED BY <2>2, <2>3
<1> QED BY <1>7, <1>9 DEF ArgsIntact

\* PARAM takes the last argument and leaves the others where they are.
LEMMA ParamKeepsArgs ==
  ASSUME RInv, NEW x \in Vars, Param(x)
  PROVE  /\ ArgsIntact'
         /\ stack[sp] = args[Len(args)]
         /\ args' = << >> <=> Len(args) = 1
<1> DEFINE n == Len(args)
<1>1. /\ ctl = "entry" /\ sp' = sp + 1 /\ stack' = stack
      /\ args' = SubSeq(args, 1, n - 1)
  BY DEF Param
<1>2. /\ sp \in Nat /\ args \in Seq(Int) /\ args # << >>
  BY <1>1 DEF RInv, IInv, TypeOK, StackLayout
<1>3. n \in Nat \ {0}
  BY <1>2, EmptySeq
<1>4. /\ Len(args') = n - 1 /\ args' \in Seq(Int)
      /\ \A i \in 1 .. n - 1 : args'[i] = args[i]
  <2> DEFINE m == n - 1
  <2>1. m \in Nat /\ \A i \in 1 .. m : args[i] \in Int
    BY <1>2, <1>3, ElementOfSeq
  <2>2. /\ SubSeq(args, 1, m) \in Seq(Int) /\ Len(SubSeq(args, 1, m)) = m
        /\ \A i \in 1 .. m : SubSeq(args, 1, m)[i] = args[i]
    <3> HIDE DEF m
    <3> QED BY <2>1, SubSeqProperties
  <2> QED BY <1>1, <2>2
<1>5. args' = << >> <=> n = 1
  BY <1>3, <1>4, EmptySeq
<1>6. \A i \in 1 .. n : stack[sp + n - i] = args[i]
  BY DEF RInv, ArgsIntact
<1>7. stack[sp] = args[n]
  <2>1. n \in 1 .. n /\ sp + n - n = sp
    BY <1>2, <1>3
  <2> QED BY <1>6, <2>1
<1>8. \A i \in 1 .. n - 1 : stack'[sp' + (n - 1) - i] = args'[i]
  <2> SUFFICES ASSUME NEW i \in 1 .. n - 1
               PROVE  stack'[sp' + (n - 1) - i] = args'[i]
    OBVIOUS
  <2> HIDE DEF n
  <2>1. sp' + (n - 1) - i = sp + n - i /\ i \in 1 .. n
    BY <1>1, <1>2, <1>3
  <2> QED BY <1>1, <1>4, <1>6, <2>1
<1> QED BY <1>4, <1>5, <1>7, <1>8 DEF ArgsIntact

\* Every step keeps the arguments in place.
LEMMA KeepsArgs ==
  ASSUME RInv, [Next]_vars
  PROVE  ArgsIntact'
<1>1. ASSUME ctl \in {"code", "returned", "halted", "lost"}, args' = args
      PROVE  ArgsIntact'
  <2>1. Len(args) = 0
    BY <1>1, NoArgs DEF RInv
  <2> QED BY <1>1, <2>1 DEF ArgsIntact
<1>2. CASE Land
  BY <1>1, <1>2 DEF Land, Resume
<1>3. CASE Done \/ UNCHANGED vars
  <2>1. UNCHANGED vars
    BY <1>3 DEF Done
  <2> QED BY <2>1 DEF vars, ArgsIntact, RInv
<1>4. ASSUME NEW c \in Program, Execute(c) PROVE ArgsIntact'
  <2>1. CASE c.op = "Assign" /\ Assign(c.left, c.right)
    BY <1>1, <2>1 DEF Assign
  <2>2. CASE c.op \in ArithKinds /\ BinOp(c.op, c.target, c.op1, c.op2)
    BY <1>1, <2>2 DEF BinOp
  <2>3. CASE c.op = "Return" /\ Return(c.ret)
    BY <1>1, <2>3 DEF Return
  <2>4. CASE c.op = "Dec" /\ Dec(c.var, c.size)
    BY <1>1, <2>4 DEF Dec
  <2>5. CASE c.op = "Arg" /\ Arg(c.arg)
    BY <2>5, CodeFields, ArgKeepsArgs
  <2>6. CASE c.op = "Call" /\ Call(c.site)
    <3>1. CASE ctl = "incall"
      BY <2>6, <3>1 DEF Call, CallStack, CallSp, ArgsIntact, RInv
    <3>2. CASE ctl = "code"
      BY <1>1, <2>6, <3>2 DEF Call
    <3> QED BY <2>6, <3>1, <3>2 DEF Call
  <2>7. CASE c.op = "Param" /\ Param(c.param)
    BY <2>7, CodeFields, ParamKeepsArgs
  <2>8. CASE c.op = "Read" /\ \E i \in Inputs : Read(c.read, i)
    BY <1>1, <2>8 DEF Read
  <2>9. CASE c.op = "Write" /\ Write(c.write)
    BY <1>1, <2>9 DEF Write
  <2> QED
    BY <1>4, <2>1, <2>2, <2>3, <2>4, <2>5, <2>6, <2>7, <2>8, <2>9 DEF Execute
<1> QED BY <1>2, <1>3, <1>4 DEF Next

\* The strengthened invariant is inductive.
LEMMA RInductive ==
  ASSUME RInv, [Next]_vars
  PROVE  RInv'
BY Inductive, KeepsArgs DEF RInv

\* The invariant of the refinement holds initially.
LEMMA RInitially ==
  ASSUME Init
  PROVE  RInv
<1>1. Len(args) = 0
  BY EmptySeq DEF Init
<1> QED BY <1>1, Initially DEF RInv, ArgsIntact

-----------------------------------------------------------------------------
(* Frames. *)

\* The suspended frames of IrFrames form a sequence.
LEMMA IrStackIsSeq ==
  ASSUME RInv
  PROVE  /\ IrDepth \in Nat /\ Depth \in Nat
         /\ IrStack \in Seq(Ir!Frame) /\ Len(IrStack) = IrDepth
         /\ \A k \in 1 .. IrDepth : IrStack[k] = IrFrame(k) /\ IrFrame(k) \in Ir!Frame
         /\ IrStack = << >> <=> IrDepth = 0
<1>1. IrDepth \in Nat /\ Depth \in Nat /\ IrDepth <= Depth
  BY DEF RInv, IInv, TypeOK, StackLayout, IrDepth, Depth
<1>2. ASSUME NEW k \in 1 .. IrDepth PROVE IrFrame(k) \in Ir!Frame
  <2>1. k \in 1 .. Depth /\ (k < Depth \/ ctl # "incall")
    BY <1>1, <1>2 DEF IrDepth
  <2>2. frames[k] \in Frame /\ frames[k].site \in Sites
    BY <2>1 DEF RInv, IInv, TypeOK, StackLayout, Depth
  <2> QED BY <2>2 DEF IrFrame, Ir!Frame, Ir!Vars, Vars, Frame
<1>3. /\ DOMAIN IrStack = 1 .. IrDepth
      /\ \A k \in 1 .. IrDepth : IrStack[k] = IrFrame(k)
  BY DEF IrStack
<1>4. IrStack \in [1 .. IrDepth -> Ir!Frame]
  BY <1>2, <1>3 DEF IrStack
<1>5. IrStack \in Seq(Ir!Frame) /\ Len(IrStack) = IrDepth
  BY <1>1, <1>4
<1> QED BY <1>1, <1>2, <1>3, <1>5, EmptySeq

\* A code that is no part of a call sequence leaves the frames of IrFrames
\* alone.
LEMMA SameIrStack ==
  ASSUME ctl = "code", ctl' # "incall", frames' = frames
  PROVE  IrStack' = IrStack
BY DEF IrStack, IrDepth, IrFrame, Depth

-----------------------------------------------------------------------------
(* Codes that stay inside the current activation. *)

\* The word below sp belongs to no block.
LEMMA BelowSpIsFree ==
  ASSUME IInv, sp >= 1, stack' = [stack EXCEPT ![sp - 1] = ra], live' = live
  PROVE  Mem' = Mem
<1>1. \A a \in live : a \in Addr /\ a # sp - 1
  <2>1. sp \in Nat /\ Len(args) \in Nat /\ live \subseteq Addr
    BY DEF IInv, TypeOK
  <2>2. \A a \in live : a >= sp + Len(args)
    BY DEF IInv, BlocksDisjoint
  <2>3. \A a \in live : a \in Int
    BY <2>1 DEF Addr
  <2> QED BY <2>1, <2>2, <2>3
<1>2. stack \in [Addr -> Int]
  BY DEF IInv, TypeOK
<1>3. \A a \in live : stack'[a] = stack[a]
  BY <1>1, <1>2
<1> QED BY <1>3 DEF Mem

\* An assignment in .data is one in the environment of the activation.
LEMMA AssignRefines ==
  ASSUME RInv, NEW left \in Targets, NEW right \in Operands, Assign(left, right)
  PROVE  Ir!Assign(left, right)
<1>1. /\ ctl = "code" /\ Readable(left) /\ Readable(right)
      /\ UNCHANGED <<v0, ctl, frames, live, args>>
  BY DEF Assign
<1>2. /\ Ir!Readable(left) /\ Ir!Readable(right) /\ Ir!Eval(right) = Eval(right)
  BY <1>1, SameValue DEF Targets, Operands
<1>3. IrStack' = IrStack /\ IrResult' = IrResult
  BY <1>1, SameIrStack DEF IrResult
<1>4. CASE left.kind = "Deref"
  <2>1. stack' = [stack EXCEPT ![data[left.var]] = Eval(right)] /\ data' = data
    BY <1>4 DEF Assign
  <2>2. data[left.var] \in live /\ live \subseteq Addr /\ stack \in [Addr -> Int]
    BY <1>1, <1>4 DEF Readable, InBounds, RInv, IInv, TypeOK
  <2>3. \A a \in live : stack'[a] = IF a = data[left.var] THEN Eval(right) ELSE stack[a]
    BY <2>1, <2>2
  <2>4. Mem' = [Mem EXCEPT ![data[left.var]] = Eval(right)]
    BY <1>1, <2>2, <2>3 DEF Mem
  <2> QED
    BY <1>1, <1>2, <1>3, <1>4, <2>1, <2>4
    DEF Ir!Assign, Mem, IrStack, IrDepth, IrFrame, IrResult
<1>5. CASE left.kind # "Deref"
  <2>1. stack' = stack /\ data' = [data EXCEPT ![left.var] = Eval(right)]
    BY <1>5 DEF Assign
  <2>2. Mem' = Mem
    BY <1>1, <2>1 DEF Mem
  <2> QED
    BY <1>1, <1>2, <1>3, <1>5, <2>1, <2>2
    DEF Ir!Assign, Mem, IrStack, IrDepth, IrFrame, IrResult
<1> QED BY <1>4, <1>5

\* So is arithmetic.
LEMMA BinOpRefines ==
  ASSUME RInv, NEW kind, NEW x \in Vars, NEW op1 \in Operands, NEW op2 \in Operands,
         BinOp(kind, x, op1, op2)
  PROVE  Ir!BinOp(kind, x, op1, op2)
<1>1. /\ ctl = "code" /\ Readable(op1) /\ Readable(op2)
      /\ kind = "Div" => Eval(op2) # 0
      /\ Arith(kind, Eval(op1), Eval(op2)) \in Words
      /\ data' = [data EXCEPT ![x] = Arith(kind, Eval(op1), Eval(op2))]
      /\ UNCHANGED <<stack, v0, ctl, frames, live, args>>
  BY DEF BinOp
<1>2. /\ Ir!Readable(op1) /\ Ir!Readable(op2)
      /\ Ir!Eval(op1) = Eval(op1) /\ Ir!Eval(op2) = Eval(op2)
  BY <1>1, SameValue
<1>3. \A a, b : Ir!Arith(kind, a, b) = Arith(kind, a, b)
  BY DEF Ir!Arith, Arith, Ir!Quotient, Quotient, Ir!Abs, Abs
<1>4. IrStack' = IrStack /\ IrResult' = IrResult /\ Mem' = Mem
  BY <1>1, SameIrStack DEF IrResult, Mem
<1> QED
  BY <1>1, <1>2, <1>3, <1>4
  DEF Ir!BinOp, Mem, IrStack, IrDepth, IrFrame, IrResult

\* READ means what it means in IrFrames, although it pushes ra.
LEMMA ReadRefines ==
  ASSUME RInv, NEW x, NEW i, Read(x, i)
  PROVE  Ir!Read(x, i)
<1>1. /\ ctl = "code" /\ data' = [data EXCEPT ![x] = i]
      /\ UNCHANGED <<ctl, frames, live, args>>
  BY DEF Read
<1>2. Mem' = Mem
  BY BelowSpIsFree DEF Read, RInv
<1>3. IrStack' = IrStack /\ IrResult' = IrResult
  BY <1>1, SameIrStack DEF IrResult
<1> QED
  BY <1>1, <1>2, <1>3 DEF Ir!Read, Mem, IrStack, IrDepth, IrFrame, IrResult

\* WRITE means what it means in IrFrames.
LEMMA WriteRefines ==
  ASSUME RInv, NEW op \in Operands, Write(op)
  PROVE  Ir!Write(op)
<1>1. /\ ctl = "code" /\ Readable(op)
      /\ UNCHANGED <<data, ctl, frames, live, args>>
  BY DEF Write
<1>2. Mem' = Mem
  BY BelowSpIsFree DEF Write, RInv
<1>3. IrStack' = IrStack /\ IrResult' = IrResult /\ Ir!Readable(op)
  BY <1>1, SameIrStack, SameValue DEF IrResult
<1> QED
  BY <1>1, <1>2, <1>3
  DEF Ir!Write, Ir!vars, Mem, IrStack, IrDepth, IrFrame, IrResult

\* The block of a DEC lies between the old sp and the new one, where nothing
\* is alive.
LEMMA DecRefines ==
  ASSUME RInv, NEW x \in Vars, NEW size \in Nat, Dec(x, size)
  PROVE  Ir!Dec(x, size)
<1> DEFINE base == sp - size
           block == base .. base + size - 1
<1>1. /\ ctl = "code" /\ sp >= size /\ data' = [data EXCEPT ![x] = base]
      /\ live' = live \cup (base .. sp - 1)
      /\ UNCHANGED <<stack, v0, ctl, frames, args>>
  BY DEF Dec
<1>2. /\ sp \in 0 .. StackSize /\ StackSize \in Nat /\ data \in [Vars -> Int]
      /\ stack \in [Addr -> Int] /\ live \subseteq Addr
  BY Constants DEF RInv, IInv, TypeOK, Assumptions
<1>3. \A a \in live : a >= sp /\ a \in Int
  <2>1. Len(args) = 0
    BY <1>1, NoArgs DEF RInv
  <2> QED BY <1>2, <2>1 DEF RInv, IInv, BlocksDisjoint, Addr
<1>4. base \in Int /\ block = base .. sp - 1 /\ block \subseteq Addr
  BY <1>1, <1>2 DEF Addr
<1>5. block \subseteq Addr \ live
  BY <1>2, <1>3, <1>4
<1>6. data'[x] = base
  BY <1>1, <1>2
<1>7. Mem' \in [live' -> Int] /\ \A a \in live : Mem'[a] = Mem[a]
  <2>1. live' \subseteq Addr
    BY <1>1, <1>2, <1>4
  <2> QED BY <1>1, <1>2, <2>1 DEF Mem
<1>8. IrStack' = IrStack /\ IrResult' = IrResult
  BY <1>1, SameIrStack DEF IrResult
<1> HIDE DEF base
<1> QED
  BY <1>1, <1>4, <1>5, <1>6, <1>7, <1>8
  DEF Ir!Dec, Mem, IrStack, IrDepth, IrFrame, IrResult

-----------------------------------------------------------------------------
(* The call sequence. *)

\* The frame of the caller is suspended when its first ARG is executed, but
\* counts as suspended only from the jal on.
LEMMA Suspending ==
  ASSUME RInv, ctl \in {"code", "incall"}, CallSp \in Nat
  PROVE  /\ IrDepth \in Nat /\ Len(CallFrames) = IrDepth + 1
         /\ \A k \in 1 .. IrDepth : CallFrames[k] = frames[k]
         /\ CallFrames[IrDepth + 1].env = data
         /\ CallFrames[IrDepth + 1].live = live
         /\ CallFrames \in Seq(Frame)
         /\ \A a \in live : a \in Addr /\ CallStack[a] = stack[a] /\ a >= CallSp
         /\ CallStack \in [Addr -> Int]
<1>1. /\ CallFrames \in Seq(Frame) /\ CallStack \in [Addr -> Int]
      /\ CallFrames[Len(CallFrames)].env = data
      /\ CallFrames[Len(CallFrames)].live = live
      /\ \A a \in live : CallStack[a] = stack[a] /\ a >= CallSp + Len(args)
  BY Preparing DEF RInv
<1>2. /\ live \subseteq Addr /\ Len(args) \in Nat /\ frames \in Seq(Frame)
      /\ Depth \in Nat /\ Depth = Len(frames)
  BY DEF RInv, IInv, TypeOK, Depth
<1>3. \A a \in live : a \in Addr /\ CallStack[a] = stack[a] /\ a >= CallSp
  <2>1. \A a \in live : a \in Int
    BY <1>2 DEF Addr
  <2> QED BY <1>1, <1>2, <2>1
<1>4. CASE ctl = "incall"
  <2>1. CallFrames = frames /\ Depth > 0 /\ IrDepth = Depth - 1
    BY <1>4 DEF CallFrames, IrDepth, RInv, IInv, StackLayout
  <2> QED BY <1>1, <1>2, <1>3, <2>1
<1>5. CASE ctl = "code"
  <2>1. CallFrames = Append(frames, Suspended) /\ IrDepth = Depth
    BY <1>5 DEF CallFrames, IrDepth
  <2>2. Suspended \in Frame
    BY DEF Suspended, Frame, RInv, IInv, TypeOK
  <2>3. Len(CallFrames) = Depth + 1 /\ \A k \in 1 .. Depth : CallFrames[k] = frames[k]
    BY <1>2, <2>1, <2>2, AppendProperties
  <2> QED BY <1>1, <1>2, <1>3, <2>1, <2>3
<1> QED BY <1>4, <1>5

\* The first ARG suspends the caller, every ARG appends an argument.
LEMMA ArgRefines ==
  ASSUME RInv, NEW op \in Operands, Arg(op)
  PROVE  Ir!Arg(op)
<1> DEFINE v == Value(op, data, CallStack)
<1>1. /\ ctl \in {"code", "incall"} /\ CallSp >= 1 /\ Readable(op)
      /\ stack' = [CallStack EXCEPT ![CallSp - 1] = v]
      /\ ctl' = "incall" /\ frames' = CallFrames /\ args' = Append(args, v)
      /\ UNCHANGED <<data, v0, live>>
  BY DEF Arg
<1>2. CallSp \in Nat
  BY <1>1, Constants DEF RInv, IInv, TypeOK, CallSp, SaveSize, Assumptions
<1>3. v = Eval(op)
  <2>1. op.kind = "Deref" => data[op.var] \in live
    BY <1>1 DEF Readable, InBounds
  <2>2. op.kind = "Deref" => CallStack[data[op.var]] = stack[data[op.var]]
    BY <1>1, <1>2, <2>1, Suspending
  <2> QED BY <2>2 DEF Eval, Value
<1>4. Ir!Readable(op) /\ Ir!Eval(op) = v
  BY <1>1, <1>3, SameValue
<1>5. Mem' = Mem
  <2>1. \A a \in live : a # CallSp - 1 /\ a \in Addr /\ CallStack[a] = stack[a]
    <3>1. \A a \in live : a \in Addr /\ a >= CallSp /\ CallStack[a] = stack[a]
      BY <1>1, <1>2, Suspending
    <3> QED BY <1>2, <3>1 DEF Addr
  <2>2. CallStack \in [Addr -> Int]
    BY <1>1, <1>2, Suspending
  <2>3. \A a \in live : stack'[a] = stack[a]
    BY <1>1, <2>1, <2>2
  <2> QED BY <1>1, <2>3 DEF Mem
<1>6. IrStack' = IrStack
  <2>1. /\ IrDepth \in Nat /\ Len(CallFrames) = IrDepth + 1
        /\ \A k \in 1 .. IrDepth : CallFrames[k] = frames[k]
    BY <1>1, <1>2, Suspending
  <2>2. IrDepth' = IrDepth
    BY <1>1, <2>1 DEF IrDepth, Depth
  <2>3. \A k \in 1 .. IrDepth : IrFrame(k)' = IrFrame(k)
    BY <1>1, <2>1 DEF IrFrame
  <2> QED BY <2>2, <2>3 DEF IrStack
<1>7. IrResult' = IrResult
  BY <1>1 DEF IrResult
<1> HIDE DEF v
<1> QED
  BY <1>1, <1>4, <1>5, <1>6, <1>7
  DEF Ir!Arg, Mem, IrStack, IrDepth, IrFrame, IrResult

\* CALL suspends the caller, unless an ARG has, and enters the callee.
LEMMA CallRefines ==
  ASSUME RInv, NEW site \in Sites, Call(site)
  PROVE  Ir!Call(site)
<1> DEFINE d == Len(CallFrames)
           new == [env |-> data, live |-> live, site |-> site]
<1>1. /\ ctl \in {"code", "incall"} /\ CallSp >= 0
      /\ stack' = CallStack
      /\ ctl' = IF args = << >> THEN "code" ELSE "entry"
      /\ frames' = [CallFrames EXCEPT ![d].site = site]
      /\ UNCHANGED <<data, v0, live, args>>
  BY DEF Call
<1>2. CallSp \in Nat
  BY <1>1, Constants DEF RInv, IInv, TypeOK, CallSp, SaveSize, Assumptions
<1>3. /\ IrDepth \in Nat /\ d = IrDepth + 1
      /\ \A k \in 1 .. IrDepth : CallFrames[k] = frames[k]
      /\ CallFrames[d].env = data /\ CallFrames[d].live = live
      /\ CallFrames \in Seq(Frame)
      /\ \A a \in live : CallStack[a] = stack[a]
  BY <1>1, <1>2, Suspending
<1>4. Mem' = Mem
  BY <1>1, <1>3 DEF Mem
<1>5. new \in Ir!Frame
  BY DEF RInv, IInv, TypeOK, Ir!Frame, Ir!Vars, Vars
<1>6. IrStack' = Append(IrStack, new)
  <2>1. CallFrames[d] \in Frame /\ d \in 1 .. d
    BY <1>3
  <2> DEFINE called == [CallFrames[d] EXCEPT !.site = site]
  <2>2. called \in Frame /\ called.env = data /\ called.live = live /\ called.site = site
    BY <1>3, <2>1 DEF Frame
  <2>3. frames' = [CallFrames EXCEPT ![d] = called]
    BY <1>1
  <2> HIDE DEF called
  <2>4. /\ Len(frames') = d
        /\ \A k \in 1 .. d : frames'[k] = IF k = d THEN called ELSE CallFrames[k]
    BY <1>3, <2>1, <2>2, <2>3, ExceptSeq
  <2>5. IrDepth' = d
    BY <1>1, <2>4 DEF IrDepth, Depth
  <2>6. \A k \in 1 .. d : IrFrame(k)' = IF k = d THEN new ELSE IrFrame(k)
    <3> SUFFICES ASSUME NEW k \in 1 .. d
                 PROVE  IrFrame(k)' = IF k = d THEN new ELSE IrFrame(k)
      OBVIOUS
    <3>1. CASE k = d
      <4>1. frames'[k] = called
        BY <2>4, <3>1
      <4> QED BY <2>2, <3>1, <4>1 DEF IrFrame
    <3>2. CASE k # d
      <4>1. frames'[k] = frames[k]
        BY <1>3, <2>4, <3>2
      <4> QED BY <3>2, <4>1 DEF IrFrame
    <3> QED BY <3>1, <3>2
  <2>7. /\ IrStack \in Seq(Ir!Frame) /\ Len(IrStack) = IrDepth
        /\ \A k \in 1 .. IrDepth : IrStack[k] = IrFrame(k) /\ IrFrame(k) \in Ir!Frame
    BY IrStackIsSeq
  <2> HIDE DEF d, new
  <2>8. /\ IrStack' = [k \in 1 .. d |-> IrFrame(k)']
        /\ \A k \in 1 .. d : IrFrame(k)' \in Ir!Frame
    BY <1>3, <1>5, <2>5, <2>6, <2>7 DEF IrStack
  <2>9. /\ IrStack' \in Seq(Ir!Frame) /\ Len(IrStack') = d
        /\ \A k \in 1 .. d : IrStack'[k] = IF k = d THEN new ELSE IrFrame(k)
    <3>1. d \in Nat /\ IrStack' \in [1 .. d -> Ir!Frame]
      BY <1>3, <2>8
    <3> QED BY <2>6, <2>8, <3>1
  <2>10. /\ Append(IrStack, new) \in Seq(Ir!Frame)
         /\ Len(Append(IrStack, new)) = d
         /\ \A k \in 1 .. d :
              Append(IrStack, new)[k] = IF k = d THEN new ELSE IrFrame(k)
    <3>1. /\ Append(IrStack, new) \in Seq(Ir!Frame)
          /\ Len(Append(IrStack, new)) = IrDepth + 1
          /\ \A k \in 1 .. IrDepth : Append(IrStack, new)[k] = IrStack[k]
          /\ Append(IrStack, new)[IrDepth + 1] = new
      BY <1>5, <2>7, AppendProperties
    <3> QED BY <1>3, <2>7, <3>1
  <2> QED BY <2>9, <2>10, SeqEqual
<1>7. IrResult' = IrResult
  BY <1>1 DEF IrResult
<1>8. data' \in [Ir!Vars -> Int]
  BY <1>1 DEF RInv, IInv, TypeOK, Ir!Vars, Vars
<1> QED
  BY <1>1, <1>4, <1>6, <1>7, <1>8
  DEF Ir!Call, Mem, IrStack, IrDepth, IrFrame, IrResult

\* PARAM takes the argument that was passed last.
LEMMA ParamRefines ==
  ASSUME RInv, NEW x \in Vars, Param(x)
  PROVE  Ir!Param(x)
<1>1. /\ ctl = "entry" /\ data' = [data EXCEPT ![x] = stack[sp]]
      /\ args' = SubSeq(args, 1, Len(args) - 1)
      /\ ctl' = IF Len(args) = 1 THEN "code" ELSE "entry"
      /\ UNCHANGED <<stack, v0, frames, live>>
  BY DEF Param
<1>2. stack[sp] = args[Len(args)] /\ (args' = << >> <=> Len(args) = 1)
  BY ParamKeepsArgs
<1>3. Mem' = Mem /\ IrResult' = IrResult
  BY <1>1 DEF Mem, IrResult
<1>4. IrStack' = IrStack
  BY <1>1 DEF IrStack, IrDepth, IrFrame, Depth
<1> QED
  BY <1>1, <1>2, <1>3, <1>4
  DEF Ir!Param, Mem, IrStack, IrDepth, IrFrame, IrResult

\* RETURN drops the blocks of the activation.
LEMMA ReturnRefines ==
  ASSUME RInv, NEW op \in Operands, Return(op)
  PROVE  Ir!Return(op)
<1>1. /\ ctl = "code" /\ Readable(op) /\ v0' = Eval(op)
      /\ ctl' = IF ra = Halt THEN "halted"
                ELSE IF ra \in Sites THEN "returned" ELSE "lost"
      /\ UNCHANGED <<data, stack, frames, live, args>>
  BY DEF Return
<1>2. Ir!Readable(op) /\ Ir!Eval(op) = Eval(op)
  BY <1>1, SameValue
<1>3. /\ IrDepth = Depth /\ Depth \in Nat
      /\ IrStack = << >> <=> Depth = 0
  BY <1>1, IrStackIsSeq DEF IrDepth
<1>4. ctl' = IF IrStack = << >> THEN "halted" ELSE "returned"
  <2>1. CASE Depth = 0
    <3>1. ra = Halt
      BY <1>1, <2>1 DEF RInv, IInv, StackLayout
    <3> QED BY <1>1, <1>3, <2>1, <3>1
  <2>2. CASE Depth # 0
    <3>1. ra = Top.site /\ Top.site \in Sites
      BY <1>1, <1>3, <2>2 DEF RInv, IInv, StackLayout, Top, Depth
    <3>2. ra # Halt
      BY <3>1, Constants DEF Assumptions
    <3> QED BY <1>1, <1>3, <2>2, <3>1, <3>2
  <2> QED BY <2>1, <2>2
<1>5. IrStack' = IrStack
  BY <1>1, <1>4, SameIrStack
<1>6. Mem' = Mem /\ IrResult' = Eval(op)
  BY <1>1, <1>4 DEF Mem, IrResult
<1> QED
  BY <1>1, <1>2, <1>4, <1>5, <1>6
  DEF Ir!Return, Mem, IrStack, IrDepth, IrFrame, IrResult

\* Back in the caller, whose variables have been popped.
LEMMA LandRefines ==
  ASSUME NumVars < TempRegs, RInv, Land
  PROVE  Ir!Resume
<1> DEFINE n == Depth - 1
<1>1. /\ ctl = "returned" /\ ctl' = "code" /\ live' = Top.live
      /\ data' = WithResult
      /\ frames' = SubSeq(frames, 1, n)
      /\ UNCHANGED <<stack, v0, args>>
  BY DEF Land, Resume, Depth
<1>2. /\ frames # << >> /\ frames \in Seq(Frame) /\ ra = Top.site
      /\ IrDepth = Depth /\ Depth = Len(frames)
  BY <1>1 DEF RInv, ReturnsHome, IInv, TypeOK, IrDepth, Depth
<1>3. /\ Depth \in Nat \ {0} /\ n \in Nat /\ Depth \in 1 .. Depth
      /\ Top = frames[Depth]
  BY <1>2, EmptySeq DEF Top
<1>4. Ir!Top = IrFrame(Depth)
  <2>1. IrStack[Len(IrStack)] = IrFrame(Depth)
    BY <1>2, <1>3, IrStackIsSeq
  <2> QED BY <2>1 DEF Ir!Top, IrStack, IrDepth, IrFrame
<1>5. /\ Ir!Top.env = Top.env /\ Ir!Top.live = Top.live /\ Ir!Top.site = Top.site
  BY <1>3, <1>4 DEF IrFrame
<1>6. data' = [Top.env EXCEPT ![ResultOf[Top.site]] = v0]
  <2>1. Top.env \in [Vars -> Int]
    <3>1. Top \in Frame
      BY <1>2, <1>3
    <3> QED BY <3>1 DEF Frame
  <2>2. \A x \in Vars \ {ResultOf[ra]} : data'[x] = Top.env[x]
    BY GivesBack DEF RInv
  <2>3. ResultOf[ra] \in Vars
    <3>1. Top.site \in Sites
      BY <1>1, <1>3 DEF RInv, IInv, StackLayout
    <3> QED BY <1>2, <3>1, Constants DEF Assumptions
  <2>4. data' = [[y \in Vars |-> Restored(y)] EXCEPT ![ResultOf[ra]] = v0]
    BY <1>1 DEF WithResult, LoadedVars
  <2>5. data'[ResultOf[ra]] = v0 /\ DOMAIN data' = Vars
    BY <2>3, <2>4
  <2>6. \A x \in Vars : data'[x] = IF x = ResultOf[ra] THEN v0 ELSE Top.env[x]
    BY <2>2, <2>5
  <2>7. data' = [x \in Vars |-> data'[x]]
    BY <2>4
  <2> QED BY <1>2, <2>1, <2>3, <2>6, <2>7
<1>7. Mem' = [a \in Top.live |-> Mem[a]]
  <2>1. Top.live \subseteq live
    BY <1>3 DEF RInv, IInv, StackLayout
  <2>2. \A a \in Top.live : Mem[a] = stack[a]
    BY <2>1 DEF Mem
  <2> QED BY <1>1, <2>2 DEF Mem
<1>8. IrStack' = SubSeq(IrStack, 1, n)
  <2>1. /\ IrStack \in Seq(Ir!Frame) /\ Len(IrStack) = Depth
        /\ \A k \in 1 .. Depth : IrStack[k] = IrFrame(k) /\ IrFrame(k) \in Ir!Frame
    BY <1>2, IrStackIsSeq
  <2>2. \A k \in 1 .. n : frames[k] \in Frame /\ k \in 1 .. Depth
    BY <1>2, <1>3, ElementOfSeq
  <2> HIDE DEF n
  <2>3. Len(frames') = n /\ \A k \in 1 .. n : frames'[k] = frames[k]
    BY <1>1, <1>3, <2>2, SubSeqProperties
  <2>4. IrDepth' = n /\ \A k \in 1 .. n : IrFrame(k)' = IrFrame(k)
    BY <1>1, <2>3 DEF IrDepth, Depth, IrFrame
  <2>5. IrStack' = [k \in 1 .. n |-> IrFrame(k)]
    BY <2>4 DEF IrStack
  <2>6. /\ IrStack' \in Seq(Ir!Frame) /\ Len(IrStack') = n
        /\ \A k \in 1 .. n : IrStack'[k] = IrFrame(k)
    <3>1. n \in Nat /\ IrStack' \in [1 .. n -> Ir!Frame]
      BY <1>3, <2>1, <2>2, <2>5
    <3> QED BY <2>5, <3>1
  <2>7. /\ SubSeq(IrStack, 1, n) \in Seq(Ir!Frame) /\ Len(SubSeq(IrStack, 1, n)) = n
        /\ \A k \in 1 .. n : SubSeq(IrStack, 1, n)[k] = IrFrame(k)
    <3>1. \A k \in 1 .. n : IrStack[k] \in Ir!Frame /\ IrStack[k] = IrFrame(k)
      BY <2>1, <2>2
    <3> QED BY <1>3, <3>1, SubSeqProperties
  <2> QED BY <2>6, <2>7, SeqEqual
<1>9. IrStack' = SubSeq(IrStack, 1, Len(IrStack) - 1)
  BY <1>2, <1>8, IrStackIsSeq
<1>10. IrResult = v0 /\ IrResult' = Ir!None
  BY <1>1 DEF IrResult, Ir!None
<1> QED
  BY <1>1, <1>5, <1>6, <1>7, <1>9, <1>10
  DEF Ir!Resume, Mem, IrStack, IrDepth, IrFrame, IrResult

-----------------------------------------------------------------------------
(* The refinement. *)

\* Every step of Calls is a step of IrFrames, or none at all.
LEMMA StepRefines ==
  ASSUME NumVars < TempRegs, RInv, [Next]_vars
  PROVE  [Ir!Next]_(Ir!vars)
<1>1. CASE Land
  BY <1>1, LandRefines DEF Ir!Next
<1>2. CASE Done \/ UNCHANGED vars
  <2>1. UNCHANGED vars
    BY <1>2 DEF Done
  <2> QED BY <2>1 DEF vars, Ir!vars, Depth
<1>3. ASSUME NEW c \in Program, Execute(c) PROVE Ir!Execute(c)
  <2> USE DEF Ir!Execute, Ir!ArithKinds, ArithKinds
  <2>1. CASE c.op = "Assign" /\ Assign(c.left, c.right)
    BY <2>1, CodeFields, AssignRefines
  <2>2. CASE c.op \in ArithKinds /\ BinOp(c.op, c.target, c.op1, c.op2)
    BY <2>2, CodeFields, BinOpRefines
  <2>3. CASE c.op = "Return" /\ Return(c.ret)
    BY <2>3, CodeFields, ReturnRefines
  <2>4. CASE c.op = "Dec" /\ Dec(c.var, c.size)
    BY <2>4, CodeFields, DecRefines
  <2>5. CASE c.op = "Arg" /\ Arg(c.arg)
    BY <2>5, CodeFields, ArgRefines
  <2>6. CASE c.op = "Call" /\ Call(c.site)
    BY <2>6, CodeFields, CallRefines
  <2>7. CASE c.op = "Param" /\ Param(c.param)
    BY <2>7, CodeFields, ParamRefines
  <2>8. CASE c.op = "Read" /\ \E i \in Inputs : Read(c.read, i)
    BY <2>8, ReadRefines
  <2>9. CASE c.op = "Write" /\ Write(c.write)
    BY <2>9, CodeFields, WriteRefines
  <2> QED
    BY <1>3, <2>1, <2>2, <2>3, <2>4, <2>5, <2>6, <2>7, <2>8, <2>9 DEF Execute
<1> QED BY <1>1, <1>2, <1>3 DEF Next, Ir!Next

\* In a program with fewer than TempRegs variables the calling convention, the
\* shared .data words and the stack of asm.c do what the IR means.
THEOREM CodeImplementsIr ==
  ASSUME NumVars < TempRegs
  PROVE  Spec => ImplementsIr
<1>1. Init => RInv /\ Ir!Init
  BY RInitially, RefinesInit
<1>2. RInv /\ [Next]_vars => RInv' /\ [Ir!Next]_(Ir!vars)
  BY RInductive, StepRefines
<1> QED BY <1>1, <1>2, PTL DEF Spec, ImplementsIr, Ir!Spec
=============================================================================
