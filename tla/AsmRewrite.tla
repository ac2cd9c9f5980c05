----------------------------- MODULE AsmRewrite -----------------------------
(***************************************************************************)
(* The instructions that src/src/asm.c emits for each IR code.  An         *)
(* operator RewriteX is the sequence that rewrite_X prints; the registers  *)
(* it uses come from get_reg, which hands out $t0..$t7, $s0..$s7 in        *)
(* rotation and never asks whether a register is still needed.             *)
(*                                                                         *)
(* c counts the calls of get_reg so far, n is the number of IR variables   *)
(* of the program (var_count), and incall is is_incall.                    *)
(***************************************************************************)
EXTENDS IrOperands, Registers, SequencesExt

-----------------------------------------------------------------------------
(* Instructions. *)

Li(rd, imm) == <<[i |-> "li", rd |-> rd, imm |-> imm]>>
La(rd, x) == <<[i |-> "la", rd |-> rd, var |-> x]>>
Move(rd, rs) == <<[i |-> "move", rd |-> rd, rs |-> rs]>>
Addi(rd, rs, imm) == <<[i |-> "addi", rd |-> rd, rs |-> rs, imm |-> imm]>>
Lw(rd, rs) == <<[i |-> "lw", rd |-> rd, rs |-> rs]>>
Sw(rd, rs) == <<[i |-> "sw", rd |-> rd, rs |-> rs]>>
Arith3(kind, rd, rs, rt) == <<[i |-> kind, rd |-> rd, rs |-> rs, rt |-> rt]>>
Place(name) == <<[i |-> "label", label |-> name]>>
J(name) == <<[i |-> "j", label |-> name]>>
Jal(name) == <<[i |-> "jal", label |-> name]>>
Jr(rs) == <<[i |-> "jr", rs |-> rs]>>
BranchIf(relop, rs, rt, name) ==
  <<[i |-> "branch", relop |-> relop, rs |-> rs, rt |-> rt, label |-> name]>>

-----------------------------------------------------------------------------
(* What is emitted. *)

Push(r) == Addi(SP, SP, -1) \o Sw(r, SP)

\* Mutant of Pop: two words are given back.
PopTwo(r) == Lw(r, SP) \o Addi(SP, SP, 2)

Pop(r) == Lw(r, SP) \o Addi(SP, SP, 1)

PrepareVar(x, r, c) == La(Reg(c), x) \o Lw(r, Reg(c))

\* Mutant of PrepareOprand: *variable is loaded like a variable.
PrepareOprandForgetsDeref(op, r, c) ==
  CASE op.kind = "Constant" -> Li(r, op.value)
    [] OTHER                -> PrepareVar(op.var, r, c + 1)

PrepareOprand(op, r, c) ==
  CASE op.kind = "Variable" -> PrepareVar(op.var, r, c + 1)
    [] op.kind = "Constant" -> Li(r, op.value)
    [] op.kind = "Deref"    -> La(Reg(c), op.var) \o Lw(Reg(c), Reg(c))
                               \o Lw(r, Reg(c))
    [] op.kind = "Ref"      -> La(Reg(c), op.var) \o Lw(r, Reg(c))

ApplyVar(x, r, c) == La(Reg(c), x) \o Sw(r, Reg(c))

ApplyOprand(op, r, c) ==
  IF op.kind = "Variable"
  THEN ApplyVar(op.var, r, c + 1)
  ELSE La(Reg(c), op.var) \o Lw(Reg(c), Reg(c)) \o Sw(r, Reg(c))

\* How many registers preparing or applying an operand takes: prepare_oprand
\* takes one before it looks at the operand, prepare_var another.
Taken(op) == IF op.kind = "Variable" THEN 2 ELSE 1

RewriteAssign(left, right, c) ==
  PrepareOprand(right, Reg(c), c + 1)
    \o ApplyOprand(left, Reg(c), c + 1 + Taken(right))

\* Mutant of RewriteArith: the result is taken from the wrong register.
RewriteArithOffByOne(kind, x, op1, op2, c) ==
  PrepareOprand(op1, Reg(c), c + 3)
    \o PrepareOprand(op2, Reg(c + 1), c + 3 + Taken(op1))
    \o Arith3(kind, Reg(c + 2), Reg(c), Reg(c + 1))
    \o ApplyOprand(Var(x), Reg(c - 1), c + 3 + Taken(op1) + Taken(op2))

RewriteArith(kind, x, op1, op2, c) ==
  PrepareOprand(op1, Reg(c), c + 3)
    \o PrepareOprand(op2, Reg(c + 1), c + 3 + Taken(op1))
    \o Arith3(kind, Reg(c + 2), Reg(c), Reg(c + 1))
    \o ApplyOprand(Var(x), Reg(c + 2), c + 3 + Taken(op1) + Taken(op2))

RewriteBranch(relop, op1, op2, name, c) ==
  PrepareOprand(op1, Reg(c), c + 2)
    \o PrepareOprand(op2, Reg(c + 1), c + 2 + Taken(op1))
    \o BranchIf(relop, Reg(c), Reg(c + 1), name)

RewriteReturn(op, c) == PrepareOprand(op, V0, c) \o Jr(RA)

RewriteDec(x, size, c) ==
  Li(Reg(c), size) \o Arith3("Sub", SP, SP, Reg(c))
    \o ApplyOprand(Var(x), SP, c + 1)

StoreVars(n, c) ==
  FlattenSeq([x \in 1 .. n |-> PrepareVar(x, Reg(c), c + x) \o Push(Reg(c))])

\* Mutant of LoadVars: the words are popped in the order of the pushes.
LoadVarsForwards(n, c) ==
  FlattenSeq([i \in 1 .. n |-> Pop(Reg(c)) \o ApplyVar(i, Reg(c), c + i)])

LoadVars(n, c) ==
  FlattenSeq([i \in 1 .. n |->
    Pop(Reg(c)) \o ApplyVar(n + 1 - i, Reg(c), c + i)])

\* What StoreVars and LoadVars take.
LoopTakes(n) == n + 1

PrepareCall(n, incall, c) ==
  IF incall THEN << >>
  ELSE StoreVars(n, c) \o Push(RA) \o Push(FP) \o Move(FP, SP)

RewriteArg(n, incall, op, c) ==
  LET d == IF incall THEN c ELSE c + LoopTakes(n) IN
  PrepareCall(n, incall, c) \o PrepareOprand(op, Reg(d), d + 1) \o Push(Reg(d))

\* Mutant of EndCall: ra is popped before fp.
EndCallSwapsPops(n, c) == Move(SP, FP) \o Pop(RA) \o Pop(FP) \o LoadVars(n, c)

\* Mutant of EndCall: ra is left in its word.
EndCallForgetsRa(n, c) == Move(SP, FP) \o Pop(FP) \o Addi(SP, SP, 1) \o LoadVars(n, c)

EndCall(n, c) == Move(SP, FP) \o Pop(FP) \o Pop(RA) \o LoadVars(n, c)

\* After the jal of a call.
RewriteCallTail(n, x, c) ==
  LET d == c + LoopTakes(n) IN
  EndCall(n, c) \o Move(Reg(d), V0) \o ApplyOprand(Var(x), Reg(d), d + 1)

RewriteParam(x, c) == Pop(Reg(c)) \o ApplyOprand(Var(x), Reg(c), c + 1)

\* Mutant of RewriteRead: ra is not saved.
RewriteReadLosesRa(x, jal, c) == jal \o ApplyOprand(Var(x), V0, c)

\* jal is what calls the library routine.
RewriteRead(x, jal, c) == Push(RA) \o jal \o Pop(RA) \o ApplyOprand(Var(x), V0, c)

RewriteWrite(op, jal, c) ==
  PrepareOprand(op, Reg(c), c + 1) \o Move(A0, Reg(c)) \o Push(RA) \o jal \o Pop(RA)
=============================================================================
