------------------------------- MODULE IrText -------------------------------
(***************************************************************************)
(* The codes of an intermediate program one after the other, as gen_X      *)
(* emits them (src/src/ir.c): what the translator makes, the optimizer     *)
(* changes and the machine of IrMachine executes.                          *)
(***************************************************************************)
EXTENDS IrOperands

\* gen_assign ... gen_write
Assign(left, right) == [op |-> "Assign", left |-> left, right |-> right]
BinOp(kind, t, a, b) == [op |-> kind, target |-> t, op1 |-> a, op2 |-> b]
Label(l)            == [op |-> "Label", label |-> l]
Func(f)             == [op |-> "Func", func |-> f]
Goto(l)             == [op |-> "Goto", label |-> l]
Branch(rel, a, b, l) == [op |-> "Branch", relop |-> rel, op1 |-> a, op2 |-> b, label |-> l]
Ret(a)              == [op |-> "Return", ret |-> a]
Dec(t, size)        == [op |-> "Dec", var |-> t, size |-> size]
Arg(a)              == [op |-> "Arg", arg |-> a]
Call(t, f)          == [op |-> "Call", target |-> t, func |-> f]
Param(t)            == [op |-> "Param", param |-> t]
Read(t)             == [op |-> "Read", read |-> t]
Write(a)            == [op |-> "Write", write |-> a]

VarOperands   == [kind : {"Variable"}, var : Nat]
DerefOperands == [kind : {"Deref"}, var : Nat]
RefOperands   == [kind : {"Ref"}, var : Nat]
ConstOperands == [kind : {"Constant"}, value : Int]
Operands == VarOperands \cup DerefOperands \cup RefOperands \cup ConstOperands

\* What gen_assign accepts on its left.
Targets == VarOperands \cup DerefOperands

Relops == {"L", "S", "LE", "SE", "E", "NE"}

\* Variables and labels are numbers, functions have names.
TextCodes ==
       [op : {"Assign"}, left : Targets, right : Operands]
  \cup [op : ArithKinds, target : Nat, op1 : Operands, op2 : Operands]
  \cup [op : {"Label", "Goto"}, label : Nat]
  \cup [op : {"Branch"}, relop : Relops, op1 : Operands, op2 : Operands, label : Nat]
  \cup [op : {"Func"}, func : STRING]
  \cup [op : {"Return"}, ret : Operands]
  \cup [op : {"Dec"}, var : Nat, size : Nat]
  \cup [op : {"Arg"}, arg : Operands]
  \cup [op : {"Call"}, target : Nat, func : STRING]
  \cup [op : {"Param"}, param : Nat]
  \cup [op : {"Read"}, read : Nat]
  \cup [op : {"Write"}, write : Operands]

\* The operands of a code in which a variable is used.  The target of *x := y
\* uses x; what PARAM, DEC, CALL and READ name is not used.
UsingFields(c) ==
  CASE c.op = "Assign" -> (IF c.left.kind = "Deref" THEN {"left"} ELSE {}) \cup {"right"}
    [] c.op \in ArithKinds \cup {"Branch"} -> {"op1", "op2"}
    [] c.op = "Return" -> {"ret"}
    [] c.op = "Arg"    -> {"arg"}
    [] c.op = "Write"  -> {"write"}
    [] OTHER           -> {}

FieldsUsing(c, v) == {f \in UsingFields(c) : c[f].kind # "Constant" /\ c[f].var = v}
=============================================================================
