----------------------------- MODULE IrOperands -----------------------------
(***************************************************************************)
(* Operands of the intermediate code (src/src/ast.h, ast.c) and the values *)
(* they, the four arithmetic codes and the six conditions denote.  The     *)
(* modules that emit or execute IR code all extend this one.               *)
(*                                                                         *)
(* A machine word is an integer.  Memory is counted in words: an offset of *)
(* 4 in the code is an offset of 1 here.                                   *)
(***************************************************************************)
EXTENDS Integers

\* irop: a variable, *variable, &variable or a constant.
Var(x) == [kind |-> "Variable", var |-> x]
Deref(x) == [kind |-> "Deref", var |-> x]
Ref(x) == [kind |-> "Ref", var |-> x]
Const(i) == [kind |-> "Constant", value |-> i]

ArithKinds == {"Add", "Sub", "Mul", "Div"}

\* The value an operand denotes when the variables hold data and the memory
\* holds mem.  DEC stores the address of its block in the variable itself,
\* so &t reads t.
Value(op, data, mem) ==
  IF op.kind = "Constant" THEN op.value
  ELSE IF op.kind = "Deref" THEN mem[data[op.var]]
  ELSE data[op.var]

Abs(a) == IF a < 0 THEN -a ELSE a

\* Division rounds towards zero, as the machine's does.
Quotient(a, b) ==
  LET q == Abs(a) \div Abs(b) IN IF (a < 0) = (b < 0) THEN q ELSE -q

Arith(kind, a, b) ==
  CASE kind = "Add" -> a + b
    [] kind = "Sub" -> a - b
    [] kind = "Mul" -> a * b
    [] kind = "Div" -> Quotient(a, b)

Relation(op, a, b) ==
  CASE op = "L"  -> a > b
    [] op = "S"  -> a < b
    [] op = "LE" -> a >= b
    [] op = "SE" -> a <= b
    [] op = "E"  -> a = b
    [] op = "NE" -> a # b
=============================================================================
