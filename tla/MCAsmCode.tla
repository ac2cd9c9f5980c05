------------------------------ MODULE MCAsmCode ------------------------------
(***************************************************************************)
(* Small programs for AsmCode.                                             *)
(***************************************************************************)
EXTENDS AsmCode

MCSites == {101}
MCResultOf == [s \in MCSites |-> NumVars]
MCInputs == {1}
MCJunk == -99
MCWords == -1 .. 3 \cup {StackSize - 1}
AllRotations == 0 .. 15
SomeRotations == {0, 6, 15}

\* Every kind of code that stays in one activation, with every kind of
\* operand.
LocalProgram ==
  { [op |-> "Dec", var |-> 1, size |-> 1],
    [op |-> "Assign", left |-> Deref(1), right |-> Const(3)],
    [op |-> "Assign", left |-> Deref(1), right |-> Var(2)],
    [op |-> "Assign", left |-> Var(2), right |-> Ref(1)],
    [op |-> "Assign", left |-> Var(2), right |-> Const(2)],
    [op |-> "Add", target |-> 2, op1 |-> Deref(1), op2 |-> Const(1)],
    [op |-> "Sub", target |-> 2, op1 |-> Const(0), op2 |-> Const(1)],
    [op |-> "Mul", target |-> 2, op1 |-> Var(2), op2 |-> Deref(1)],
    [op |-> "Div", target |-> 2, op1 |-> Deref(1), op2 |-> Var(2)],
    [op |-> "Read", read |-> 2],
    [op |-> "Write", write |-> Deref(1)] }

\* Calls with and without arguments.
CallProgram ==
  { [op |-> "Assign", left |-> Var(1), right |-> Const(1)],
    [op |-> "Arg", arg |-> Var(1)],
    [op |-> "Call", site |-> 101],
    [op |-> "Param", param |-> 2],
    [op |-> "Return", ret |-> Var(2)] }

ASSUME JunkIsFresh
=============================================================================
