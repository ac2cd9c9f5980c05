------------------------------- MODULE MCCalls -------------------------------
(***************************************************************************)
(* Small programs for Calls and the modules below it: two variables, two   *)
(* call sites that return into different variables.                        *)
(***************************************************************************)
EXTENDS Calls

MCSites == {101, 102}
MCResultOf == [s \in MCSites |-> s - 100]
MCInputs == {1}
MCWords == {1, 2, StackSize - 1}

Calling == { [op |-> "Arg", arg |-> Var(1)], [op |-> "Call", site |-> 101],
             [op |-> "Call", site |-> 102], [op |-> "Param", param |-> 2],
             [op |-> "Return", ret |-> Var(2)] }

\* A block that is passed down and written through.
BlockProgram == Calling \cup
  { [op |-> "Dec", var |-> 1, size |-> 1],
    [op |-> "Assign", left |-> Deref(2), right |-> Const(1)] }

\* Arithmetic on variables and input and output, around calls.
ArithProgram == Calling \cup
  { [op |-> "Assign", left |-> Var(1), right |-> Const(1)],
    [op |-> "Add", target |-> 2, op1 |-> Var(1), op2 |-> Const(1)],
    [op |-> "Read", read |-> 2],
    [op |-> "Write", write |-> Var(1)] }

MCProgram == BlockProgram \cup ArithProgram

-----------------------------------------------------------------------------
(* A run takes its codes from one of the two programs: the behaviours of     *)
(* Spec for that program, which are behaviours of Spec for MCProgram too.    *)

VARIABLE program  \* the codes of this run

MCInit == Init /\ program \in {BlockProgram, ArithProgram}

MCNext ==
  /\ Land \/ Done \/ \E c \in program : Execute(c)
  /\ UNCHANGED program

MCSpec == MCInit /\ [][MCNext]_<<vars, program>>
=============================================================================
