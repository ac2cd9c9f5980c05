------------------------------- MODULE IrCode -------------------------------
(***************************************************************************)
(* The codes of one intermediate program (src/src/ast.h): its variables,   *)
(* operands and call sites.  The modules that execute codes one at a time, *)
(* whatever the order, extend this one.                                    *)
(*                                                                         *)
(* A machine word is an integer.  Memory is counted in words: an offset of *)
(* 4 in the code is an offset of 1 here.                                   *)
(***************************************************************************)
EXTENDS IrOperands

CONSTANTS
  NumVars,   \* ast.var_count: how many variables the whole program has
  Sites,     \* the call sites: the code addresses right after each call
  ResultOf,  \* the variable that receives the result of each call site
  Program,   \* the IR codes that occur in the program
  Inputs,    \* the integers a READ may deliver
  Words      \* bound: the results of arithmetic that are explored

\* The variables t1, t2, ... in the order in which new_var created them,
\* which is the order of the array vars of asm_generate.
Vars == 1 .. NumVars

\* irop: a variable, *variable, &variable or a constant.
VarOperands == [kind : {"Variable"}, var : Vars]
DerefOperands == [kind : {"Deref"}, var : Vars]
RefOperands == [kind : {"Ref"}, var : Vars]
ConstOperands == [kind : {"Constant"}, value : Int]

Operands == VarOperands \cup DerefOperands \cup RefOperands \cup ConstOperands

\* What gen_assign accepts on its left.
Targets == VarOperands \cup DerefOperands

\* ircode: a tagged record per kind of code.  LABEL, FUNCTION, GOTO and IF
\* only choose what comes next, which the modules leave open.
Codes ==
       [op : {"Assign"}, left : Targets, right : Operands]
  \cup [op : ArithKinds, target : Vars, op1 : Operands, op2 : Operands]
  \cup [op : {"Return"}, ret : Operands]
  \cup [op : {"Dec"}, var : Vars, size : Nat]
  \cup [op : {"Arg"}, arg : Operands]
  \cup [op : {"Call"}, site : Sites]
  \cup [op : {"Param"}, param : Vars]
  \cup [op : {"Read"}, read : Vars]
  \cup [op : {"Write"}, write : Operands]

ASSUME NumVarsAssumption == NumVars \in Nat
ASSUME SitesAssumption   == Sites \subseteq Int
ASSUME ResultAssumption  == ResultOf \in [Sites -> Vars]
ASSUME ProgramAssumption == Program \subseteq Codes
ASSUME InputsAssumption  == Inputs \subseteq Int
ASSUME WordsAssumption   == Words \subseteq Int

\* A dereference stays inside a block of the program: the source language
\* has no bounds checks, and a program that leaves its arrays is outside
\* what the code generator promises anything about.
InBounds(op, data, live) == op.kind = "Deref" => data[op.var] \in live
=============================================================================
