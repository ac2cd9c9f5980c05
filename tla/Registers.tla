------------------------------ MODULE Registers ------------------------------
(***************************************************************************)
(* The registers of the machine that src/src/asm.c uses (reg_names).       *)
(***************************************************************************)
EXTENDS Integers

\* get_reg hands out the registers 8 to 23 in rotation.
FirstTemp == 8
LastTemp == 23
TempRegs == LastTemp - FirstTemp + 1

V0 == 2
A0 == 4
SP == 29
FP == 30
RA == 31

\* Mutant of Reg: the rotation leaves out the last register.
RegOfFifteen(c) == FirstTemp + (c % (LastTemp - FirstTemp))

\* The c-th call of get_reg.
Reg(c) == FirstTemp + (c % TempRegs)
=============================================================================
