---------------------------- MODULE OptimizedRuns ----------------------------
(***************************************************************************)
(* A program running before one pass of the optimizer, compared with the   *)
(* same program running after it.                                          *)
(*                                                                         *)
(* before and after are states of the optimizer, one pass apart.  The      *)
(* machine executes before, and every step of it is to be a step of the    *)
(* machine that executes after, or none.  The two have the codes at the    *)
(* same places, because the optimizer only marks what it drops.            *)
(***************************************************************************)
EXTENDS Optimize, IrMachine

CONSTANTS
  Texts,  \* states of the optimizer to which a pass may come
  Inputs  \* what the programs may be given to read

ASSUME TextsAssumption  == \A o \in Texts : WellFormed(o) /\ o.sound
ASSUME InputsAssumption == Inputs \subseteq Seq(Int)

VARIABLES
  before, after,  \* the states of the optimizer
  remains         \* what after leaves of the program

vars == <<before, after, remains, machineVars>>

\* What is left of a program, with the names the labels have now, in place.
Marked(o) ==
  [i \in DOMAIN o.code |->
     IF i \in o.ignore THEN [op |-> "Nothing"] ELSE Named(o, o.code[i])]

\* The passes.  optimizeDupVar is one Forward after the other.
OnePass(o) ==
  {optimizeDeadAssign(o), optimizeDupLabel(o), optimizeConstExp(o), optimizeDupGoto(o)}
  \cup {Forward(o, i) : i \in DOMAIN o.code}

Init ==
  /\ before \in Texts
  /\ after \in OnePass(before) /\ after.sound
  /\ code = Marked(before) /\ remains = Marked(after)
  /\ inp \in Inputs
  /\ MachineInit

Run == MachineNext /\ UNCHANGED <<before, after, remains>>

Stop == status = "halted" /\ UNCHANGED vars

Next == Run \/ Stop

Spec == Init /\ [][Next]_vars

-----------------------------------------------------------------------------
(* Properties. *)

\* The blocks that the program still makes after the pass.
DecVars == {remains[i].var : i \in {j \in DOMAIN remains : remains[j].op = "Dec"}}

Kept == {a \in DOMAIN blocks : blocks[a].var \in DecVars}

\* The variables that are still used.
KeptData(env) == [v \in {w \in DOMAIN env : IsUsed(w, remains)} |-> env[v]]

After ==
  INSTANCE IrMachine WITH
    code   <- remains,
    pc     <- Rest(remains, pc),
    data   <- KeptData(data),
    blocks <- [a \in Kept |-> blocks[a]],
    frames <- [i \in DOMAIN frames |-> [frames[i] EXCEPT !.data = KeptData(@)]]

\* The program after the pass does what it did before, step by step: it reads,
\* writes, passes and returns the same, dereferences what is there, and is
\* never stuck where it was not before (optimize.c).
ImplementsAfter == After!MachineSpec

\* No store goes to a block that the pass has dropped: as long as a program
\* stays inside its objects it cannot, because nothing has the address.
StoresAreKept ==
  Here.op = "Assign" /\ Here.left.kind = "Deref" /\ Here.left.var \in DOMAIN data =>
    data[Here.left.var] \notin DOMAIN blocks \ Kept
=============================================================================
