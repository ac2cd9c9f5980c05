----------------------------- MODULE Optimizing ------------------------------
(***************************************************************************)
(* The passes of Optimize one after the other, round after round           *)
(* (src/src/optimize.c, optimize).                                         *)
(***************************************************************************)
EXTENDS Optimize

VARIABLES
  opt,    \* the state of the optimizer
  last,   \* what the last round has left
  pass,   \* the next pass, "done" after the last one, or "off" in a build
          \* without the optimizer
  at,     \* where optimizeDupVar is
  round   \* how many times all passes have run

optimizerVars == <<opt, last, pass, at, round>>

\* The constant T of optimize().
Rounds == 100

OptimizerInit ==
  /\ WellFormed(opt) /\ opt.sound
  /\ last = << >> /\ pass = "DeadAssign" /\ at = 1 /\ round = 0

RunPass(this, next, after) ==
  /\ pass = this
  /\ opt' = after
  /\ pass' = next
  /\ UNCHANGED <<last, at, round>>

DeadAssign == RunPass("DeadAssign", "DupLabel", optimizeDeadAssign(opt))
DupLabel   == RunPass("DupLabel", "DupVar", optimizeDupLabel(opt))
ConstExp   == RunPass("ConstExp", "DupGoto", optimizeConstExp(opt))

\* One code after the other.
DupVar ==
  /\ pass = "DupVar"
  /\ IF at <= Len(opt.code)
     THEN opt' = Forward(opt, at) /\ at' = at + 1 /\ pass' = pass
     ELSE opt' = opt /\ at' = 1 /\ pass' = "ConstExp"
  /\ UNCHANGED <<last, round>>

\* What the passes change.
Text(o) == <<o.code, o.ignore, o.name>>

\* The last pass of a round.  There are Rounds rounds; once a round leaves the
\* code as it was all the others do too, and are left out.
DupGoto ==
  /\ pass = "DupGoto"
  /\ opt' = optimizeDupGoto(opt)
  /\ pass' = IF round + 1 = Rounds \/ Text(opt') = last THEN "done" ELSE "DeadAssign"
  /\ last' = Text(opt')
  /\ round' = round + 1
  /\ at' = at

OptimizerNext == DeadAssign \/ DupLabel \/ DupVar \/ ConstExp \/ DupGoto

OptimizerSpec == OptimizerInit /\ [][OptimizerNext]_optimizerVars

\* What a pass relies on the ones before it have left, as long as they were
\* sound: jumps have labels, and the counts of the last optimizeDeadAssign are
\* good for optimizeDupVar whatever it has forwarded since (optimize.c,
\* optimize).
PassesFitTogether == pass # "off" /\ opt.sound => WellFormed(opt)
=============================================================================
