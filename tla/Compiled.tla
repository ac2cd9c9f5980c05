------------------------------ MODULE Compiled ------------------------------
(***************************************************************************)
(* Compiled programs running: the intermediate code that Translate emits   *)
(* for a program is executed by the machine of IrMachine and compared with *)
(* what the program means.  In a build with -DOPTIMIZE the optimizer comes *)
(* in between.                                                             *)
(***************************************************************************)
EXTENDS Translate, Optimizing, IrMachine, Meaning

CONSTANT
  Programs  \* the programs: for each its functions, the order in which the
            \* source defines them, what it may be given to read, and the
            \* builds of the compiler that translate it

ASSUME ProgramsAssumption ==
  \A n \in DOMAIN Programs :
    /\ Range(Programs[n].order) = DOMAIN Programs[n].functions
    /\ "main" \in DOMAIN Programs[n].functions
    /\ Programs[n].inputs # {}
    /\ Programs[n].builds \subseteq {"default", "OPTIMIZE"}

\* The status of the machine is "optimizing" or "ready" before it starts, and
\* "panic" when there is no translation.
VARIABLES
  prog,    \* the program, by number
  sound,   \* has the optimizer only done what it may, for the properties only
  given,   \* what the program was given to read
  meaning  \* what it should write and return for each input, for the
           \* properties only

vars == <<prog, sound, given, meaning, optimizerVars, machineVars>>

-----------------------------------------------------------------------------
(* Compilation. *)

NoOptimizer == << >>

\* st is the translator at the end of the program n.
Translated(n, build, st) ==
  /\ prog = n
  /\ status = CASE ~st.ok              -> "panic"
                [] build = "default"   -> "ready"
                [] build = "OPTIMIZE"  -> "optimizing"
  /\ code = IF build = "default" THEN st.code ELSE << >>
  /\ opt = IF build = "default" THEN NoOptimizer ELSE Unoptimized(st.code, st.vars)
  /\ pass = IF build = "default" THEN "off" ELSE "DeadAssign"
  /\ meaning = [i \in Programs[n].inputs |-> MeaningOf(Programs[n].functions, i)]

Init ==
  /\ \E n \in DOMAIN Programs : \E build \in Programs[n].builds :
       Translated(n, build, ir_translate(Programs[n].order, Programs[n].functions))
  /\ last = << >> /\ at = 1 /\ round = 0 /\ sound = TRUE
  /\ given = << >> /\ inp = << >> /\ pc = 0
  /\ data = << >> /\ blocks = << >> /\ mem = << >>
  /\ frames = << >> /\ args = << >> /\ out = << >>
  /\ result = 0

Optimize ==
  /\ status = "optimizing"
  /\ OptimizerNext
  /\ sound' = opt'.sound
  /\ UNCHANGED <<prog, given, meaning, machineVars>>

OptimizeEnds ==
  /\ status = "optimizing" /\ pass = "done"
  /\ status' = "ready"
  /\ code' = ir_linearise(opt)
  /\ opt' = NoOptimizer /\ last' = << >> /\ pass' = "off"
  /\ UNCHANGED <<prog, sound, given, meaning, at, round, registers>>

Compile == Optimize \/ OptimizeEnds

-----------------------------------------------------------------------------
(* Execution. *)

\* The program starts, with something to read.
Begin ==
  /\ status = "ready"
  /\ \E i \in DOMAIN meaning :
       given' = i /\ inp' = i
  /\ pc' = BodyOf("main", code)
  /\ status' = "running"
  /\ UNCHANGED <<prog, sound, meaning, optimizerVars, code, data, blocks, mem, frames, args, out, result>>

\* A new block comes to where there is room first.
Lowest(base) == \A b \in Bases : Free(b, Here.size) => base <= b

Step ==
  /\ OtherStep \/ \E base \in Bases : RunDec(base) /\ Lowest(base)
  /\ UNCHANGED <<prog, sound, given, meaning, optimizerVars>>

\* The program is over, or it is one that the optimizer has spoilt and can
\* not go on.
Stop ==
  /\ status = "halted" \/ (status = "running" /\ ~sound /\ ~Executable)
  /\ UNCHANGED vars

Next == Compile \/ Begin \/ Step \/ Stop

\* Somebody starts the program, and the machine executes code after code for
\* as long as it can.  The optimizer needs no fairness: it does Rounds rounds
\* at most.
Spec == Init /\ [][Next]_vars /\ WF_vars(Begin \/ Step)

-----------------------------------------------------------------------------
(* Properties. *)

\* The translation did not fail an assertion, and the code does what the
\* program means: what it has written is what the program writes first, when
\* it stops it has written everything and returns what main returns, and
\* until then it can always go on (ir.c, translate_Exp, translate_Cond,
\* translate_Stmt).  This holds of optimized code as well, as long as every
\* value was put where it was still the value of the variable, and every
\* label that disappeared took all jumps to it along (optimize.c,
\* optimizeDupVar and optimizeDupLabel do not look).
ComputesMeaning ==
  /\ status # "panic"
  /\ status = "running" /\ sound => Executable /\ IsPrefix(out, meaning[given].out)
  /\ status = "halted" /\ sound => out = meaning[given].out /\ result = meaning[given].result

\* The machine gets codes as the constructors of ir.c make them.  They pass and
\* take arguments as CallsAreWhole says, and each function takes as many as it
\* has parameters (ir.c, translate_FunDec and translate_Exp, 883-909),
\* optimized or not.
CallsAreLaidOut ==
  status = "ready" =>
    /\ code \in Seq(TextCodes)
    /\ CallsAreWhole(code)
    /\ \A f \in DOMAIN Programs[prog].functions :
         \E e \in Entries(f, code) :
           ParamsAfter(code, e, Len(Programs[prog].functions[f].params))

\* A jump never leaves the function it is in, and its label is there exactly
\* once: the code between two FUNCTION codes is closed under GOTO and IF
\* (ir.c, new_label, translate_Cond and translate_Stmt).  It stays so when the
\* optimizer merges labels, unless sound says that it left a name behind.
JumpsStayInside ==
  LET Owner(i) == {f \in 1 .. i : code[f].op = "Func"}
  IN status = "running" /\ sound /\ Here.op \in {"Goto", "Branch"} =>
       LET targets == Places(Here.label, code)
       IN Cardinality(targets) = 1 /\ \A i \in targets : Owner(i) = Owner(pc)

\* What is dereferenced is an address, "offset must be a address" (ir.c, 914):
\* a variable marked isref never holds anything else.
OffsetsAreAddresses ==
  \A op \in Reads \cup (IF Here.op = "Assign" THEN {Here.left} ELSE {}) :
    op.kind = "Deref" /\ op.var \in DOMAIN data => data[op.var] \in DOMAIN blocks

\* Every program that the runs contain comes to its end once it is
\* translated (ir.c, translate_Stmt, 443-453: the jump back evaluates the
\* condition again), optimized or not.
Terminates == status = "ready" ~> (status = "halted" \/ ~sound)
=============================================================================
