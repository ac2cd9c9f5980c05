--------------------------- MODULE MCOptimizedRuns ---------------------------
(***************************************************************************)
(* A sample of the sample programs, before every pass of the first rounds  *)
(* as long as the optimizer is sound.                                      *)
(***************************************************************************)
EXTENDS OptimizedRuns, SamplePrograms

T == INSTANCE Translate

\* Room for three blocks.
Addresses == {1000, 1010, 1020}

Translated(order, p) ==
  LET st == T!ir_translate(order, p) IN Unoptimized(st.code, st.vars)

\* A set, so that the state is computed here and now.
RECURSIVE DupVar(_, _)
DupVar(o, i) == IF i > Len(o.code) THEN {o} ELSE DupVar(Forward(o, i), i + 1)

PassOf(k, o) ==
  CASE k = 0 -> {optimizeDeadAssign(o)}
    [] k = 1 -> {optimizeDupLabel(o)}
    [] k = 2 -> DupVar(o, 1)
    [] k = 3 -> {optimizeConstExp(o)}
    [] k = 4 -> {optimizeDupGoto(o)}

\* o, and the states after the next n passes, of which k comes first.
RECURSIVE Course(_, _, _)
Course(o, k, n) ==
  {o} \cup IF n = 0 THEN {}
           ELSE UNION {Course(p, (k + 1) % 5, n - 1) : p \in PassOf(k, o)}

SoundOnes(s) == {o \in s : o.sound}

TextsOf(order, p, n) == SoundOnes(UNION {Course(o, 0, n) : o \in {Translated(order, p)}})

\* In between the assignments that optimizeDupVar forwards.
WithForwards(s) == SoundOnes(s \cup UNION {{Forward(o, i) : i \in DOMAIN o.code} : o \in s})

\* A function that writes into the block of its caller and has one of its own,
\* and a block that nobody uses.
PutProgram ==
  [put  |-> Function(<<Parameter("r", Row), Parameter("v", Integer)>>, <<Declare("mine", Row)>>,
                     << Store(Elem(Id("mine"), 0), Id("v")),
                        Return(Set(Elem(Id("r"), 1), Elem(Id("mine"), 0))) >>),
   main |-> Function(<< >>, <<Declare("a", Row), Declare("b", Row)>>,
                     << Do(Apply("put", <<Id("a"), In>>)), Return(Elem(Id("a"), 1)) >>)]

\* Every k-th element.
EveryNth(k, s) == [i \in 1 .. Len(s) \div k |-> s[i * k]]

SmallPrograms == EveryNth(40, ValuePrograms \o CondPrograms)

SampleTexts ==
  UNION {WithForwards(TextsOf(<<"main">>, SmallPrograms[i], 10)) : i \in DOMAIN SmallPrograms}
  \cup UNION {TextsOf(<<"main">>, LoopPrograms[i], 6) : i \in DOMAIN LoopPrograms}
  \cup TextsOf(<<"main">>, LoopBlockProgram, 4)
  \cup TextsOf(<<"put", "main">>, PutProgram, 6)
  \cup TextsOf(<<"sub", "fact", "main">>, CallsProgram, 2)

SampleInputs == {<<2, 1, 1, 0, 0>>}
=============================================================================
