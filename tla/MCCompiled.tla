----------------------------- MODULE MCCompiled -----------------------------
(***************************************************************************)
(* The sample programs, translated by the default build and by the one     *)
(* with the optimizer.                                                     *)
(***************************************************************************)
EXTENDS Compiled, SamplePrograms

\* Addresses are told from small numbers by their size.
Addresses == 1000 .. 1040

Small == {<<0, 1>>, <<1, 1>>, <<2, 1>>, <<-3, 0>>}

Program(functions, order, inputs) ==
  [functions |-> functions, order |-> order, inputs |-> inputs, builds |-> {"default"}]

WithOptimizer(s) == Each(LAMBDA p : [p EXCEPT !.builds = {"default", "OPTIMIZE"}], s)

MainOnly(s, inputs) == Each(LAMBDA p : Program(p, <<"main">>, inputs), s)

ExpressionPrograms == MainOnly(ValuePrograms \o CondPrograms, Small)

ObjectPrograms ==
  MainOnly(DataPrograms, {<<1>>, <<4>>}) \o
  << Program(ReferenceProgram, <<"fill", "main">>, {<<2>>, <<7>>}),
     Program(CallsProgram, <<"sub", "fact", "main">>, {<<0, 3>>, <<3, 1>>}) >>

LoopsOnly == MainOnly(LoopPrograms, {<<3, 2, 2, 0, 0>>, <<1, 0, 1, 3, 0>>, <<2, 5, 0, 0, 0>>})

AllPrograms == WithOptimizer(ExpressionPrograms) \o WithOptimizer(ObjectPrograms) \o WithOptimizer(LoopsOnly)

\* An array that is initialised with another one.
ArrayInitPrograms ==
  MainOnly(<<Main(<<Declare("a", Row)>>,
                  << Store(Elem(Id("a"), 0), In), Store(Elem(Id("a"), 1), Num(5)),
                     Block(<<Initialise("b", Row, Id("a"))>>, <<Out(Elem(Id("b"), 1))>>),
                     Return(Num(0)) >>)>>,
           {<<1>>, <<2>>})

\* A negation whose value is wanted, not tested.
NotPrograms == MainOnly(<<Framed(<<Out(Not(X))>>)>>, Small)
=============================================================================
