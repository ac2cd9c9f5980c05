---------------------------- MODULE MCAssembled -----------------------------
(***************************************************************************)
(* A sample of the sample programs, and programs that call functions of    *)
(* their own and have fewer than 16 variables: with more, a call may not   *)
(* give the caller its variables back (AsmCode, CallPreservesVariables).   *)
(***************************************************************************)
EXTENDS Assembled, SamplePrograms

Program(functions, order, inputs) ==
  [functions |-> functions, order |-> order, inputs |-> inputs]

MainOnly(s, inputs) == Each(LAMBDA p : Program(p, <<"main">>, inputs), s)

\* Every k-th element.
EveryNth(k, s) == [i \in 1 .. Len(s) \div k |-> s[i * k]]

\* Two arguments, and a call between the parts of an expression.
SubProgram ==
  [sub  |-> Function(<<Parameter("a", Integer), Parameter("b", Integer)>>, << >>,
                     <<Return(Calc("Sub", Id("a"), Id("b")))>>),
   main |-> Function(<< >>, << >>, <<Return(Apply("sub", <<In, Num(3)>>))>>)]

\* Recursion that needs its parameter after the call.
SumProgram ==
  [sum  |-> Function(<<Parameter("n", Integer)>>, << >>,
                     << If(Id("n"), Return(Calc("Add", Apply("sum", <<Calc("Sub", Id("n"), Num(1))>>),
                                                       Id("n")))),
                        Return(Num(0)) >>),
   main |-> Function(<< >>, << >>, <<Return(Apply("sum", <<In>>))>>)]

\* A function without parameters that reads and writes, and leaves a block.
EchoProgram ==
  [echo |-> Function(<< >>, <<Declare("b", Row)>>, <<Out(Num(7)), Return(In)>>),
   main |-> Function(<< >>, << >>, <<Return(Calc("Sub", Apply("echo", << >>), Apply("echo", << >>)))>>)]

\* A function that writes into the block of its caller.
PassProgram ==
  [put  |-> Function(<<Parameter("r", Row)>>, << >>,
                     <<Return(Set(Elem(Id("r"), 1), Num(5)))>>),
   main |-> Function(<< >>, <<Declare("a", Row)>>, <<Return(Apply("put", <<Id("a")>>))>>)]

CallPrograms ==
  << Program(SubProgram, <<"sub", "main">>, {<<5>>}),
     Program(SumProgram, <<"sum", "main">>, {<<0>>, <<3>>}),
     Program(EchoProgram, <<"echo", "main">>, {<<4, 1>>}),
     Program(PassProgram, <<"put", "main">>, {<< >>}) >>

AssembledPrograms ==
  MainOnly(DataPrograms, {<<2>>})
  \o MainOnly(LoopPrograms, {<<3, 2, 2, 0, 0>>})
  \o CallPrograms
  \o MainOnly(EveryNth(3, ValuePrograms \o CondPrograms), {<<0, 1>>, <<2, 1>>})
=============================================================================
