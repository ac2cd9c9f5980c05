--------------------------- MODULE SamplePrograms ---------------------------
(***************************************************************************)
(* Programs for Compiled and Assembled: families of small ones that put    *)
(* every expression of a set into the same frame, and hand-written ones    *)
(* for calls, arrays, structures and loops.                                *)
(***************************************************************************)
EXTENDS Source

Main(decs, stmts) == [main |-> Function(<< >>, decs, stmts)]
Out(e) == Do(Apply("write", <<e>>))
In == Apply("read", << >>)

X == Id("x")
Y == Id("y")

-----------------------------------------------------------------------------
(* Expressions over two variables. *)

\* What op makes of every element, or of every pair of elements.
Each(op(_), s) == [i \in DOMAIN s |-> op(s[i])]
Pairs(op(_, _), s, t) == FlattenSeq([i \in DOMAIN s |-> [j \in DOMAIN t |-> op(s[i], t[j])]])

Leaves == <<X, Num(2)>>
Ariths == Pairs(LAMBDA l, r : Calc("Add", l, r), Leaves, Leaves)
          \o Pairs(LAMBDA l, r : Calc("Sub", l, r), Leaves, Leaves)
Compares == Each(LAMBDA r : Comp("L", X, r), <<Y, Num(1)>>)
            \o Each(LAMBDA r : Comp("NE", X, r), <<Y, Num(1)>>)

\* Sums, products, quotients, signs, conditions used as numbers, and chains
\* of assignments.
Values ==
     Pairs(LAMBDA l, r : Calc("Sub", l, Paren(r)), Leaves, Ariths)
  \o Pairs(LAMBDA l, r : Calc("Mul", Paren(r), l), Leaves, Ariths)
  \o Each(LAMBDA l : Calc("Div", Neg(Paren(l)), Num(2)), Ariths)
  \o Pairs(LAMBDA c, d : Calc("Sub", Paren(c), Paren(d)), Compares, Compares)
  \o Pairs(LAMBDA c, d : Neg(Paren(And(c, Paren(Or(d, Not(Paren(c))))))), Compares, Compares)
  \o Each(LAMBDA l : Set(Y, Calc("Sub", Paren(Set(X, l)), Y)), Leaves)

\* Conditions of two levels, with operands that tell by what they write or
\* assign whether they were evaluated.
Atoms == <<X, Comp("S", X, Y), Not(Y), Comp("E", Num(1), Paren(Set(Y, X)))>>
Ends == <<Not(X), Apply("write", <<X>>)>>
Junctions == Pairs(LAMBDA l, r : And(l, r), Atoms, Atoms) \o Pairs(LAMBDA l, r : Or(l, r), Atoms, Atoms)
Conditions ==
     Atoms
  \o Each(LAMBDA j : Not(Paren(j)), Junctions)
  \o Pairs(LAMBDA j, a : And(Paren(j), a), Junctions, Ends)
  \o Pairs(LAMBDA j, a : Or(a, Paren(j)), Junctions, Ends)

Framed(stmts) == Main(<<Initialise("x", Integer, In), Initialise("y", Integer, In)>>,
                      stmts \o <<Out(Y), Return(X)>>)

ValuePrograms == Each(LAMBDA e : Framed(<<Out(e)>>), Values)
CondPrograms ==
  Each(LAMBDA c : Framed(<<IfElse(c, Out(Num(7)), Block(<< >>, <<If(Y, Out(Num(8)))>>))>>),
       Conditions)

-----------------------------------------------------------------------------
(* Arrays, structures and calls. *)

Row == ArrayOf(Integer, <<2>>)
Matrix == ArrayOf(Integer, <<2, 3>>)
Pair == StructOf(<<Parameter("h", Integer), Parameter("row", Row), Parameter("t", Integer)>>)
TwoPairs == ArrayOf(Pair, <<2>>)

Elem(e, i) == Index(e, Num(i))
Store(place, e) == Do(Set(place, e))

\* Every element of a matrix, written and read back.
MatrixProgram ==
  Main(<<Declare("m", Matrix), Declare("i", Integer)>>,
       << Store(Id("i"), Num(0)),
          While(Comp("S", Id("i"), Num(2)),
                Block(<< >>,
                      << Store(Index(Elem(Id("m"), 0), Id("i")), Calc("Add", Id("i"), Num(1))),
                         Store(Index(Index(Id("m"), Num(1)), Calc("Add", Id("i"), Num(1))),
                               Set(Index(Elem(Id("m"), 0), Num(2)), Calc("Mul", Id("i"), Num(5)))),
                         Store(Id("i"), Calc("Add", Id("i"), Num(1))) >>)),
          Out(Elem(Elem(Id("m"), 0), 0)), Out(Elem(Elem(Id("m"), 0), 1)), Out(Elem(Elem(Id("m"), 0), 2)),
          Out(Elem(Elem(Id("m"), 1), 1)), Return(Neg(Elem(Elem(Id("m"), 1), 2))) >>)

\* Members behind members: an array of structures that hold arrays.
PairsProgram ==
  LET Second == Elem(Id("ps"), 1)
  IN Main(<<Declare("ps", TwoPairs)>>,
          << Store(Dot(Second, "h"), In), Store(Dot(Second, "t"), Num(4)),
             Store(Elem(Dot(Second, "row"), 0), Dot(Second, "h")),
             Store(Elem(Dot(Second, "row"), 1), Calc("Sub", Dot(Second, "t"), Dot(Second, "h"))),
             Store(Dot(Elem(Id("ps"), 0), "t"), Num(9)),
             Out(Elem(Dot(Second, "row"), 1)), Out(Dot(Elem(Id("ps"), 0), "t")),
             If(Comp("LE", Elem(Dot(Second, "row"), 0), Num(1)), Out(Dot(Second, "h"))),
             Return(Dot(Second, "t")) >>)

\* Arrays are copied, as far as the shorter one goes.
CopyProgram ==
  LET Three == ArrayOf(Integer, <<3>>)
  IN Main(<<Declare("a", Row), Declare("b", Three), Declare("m", Matrix)>>,
          << Store(Elem(Id("a"), 0), In), Store(Elem(Id("a"), 1), Num(5)),
             Store(Elem(Id("b"), 2), Num(6)),
             Store(Id("b"), Id("a")), Store(Elem(Id("a"), 1), Num(1)),
             Out(Elem(Id("b"), 1)), Out(Elem(Id("b"), 2)),
             Store(Elem(Id("m"), 1), Id("b")), Store(Elem(Id("b"), 0), Num(3)),
             Out(Elem(Elem(Id("m"), 1), 0)), Out(Elem(Elem(Id("m"), 1), 2)),
             Store(Id("a"), Elem(Id("m"), 1)), Out(Elem(Id("a"), 0)),
             Return(Num(0)) >>)

\* A function that changes what it is passed, in the caller's block.
ReferenceProgram ==
  [fill |-> Function(<<Parameter("r", Row), Parameter("p", Pair), Parameter("v", Integer)>>,
                     <<Declare("mine", Row)>>,
                     << Store(Elem(Id("mine"), 0), Id("v")),
                        Store(Elem(Id("r"), 1), Elem(Id("mine"), 0)),
                        Store(Elem(Dot(Id("p"), "row"), 1), Calc("Mul", Id("v"), Id("v"))),
                        Return(Elem(Id("mine"), 0)) >>),
   main |-> Function(<< >>, <<Declare("a", Row), Declare("q", Pair)>>,
                     << Store(Elem(Id("a"), 0), In),
                        Out(Apply("fill", <<Id("a"), Id("q"), Elem(Id("a"), 0)>>)),
                        Out(Elem(Id("a"), 1)),
                        Do(Apply("fill", <<Dot(Id("q"), "row"), Id("q"), Num(3)>>)),
                        Return(Elem(Dot(Id("q"), "row"), 1)) >>)]

\* Calls as arguments of calls, to functions that call themselves.
CallsProgram ==
  [sub  |-> Function(<<Parameter("a", Integer), Parameter("b", Integer)>>, << >>,
                     <<Return(Calc("Sub", Id("a"), Id("b")))>>),
   fact |-> Function(<<Parameter("n", Integer)>>, << >>,
                     << IfElse(Comp("SE", Id("n"), Num(1)), Return(Num(1)),
                          Return(Calc("Mul", Id("n"),
                                   Apply("fact", <<Apply("sub", <<Id("n"), Num(1)>>)>>)))) >>),
   main |-> Function(<< >>, <<Initialise("n", Integer, In)>>,
                     << Out(Apply("fact", <<Id("n")>>)),
                        Return(Apply("sub", << Apply("sub", <<Num(9), Id("n")>>),
                                               Calc("Sub", Apply("fact", <<Num(2)>>), In) >>)) >>)]

\* A block in the body of a loop, declared anew every time.
LoopBlockProgram ==
  Main(<<Initialise("i", Integer, In)>>,
       << While(Comp("L", Id("i"), Num(0)),
                Block(<<Declare("b", Row), Initialise("k", Integer, Num(0))>>,
                      << Store(Elem(Id("b"), 0), Id("i")),
                         Store(Elem(Id("b"), 1), Set(Id("i"), Calc("Sub", Id("i"), Num(1)))),
                         While(Comp("SE", Id("k"), Num(1)),
                               Block(<< >>, << Out(Index(Id("b"), Id("k"))),
                                               Store(Id("k"), Calc("Add", Id("k"), Num(1))) >>)) >>)),
          Return(Id("i")) >>)

DataPrograms == <<MatrixProgram, PairsProgram, CopyProgram, LoopBlockProgram>>

-----------------------------------------------------------------------------
(* Loops whose condition does the work: skipped once, it is skipped for     *)
(* ever.                                                                    *)

CountDown == Comp("L", Paren(Set(X, Calc("Sub", X, Num(1)))), Num(0))

LoopPrograms ==
  << Framed(<<While(CountDown, Store(Y, X))>>),
     Framed(<<While(Comp("NE", Paren(Set(X, In)), Num(0)), Store(Y, X))>>),
     Framed(<<While(Or(CountDown, Not(Paren(Comp("E", Paren(Set(Y, In)), Num(0))))),
                   While(Comp("L", Paren(Set(Y, Calc("Sub", Y, Num(1)))), Num(0)),
                         If(Comp("S", X, Y), Store(Y, X))))>>) >>
=============================================================================
