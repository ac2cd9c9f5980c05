---------------------------- MODULE TypingProofs ----------------------------
(***************************************************************************)
(* Proofs about Typing, for every scope and every number of expressions    *)
(* that wait: the analysis reports an error before it leaves a type behind *)
(* that equals all others, and what it accepts the translator gets         *)
(* through.                                                                *)
(***************************************************************************)
EXTENDS Typing, Induction

\* What is true of an expression as long as nothing was reported.  The
\* variable with an element or a member is an address whatever its type,
\* which is what an assignment to it needs.
Good(e) ==
  /\ e.tp.cls \notin {"ANY", "NEVER"}
  /\ e.supported => /\ e.value /\ e.cond
                    /\ Sized(e.tp)
                    /\ Aggregate(e.tp) => e.isref
                    /\ e.form \in {"LB", "DOT"} => e.isref

AllGood == passed => \A i \in DOMAIN stack : Good(stack[i])

IInv == TypeOK /\ AllGood

-----------------------------------------------------------------------------
(* Steps in general. *)

LEMMA OperandTyping ==
  ASSUME TypeOK, NEW n \in Nat, n <= Len(stack), NEW i \in 1 .. n
  PROVE  /\ Len(stack) - n + i \in DOMAIN stack
         /\ Operand(n, i) \in Expression
BY DEF TypeOK, Operand

LEMMA ExpressionTyping ==
  ASSUME NEW tp \in Types, NEW form \in Forms, NEW supported \in BOOLEAN,
         NEW value \in BOOLEAN, NEW isref \in BOOLEAN
  PROVE  Value(tp, form, supported, value, isref) \in Expression
BY DEF Value, Expression

\* A step that replaces operands by a good expression keeps the invariant.
LEMMA ReduceKeeps ==
  ASSUME IInv, NEW n \in Nat, n <= Len(stack),
         NEW e \in Expression, NEW error \in BOOLEAN,
         Reduce(n, e, error),
         (passed /\ ~error) => Good(e)
  PROVE  IInv'
<1>1. stack \in Seq(Expression) /\ Len(stack) \in Nat /\ MaxStack \in Nat
  BY SymbolsWellFormed DEF IInv, TypeOK, SymbolsAssumption
<1>2. /\ Rest(n) \in Seq(Expression)
      /\ Len(Rest(n)) = Len(stack) - n
      /\ \A i \in 1 .. Len(Rest(n)) : Rest(n)[i] = stack[i]
  BY <1>1 DEF Rest
<1>3. /\ stack' \in Seq(Expression)
      /\ Len(stack') = Len(stack) - n + 1
      /\ stack'[Len(stack')] = e
      /\ \A i \in 1 .. Len(stack) - n : stack'[i] = stack[i]
  BY <1>1, <1>2 DEF Reduce
<1>4. TypeOK'
  BY <1>1, <1>3 DEF TypeOK, IInv, Reduce
<1>5. ASSUME passed', NEW i \in DOMAIN stack' PROVE Good(stack'[i])
  <2>1. passed /\ ~error
    BY <1>5 DEF Reduce
  <2>2. i \in 1 .. Len(stack')
    BY <1>3, <1>5
  <2>3. CASE i = Len(stack')
    BY <1>3, <2>1, <2>3
  <2>4. CASE i # Len(stack')
    <3>1. i \in 1 .. Len(stack) - n
      BY <1>1, <1>3, <2>2, <2>4
    <3>2. i \in DOMAIN stack
      BY <1>1, <3>1
    <3> QED BY <1>3, <2>1, <3>1, <3>2 DEF IInv, AllGood
  <2> QED BY <2>3, <2>4
<1> QED BY <1>4, <1>5 DEF IInv, AllGood

LEMMA FinishKeeps ==
  ASSUME IInv, NEW error \in BOOLEAN, Finish(error)
  PROVE  IInv'
<1>1. MaxStack \in Nat
  BY SymbolsWellFormed DEF SymbolsAssumption
<1>2. TypeOK'
  BY <1>1 DEF IInv, TypeOK, Finish
<1> QED BY <1>2 DEF IInv, AllGood, Finish

LEMMA StopKeeps ==
  ASSUME IInv, NEW why \in {"assert", "panic"}, NEW error \in BOOLEAN, Stop(why, error)
  PROVE  IInv'
BY DEF IInv, TypeOK, AllGood, Stop

\* Types that the analysis takes for equal have one class, unless one of
\* them was left behind by an error.
LEMMA EqualClasses ==
  ASSUME NEW a, NEW b, type_full_eq(a, b),
         a.cls \notin {"ANY", "NEVER"}, b.cls \notin {"ANY", "NEVER"}
  PROVE  a.cls = b.cls
BY DEF type_full_eq, Equal

LEMMA MembernameTyping ==
  ASSUME NEW tp \in Types, tp.cls = "STRUCT", NEW name, MembersNamed(tp, name) # {}
  PROVE  /\ type_can_membername(tp, name) \in Types
         /\ Sized(type_can_membername(tp, name))
<1> DEFINE i == CHOOSE k \in DOMAIN tp.mems : tp.mems[k].name = name
<1>1. i \in DOMAIN tp.mems
  BY DEF MembersNamed
<1>2. tp.mems[i].tp \in Types /\ Sized(tp.mems[i].tp)
  BY <1>1, TypesWellFormed DEF TypesAssumption
<1> QED BY <1>2 DEF type_can_membername

-----------------------------------------------------------------------------
(* The steps one by one. *)

\* An operand is good, unless an error was reported before.
LEMMA OperandGood ==
  ASSUME IInv, passed, NEW n \in Nat, n <= Len(stack), NEW i \in 1 .. n
  PROVE  Good(Operand(n, i))
BY OperandTyping DEF IInv, AllGood, Operand

LEMMA LeavesKeep ==
  ASSUME IInv, Integer \/ Float \/ \E x \in Names : Name(x)
  PROVE  IInv'
<1>0. {INT, FLOAT, ANY, NEVER} \subseteq Types /\ 0 <= Len(stack)
  BY TypesWellFormed DEF TypesAssumption, IInv, TypeOK
<1>1. CASE Integer
  <2> DEFINE e == Value(INT, "OTHER", TRUE, TRUE, FALSE)
  <2>1. e \in Expression
    BY <1>0, ExpressionTyping DEF Forms
  <2>2. Good(e)
    BY DEF Good, Value, INT, Sized, Aggregate
  <2> QED BY <1>0, <1>1, <2>1, <2>2, ReduceKeeps DEF Integer
<1>2. CASE Float
  <2> DEFINE e == Value(FLOAT, "OTHER", FALSE, FALSE, FALSE)
  <2>1. e \in Expression
    BY <1>0, ExpressionTyping DEF Forms
  <2>2. Good(e)
    BY DEF Good, Value, FLOAT
  <2> QED BY <1>0, <1>2, <2>1, <2>2, ReduceKeeps DEF Float
<1>3. ASSUME NEW x \in Names, Name(x) PROVE IInv'
  <2>1. CASE x \in DOMAIN Symbols
    <3> DEFINE e == Value(Symbols[x], "ID", HasVariable(x), HasVariable(x), Aggregate(Symbols[x]))
    <3>1. Symbols[x] \in Types /\ Symbols[x].cls \notin {"ANY", "NEVER"}
      BY <2>1, SymbolsWellFormed DEF SymbolsAssumption
    <3>2. e \in Expression
      BY <3>1 DEF Forms, HasVariable, Aggregate, Sized, Value, Expression
    <3>3. Good(e)
      BY <3>1 DEF Good, Value, HasVariable
    <3>4. Reduce(0, e, FALSE)
      BY <1>3, <2>1 DEF Name
    <3> QED BY <1>0, <3>2, <3>3, <3>4, ReduceKeeps
  <2>2. CASE x \notin DOMAIN Symbols
    <3> DEFINE e == Value(NEVER, "ID", FALSE, FALSE, FALSE)
    <3>1. e \in Expression
      BY <1>0, ExpressionTyping DEF Forms
    <3>2. Reduce(0, e, TRUE)
      BY <1>3, <2>2 DEF Name
    <3> QED BY <1>0, <3>1, <3>2, ReduceKeeps
  <2> QED BY <2>1, <2>2
<1> QED BY <1>1, <1>2, <1>3

\* The one operand of a step.
LEMMA Operand1 ==
  ASSUME IInv, Ready(1)
  PROVE  /\ Operand(1, 1) \in Expression
         /\ passed => Good(Operand(1, 1))
         /\ 1 <= Len(stack)
BY OperandTyping, OperandGood DEF IInv, Ready

LEMMA UnaryKeep ==
  ASSUME IInv, Minus \/ Not \/ Parentheses
  PROVE  IInv'
<1> DEFINE e == Operand(1, 1)
<1>1. CASE Minus
  <2> DEFINE f == Value(e.tp, "OTHER", e.supported, e.value, FALSE)
  <2>1. e \in Expression /\ 1 <= Len(stack) /\ (passed => Good(e))
    BY <1>1, Operand1 DEF Minus
  <2>2. f \in Expression
    BY <2>1 DEF Expression, Forms, Value
  <2>3. (passed /\ type_can_arithmetic(e.tp)) => Good(f)
    BY <2>1 DEF Good, Value, type_can_arithmetic, Sized, Aggregate
  <2>4. Reduce(1, f, ~type_can_arithmetic(e.tp))
    BY <1>1 DEF Minus
  <2>5. type_can_arithmetic(e.tp) \in BOOLEAN
    BY DEF type_can_arithmetic
  <2> HIDE DEF f, e
  <2> QED BY <2>1, <2>2, <2>3, <2>4, <2>5, ReduceKeeps
<1>2. CASE Not
  <2> DEFINE f == [Value(e.tp, "OTHER", e.supported, TRUE, FALSE) EXCEPT !.cond = e.cond]
  <2>1. e \in Expression /\ 1 <= Len(stack) /\ (passed => Good(e))
    BY <1>2, Operand1 DEF Not
  <2>2. f \in Expression
    BY <2>1 DEF Expression, Forms, Value
  <2>3. (passed /\ type_can_logic(e.tp)) => Good(f)
    BY <2>1 DEF Good, Value, type_can_logic, INT, Sized, Aggregate
  <2>4. Reduce(1, f, ~type_can_logic(e.tp))
    BY <1>2 DEF Not
  <2>5. type_can_logic(e.tp) \in BOOLEAN
    BY DEF type_can_logic
  <2> HIDE DEF f, e
  <2> QED BY <2>1, <2>2, <2>3, <2>4, <2>5, ReduceKeeps
<1>3. CASE Parentheses
  <2> DEFINE f == [e EXCEPT !.form = "OTHER"]
  <2>1. e \in Expression /\ 1 <= Len(stack) /\ (passed => Good(e))
    BY <1>3, Operand1 DEF Parentheses
  <2>2. f \in Expression
    BY <2>1 DEF Expression, Forms
  <2>3. passed => Good(f)
    BY <2>1 DEF Good, Expression
  <2>4. Reduce(1, f, FALSE)
    BY <1>3 DEF Parentheses
  <2> HIDE DEF f, e
  <2> QED BY <2>1, <2>2, <2>3, <2>4, ReduceKeeps
<1> QED BY <1>1, <1>2, <1>3

LEMMA DotKeeps ==
  ASSUME IInv, NEW name \in MemberNames, Dot(name)
  PROVE  IInv'
<1> DEFINE e == Operand(1, 1)
<1>1. e \in Expression /\ 1 <= Len(stack) /\ (passed => Good(e))
  BY Operand1 DEF Dot
<1>2. ASSUME NEW tp \in Types PROVE Member(e, tp) \in Expression
  BY <1>1 DEF Member, Expression, Forms, Value
<1>3. CASE type_can_member(e.tp) /\ MembersNamed(e.tp, name) # {}
  <2> DEFINE tp == type_can_membername(e.tp, name)
  <2>1. e.tp \in Types /\ e.tp.cls = "STRUCT"
    BY <1>1, <1>3 DEF Expression, type_can_member
  <2>2. tp \in Types /\ Sized(tp)
    BY <1>3, <2>1, MembernameTyping
  <2>3. Reduce(1, Member(e, tp), FALSE)
    BY <1>3 DEF Dot
  <2>4. passed => Good(Member(e, tp))
    BY <1>1, <2>1, <2>2 DEF Good, Member, Value, Sized, Aggregate
  <2>5. Member(e, tp) \in Expression
    BY <1>2, <2>2
  <2> HIDE DEF e, tp
  <2> QED BY <1>1, <2>3, <2>4, <2>5, ReduceKeeps
<1>4. CASE ~(type_can_member(e.tp) /\ MembersNamed(e.tp, name) # {})
  <2>1. Reduce(1, Member(e, NEVER), TRUE)
    BY <1>4 DEF Dot
  <2>2. Member(e, NEVER) \in Expression
    BY <1>2, TypesWellFormed DEF TypesAssumption
  <2> HIDE DEF e
  <2> QED BY <1>1, <2>1, <2>2, ReduceKeeps
<1> QED BY <1>3, <1>4

\* The two operands of a step.
LEMMA Operand2 ==
  ASSUME IInv, Ready(2)
  PROVE  /\ Operand(2, 1) \in Expression
         /\ Operand(2, 2) \in Expression
         /\ passed => Good(Operand(2, 1)) /\ Good(Operand(2, 2))
         /\ 2 <= Len(stack)
BY OperandTyping, OperandGood DEF IInv, Ready

LEMMA BinaryKeep ==
  ASSUME IInv, Logic \/ Calculate
  PROVE  IInv'
<1> DEFINE l == Operand(2, 1)
           r == Operand(2, 2)
<1>0. INT \in Types
  BY TypesWellFormed DEF TypesAssumption
<1>1. CASE Logic
  <2> DEFINE fine == type_can_logic(l.tp) /\ type_can_logic(r.tp)
             e == Combined(l, r, IF fine THEN l.tp ELSE INT, l.cond /\ r.cond)
  <2>1. /\ l \in Expression /\ r \in Expression
        /\ passed => Good(l) /\ Good(r)
        /\ 2 <= Len(stack)
    BY <1>1, Operand2 DEF Logic
  <2>2. e \in Expression
    BY <1>0, <2>1 DEF Combined, Value, Expression, Forms
  <2>3. passed /\ fine => Good(e)
    BY <2>1 DEF Good, Expression, Combined, Value, type_can_logic, INT, Sized, Aggregate
  <2>4. Reduce(2, e, ~fine)
    BY <1>1 DEF Logic
  <2>5. fine \in BOOLEAN
    BY DEF type_can_logic
  <2> HIDE DEF fine, e
  <2> QED BY <2>1, <2>2, <2>3, <2>4, <2>5, ReduceKeeps
<1>2. CASE Calculate
  <2> DEFINE fine == type_can_arithmetic2(l.tp, r.tp)
             e == Combined(l, r, IF fine THEN l.tp ELSE INT, l.value /\ r.value)
  <2>1. /\ l \in Expression /\ r \in Expression
        /\ passed => Good(l) /\ Good(r)
        /\ 2 <= Len(stack)
    BY <1>2, Operand2 DEF Calculate
  <2>2. e \in Expression
    BY <1>0, <2>1 DEF Combined, Value, Expression, Forms
  <2>3. passed /\ fine => Good(e)
    BY <2>1 DEF Good, Combined, Value, type_can_arithmetic2, type_can_arithmetic, Sized, Aggregate
  <2>4. Reduce(2, e, ~fine)
    BY <1>2 DEF Calculate
  <2>5. fine \in BOOLEAN
    BY DEF type_can_arithmetic2, type_can_arithmetic
  <2> HIDE DEF fine, e
  <2> QED BY <2>1, <2>2, <2>3, <2>4, <2>5, ReduceKeeps
<1> QED BY <1>1, <1>2

LEMMA AssignKeeps ==
  ASSUME IInv, Assign
  PROVE  IInv'
<1> DEFINE l == Operand(2, 1)
           r == Operand(2, 2)
<1>0. NEVER \in Types
  BY TypesWellFormed DEF TypesAssumption
<1>1. /\ l \in Expression /\ r \in Expression
      /\ passed => Good(l) /\ Good(r)
      /\ 2 <= Len(stack)
  BY Operand2 DEF Assign
<1>2. ASSUME NEW tp \in Types PROVE Assigned(l, r, tp) \in Expression
  BY <1>1 DEF Assigned, Value, Expression, Forms, LeftValue, CanCopy
<1>3. CASE Reduce(2, Assigned(l, r, NEVER), TRUE)
  <2>1. Assigned(l, r, NEVER) \in Expression
    BY <1>0, <1>2
  <2> HIDE DEF l, r
  <2> QED BY <1>1, <1>3, <2>1, ReduceKeeps
<1>4. CASE Stop("panic", FALSE)
  BY <1>4, StopKeeps
<1>5. CASE /\ LeftValue(l)
           /\ type_full_eq(l.tp, r.tp)
           /\ Reduce(2, Assigned(l, r, l.tp), FALSE)
  <2>1. Assigned(l, r, l.tp) \in Expression
    BY <1>1, <1>2 DEF Expression
  <2>2. passed => l.tp.cls = r.tp.cls
    BY <1>1, <1>5, EqualClasses DEF Good
  <2>3. ASSUME passed, Assigned(l, r, l.tp).supported
        PROVE  /\ Assigned(l, r, l.tp).value /\ Assigned(l, r, l.tp).cond
               /\ Sized(l.tp)
               /\ Aggregate(l.tp) => Assigned(l, r, l.tp).isref
    <3>1. /\ l.supported /\ r.supported
          /\ l.tp.cls # "STRUCT"
          /\ ~(l.form = "DOT" /\ l.tp.cls = "ARRAY")
      BY <2>3 DEF Assigned, Value
    <3>2. /\ l.value /\ r.value /\ Sized(l.tp) /\ Sized(r.tp)
          /\ Aggregate(l.tp) => l.isref
          /\ Aggregate(r.tp) => r.isref
          /\ l.form \in {"LB", "DOT"} => l.isref
      BY <1>1, <2>3, <3>1 DEF Good
    <3>3. l.tp.cls \in {"META", "ARRAY"} /\ (l.form # "ID" => l.isref)
      BY <1>5, <3>1, <3>2 DEF Sized, LeftValue
    <3>4. CanCopy(l, r)
      BY <2>2, <2>3, <3>1, <3>2, <3>3 DEF CanCopy, Aggregate, Sized
    <3>5. Aggregate(l.tp) => l.tp.cls = "ARRAY"
      BY <3>3 DEF Aggregate
    <3> QED BY <1>5, <3>2, <3>3, <3>4, <3>5 DEF Assigned, Value
  <2>4. passed => Good(Assigned(l, r, l.tp))
    BY <1>1, <2>3 DEF Good, Assigned, Value
  <2> HIDE DEF l, r
  <2> QED BY <1>1, <1>5, <2>1, <2>4, ReduceKeeps
<1> QED BY <1>3, <1>4, <1>5 DEF Assign

LEMMA IndexKeeps ==
  ASSUME IInv, Index
  PROVE  IInv'
<1> DEFINE l == Operand(2, 1)
           r == Operand(2, 2)
<1>1. /\ l \in Expression /\ r \in Expression
      /\ passed => Good(l) /\ Good(r)
      /\ 2 <= Len(stack)
  BY Operand2 DEF Index
<1>2. ASSUME NEW tp \in Types PROVE Element(l, r, tp) \in Expression
  BY <1>1 DEF Element, Value, Expression, Forms, Sized
<1>3. CASE type_can_index(l.tp)
  <2> DEFINE tp == type_array_descending(l.tp)
  <2>1. l.tp \in Types /\ l.tp.cls = "ARRAY"
    BY <1>1, <1>3 DEF Expression, type_can_index
  <2>2. tp \in Types /\ Sized(tp)
    BY <2>1, TypesWellFormed DEF TypesAssumption, type_array_descending, ArrayOf, Sized
  <2>3. passed => Good(Element(l, r, tp))
    BY <1>1, <2>1, <2>2 DEF Good, Element, Value, Sized, Aggregate
  <2>4. Reduce(2, Element(l, r, tp), r.tp # INT)
    BY <1>3 DEF Index
  <2>5. Element(l, r, tp) \in Expression
    BY <1>2, <2>2
  <2> HIDE DEF l, r, tp
  <2> QED BY <1>1, <2>3, <2>4, <2>5, ReduceKeeps
<1>4. CASE Stop("assert", TRUE)
  BY <1>4, StopKeeps
<1>5. CASE Reduce(2, Element(l, r, ANY), TRUE)
  <2>1. Element(l, r, ANY) \in Expression
    BY <1>2, TypesWellFormed DEF TypesAssumption
  <2> HIDE DEF l, r
  <2> QED BY <1>1, <1>5, <2>1, ReduceKeeps
<1> QED BY <1>3, <1>4, <1>5 DEF Index

\* The result of a call that was accepted: the translator got one argument
\* for each parameter, as an address where the parameter is an aggregate.
LEMMA CalledGood ==
  ASSUME IInv, passed, NEW n \in Nat, n <= Len(stack), NEW f \in DOMAIN Symbols,
         Symbols[f].cls = "FUNC", Matches(n, Symbols[f].args)
  PROVE  Good(Called(n, f, Symbols[f].ret))
<1> DEFINE args == Symbols[f].args
           ret  == Symbols[f].ret
<1>1. /\ args \in Seq(Types) /\ ret \in Types /\ Sized(ret)
      /\ \A i \in 1 .. Len(args) : Sized(args[i])
  BY SymbolsWellFormed, TypesWellFormed DEF SymbolsAssumption, TypesAssumption
<1>2. \A i \in 1 .. n : Good(Operand(n, i))
  BY OperandGood
<1>3. n = Len(args) /\ \A i \in 1 .. n : type_full_eq(Operand(n, i).tp, args[i])
  BY DEF Matches
<1>4. ASSUME NEW i \in 1 .. n, Operand(n, i).supported, Aggregate(args[i])
      PROVE  Operand(n, i).isref
  <2>1. Operand(n, i).tp.cls = args[i].cls
    BY <1>1, <1>2, <1>3, EqualClasses DEF Good, Sized
  <2> QED BY <1>2, <1>4, <2>1 DEF Good, Aggregate
<1>5. ASSUME \A i \in 1 .. n : Operand(n, i).supported
      PROVE  CanPass(n, f)
  <2>1. CASE f \in {"read", "write"}
    <3>1. args = IF f = "read" THEN << >> ELSE <<INT>>
      BY <2>1, SymbolsWellFormed DEF SymbolsAssumption
    <3>2. f = "read" => n = 0
      BY <1>3, <3>1
    <3>3. f = "write" => n > 0
      BY <1>3, <3>1
    <3> QED BY <2>1, <3>2, <3>3 DEF CanPass
  <2>2. CASE f \notin {"read", "write"}
    <3>1. \A i \in 1 .. n : n - Len(args) + i = i
      BY <1>1, <1>3
    <3>2. DOMAIN args = 1 .. n
      BY <1>1, <1>3
    <3>3. \A i \in DOMAIN args : Aggregate(args[i]) => Operand(n, n - Len(args) + i).isref
      BY <1>4, <1>5, <3>1, <3>2
    <3>4. n >= Len(args)
      BY <1>3
    <3> QED BY <2>2, <3>3, <3>4 DEF CanPass
  <2> QED BY <2>1, <2>2
<1>6. ASSUME Called(n, f, ret).supported
      PROVE  Called(n, f, ret).value /\ ret.cls = "META"
  <2>1. ret.cls = "META" /\ \A i \in 1 .. n : Operand(n, i).supported
    BY <1>6 DEF Called, Value
  <2>2. \A i \in 1 .. n : Operand(n, i).value
    BY <1>2, <2>1 DEF Good
  <2> QED BY <1>5, <2>1, <2>2 DEF Called, Value
<1>7. /\ Called(n, f, ret).tp = ret
      /\ Called(n, f, ret).form = "OTHER"
      /\ Called(n, f, ret).cond = Called(n, f, ret).value
  BY DEF Called, Value
<1> QED BY <1>1, <1>6, <1>7 DEF Good, Sized, Aggregate

LEMMA CallKeeps ==
  ASSUME IInv, NEW f \in Names, NEW n \in 0 .. MaxStack, Call(f, n)
  PROVE  IInv'
<1>1. n \in Nat /\ n <= Len(stack)
  BY SymbolsWellFormed DEF SymbolsAssumption, Call, Ready
<1>2. ASSUME NEW tp \in Types PROVE Called(n, f, tp) \in Expression
  <2>1. \A i \in 1 .. n : Operand(n, i) \in Expression
    BY <1>1, OperandTyping DEF IInv
  <2> QED BY <2>1 DEF Called, Value, Expression, Forms
<1>3. CASE f \in DOMAIN Symbols /\ type_can_call(Symbols[f])
  <2> DEFINE e == Called(n, f, Symbols[f].ret)
             error == ~Matches(n, Symbols[f].args)
  <2>1. Symbols[f].cls = "FUNC" /\ Symbols[f].ret \in Types
    BY <1>3, SymbolsWellFormed, TypesWellFormed
       DEF SymbolsAssumption, TypesAssumption, type_can_call
  <2>2. e \in Expression
    BY <1>2, <2>1
  <2>3. passed /\ ~error => Good(e)
    BY <1>1, <1>3, <2>1, CalledGood
  <2>4. Reduce(n, e, error)
    BY <1>3 DEF Call
  <2>5. error \in BOOLEAN
    OBVIOUS
  <2> HIDE DEF e, error
  <2> QED BY <1>1, <2>2, <2>3, <2>4, <2>5, ReduceKeeps
<1>4. CASE ~(f \in DOMAIN Symbols /\ type_can_call(Symbols[f]))
  <2>1. Reduce(n, Called(n, f, NEVER), TRUE)
    BY <1>4 DEF Call
  <2>2. Called(n, f, NEVER) \in Expression
    BY <1>2, TypesWellFormed DEF TypesAssumption
  <2> QED BY <1>1, <2>1, <2>2, ReduceKeeps
<1> QED BY <1>3, <1>4

LEMMA StatementKeeps ==
  ASSUME IInv, Statement
  PROVE  IInv'
<1>1. CASE Discard
  BY <1>1, FinishKeeps DEF Discard
<1>2. CASE Test
  BY <1>2, FinishKeeps DEF Test
<1>3. CASE \E tp \in VarTypes : GiveTo(tp)
  BY <1>3, FinishKeeps DEF GiveTo
<1> QED BY <1>1, <1>2, <1>3 DEF Statement

-----------------------------------------------------------------------------
(* The results. *)

LEMMA InitHolds == ASSUME Init PROVE IInv
BY SymbolsWellFormed DEF Init, IInv, TypeOK, AllGood, SymbolsAssumption

LEMMA NextKeeps ==
  ASSUME IInv, [Next]_vars
  PROVE  IInv'
<1>1. CASE Integer \/ Float \/ \E x \in Names : Name(x)
  BY <1>1, LeavesKeep
<1>2. CASE Minus \/ Not \/ Parentheses
  BY <1>2, UnaryKeep
<1>3. CASE \E name \in MemberNames : Dot(name)
  BY <1>3, DotKeeps
<1>4. CASE Logic \/ Calculate
  BY <1>4, BinaryKeep
<1>5. CASE Assign
  BY <1>5, AssignKeeps
<1>6. CASE Index
  BY <1>6, IndexKeeps
<1>7. CASE \E f \in Names, n \in 0 .. MaxStack : Call(f, n)
  BY <1>7, CallKeeps
<1>8. CASE Statement
  BY <1>8, StatementKeeps
<1>9. CASE UNCHANGED vars
  BY <1>9 DEF IInv, TypeOK, AllGood, vars
<1> QED BY <1>1, <1>2, <1>3, <1>4, <1>5, <1>6, <1>7, <1>8, <1>9 DEF Next

\* In every scope and at every step of the analysis the invariant holds.
THEOREM Invariance == Spec => []IInv
<1>1. Init => IInv
  BY InitHolds
<1>2. IInv /\ [Next]_vars => IInv'
  BY NextKeeps
<1> QED BY <1>1, <1>2, PTL DEF Spec

\* The stack of analysed expressions, the verdict and the reason of a stop
\* keep their types.
THEOREM TypeCorrect == Spec => []TypeOK
<1>1. IInv => TypeOK
  BY DEF IInv
<1> QED BY <1>1, Invariance, PTL

\* As long as no error was reported, no expression has a type that equals
\* every other type, so that no later check is silenced.
THEOREM ReportsErrors == Spec => []ErrorsAreReported
<1>1. IInv => ErrorsAreReported
  BY DEF IInv, AllGood, Good, ErrorsAreReported
<1> QED BY <1>1, Invariance, PTL

\* What the analysis accepts, the translator gets through, apart from the
\* constructs it does not support.
THEOREM TranslatesAccepted == Spec => []AcceptedIsTranslated
<1>1. IInv => AcceptedIsTranslated
  BY DEF IInv, AllGood, Good, AcceptedIsTranslated
<1> QED BY <1>1, Invariance, PTL

\* A step that goes on does so from a running analysis, and only an
\* assignment or an index stops it.
LEMMA NextStops ==
  ASSUME TypeOK, Next
  PROVE  \/ stopped' = "no"
         \/ stopped' = "assert" /\ ~passed'
         \/ stopped' = "panic" /\ \E i, j \in DOMAIN stack' : Incomparable(stack'[i].tp, stack'[j].tp)
<1>1. CASE Integer \/ Float \/ \E x \in Names : Name(x)
  BY <1>1 DEF Integer, Float, Name, Ready, Reduce
<1>2. CASE Minus \/ Not \/ Parentheses \/ \E name \in MemberNames : Dot(name)
  BY <1>2 DEF Minus, Not, Parentheses, Dot, Ready, Reduce
<1>3. CASE Logic \/ Calculate
  BY <1>3 DEF Logic, Calculate, Ready, Reduce
<1>4. CASE Assign
  <2>1. CASE Stop("panic", FALSE) /\ Incomparable(Operand(2, 1).tp, Operand(2, 2).tp)
    <3>1. Len(stack) - 2 + 1 \in DOMAIN stack /\ Len(stack) - 2 + 2 \in DOMAIN stack
      BY <1>4, OperandTyping DEF Assign, Ready
    <3> QED BY <2>1, <3>1 DEF Stop, Operand
  <2>2. CASE stopped' = stopped
    BY <1>4, <2>2 DEF Assign, Ready
  <2> QED BY <1>4, <2>1, <2>2 DEF Assign, Reduce
<1>5. CASE Index
  BY <1>5 DEF Index, Ready, Reduce, Stop
<1>6. CASE \E f \in Names, n \in 0 .. MaxStack : Call(f, n)
  BY <1>6 DEF Call, Ready, Reduce
<1>7. CASE Statement
  BY <1>7 DEF Statement, Discard, Test, GiveTo, Alone, Ready, Finish
<1> QED BY <1>1, <1>2, <1>3, <1>4, <1>5, <1>6, <1>7 DEF Next

\* The analysis stops in the middle only after a report, or where two tags
\* are assigned to each other.
THEOREM ExplainsStops == Spec => []StopsAreExplained
<1>1. Init => StopsAreExplained
  BY DEF Init, StopsAreExplained
<1>2. StopsAreExplained /\ TypeOK /\ [Next]_vars => StopsAreExplained'
  BY NextStops DEF StopsAreExplained, vars
<1> QED BY <1>1, <1>2, TypeCorrect, PTL DEF Spec
-----------------------------------------------------------------------------
(* Equality of types and their sizes, for types that are built up from     *)
(* others.                                                                 *)

SizedTypes == {t \in Types : Sized(t)}

\* What types are built from.
LEMMA PartsOfTypes ==
  ASSUME NEW tp \in Types
  PROVE  /\ tp.cls = "ARRAY" =>
              /\ Len(tp.lens) \in Nat /\ tp.lens \in [1 .. Len(tp.lens) -> Int]
              /\ tp.base \in SizedTypes /\ tp.base.cls \in {"META", "STRUCT"}
         /\ tp.cls = "STRUCT" =>
              /\ Len(tp.mems) \in Nat /\ DOMAIN tp.mems = 1 .. Len(tp.mems)
              /\ \A i \in DOMAIN tp.mems : tp.mems[i].tp \in SizedTypes
         /\ tp.cls = "FUNC" =>
              /\ Len(tp.args) \in Nat /\ DOMAIN tp.args = 1 .. Len(tp.args)
              /\ \A i \in DOMAIN tp.args : tp.args[i] \in Types
              /\ tp.ret \in Types
<1>1. CASE tp.cls = "ARRAY"
  <2>1. tp.lens \in Seq(Int) /\ tp.base \in Types /\ tp.base.cls \in {"META", "STRUCT"}
    BY <1>1, TypesWellFormed DEF TypesAssumption
  <2> QED BY <1>1, <2>1 DEF SizedTypes, Sized
<1>2. CASE tp.cls = "STRUCT"
  BY <1>2, TypesWellFormed DEF TypesAssumption, SizedTypes
<1>3. CASE tp.cls = "FUNC"
  <2>1. tp.args \in Seq(Types) /\ tp.ret \in Types
    BY <1>3, TypesWellFormed DEF TypesAssumption
  <2> QED BY <1>3, <2>1
<1> QED BY <1>1, <1>2, <1>3

\* The size of an array depends on the size of its base and its lengths.
LEMMA ArraySize ==
  ASSUME NEW n \in Nat, NEW z \in Int, NEW lens \in [1 .. n -> Int]
  PROVE  \E w \in Int : \A size, tp :
           tp.lens = lens /\ Len(tp.lens) = n /\ size[tp.base] = z => SizeOfArray(size, tp) = w
<1> DEFINE step == [p \in Int \X (1 .. n) |-> p[1] * lens[p[2]]]
<1>1. step \in [Int \X (1 .. n) -> Int]
  OBVIOUS
<1>2. \A x \in Int : \A i \in 1 .. n : step[<<x, i>>] = x * lens[i]
  OBVIOUS
<1> HIDE DEF step
<1>3. PICK f : Accumulates(f, n, z, step)
  BY <1>1, Accumulation
<1>4. /\ f \in [0 .. n -> Int] /\ f[0] = z
      /\ \A i \in 1 .. n : f[i] = step[<<f[i - 1], i>>]
  BY <1>3 DEF Accumulates
<1>5. f[n] \in Int
  BY <1>4
<1>6. ASSUME NEW size, NEW tp, tp.lens = lens, Len(tp.lens) = n, size[tp.base] = z
      PROVE  SizeOfArray(size, tp) = f[n]
  <2> DEFINE product == CHOOSE g : g = [i \in 0 .. Len(tp.lens) |->
                          IF i = 0 THEN size[tp.base] ELSE g[i - 1] * tp.lens[i]]
  <2>1. SizeOfArray(size, tp) = product[n]
    BY <1>6 DEF SizeOfArray
  <2>2. \E g : g = [i \in 0 .. Len(tp.lens) |->
                      IF i = 0 THEN size[tp.base] ELSE g[i - 1] * tp.lens[i]]
    <3>1. ASSUME NEW i \in 0 .. n
          PROVE  f[i] = IF i = 0 THEN size[tp.base] ELSE f[i - 1] * tp.lens[i]
      <4>1. CASE i = 0
        BY <4>1, <1>4, <1>6
      <4>2. CASE i # 0
        <5>1. i \in 1 .. n /\ i - 1 \in 0 .. n
          BY <4>2
        <5>2. f[i - 1] \in Int /\ f[i] = step[<<f[i - 1], i>>]
          BY <5>1, <1>4
        <5> QED BY <4>2, <5>1, <5>2, <1>2, <1>6
      <4> QED BY <4>1, <4>2
    <3>2. f = [i \in 0 .. Len(tp.lens) |->
                 IF i = 0 THEN size[tp.base] ELSE f[i - 1] * tp.lens[i]]
      BY <3>1, <1>4, <1>6
    <3> QED BY <3>2
  <2>3. product = [i \in 0 .. Len(tp.lens) |->
                     IF i = 0 THEN size[tp.base] ELSE product[i - 1] * tp.lens[i]]
    BY <2>2
  <2> HIDE DEF product
  <2>4. /\ product[0] = z
        /\ \A i \in 1 .. n : product[i] = product[i - 1] * lens[i]
    BY <2>3, <1>6
  <2>5. \A i \in 1 .. n : product[i - 1] \in Int => product[i] = step[<<product[i - 1], i>>]
    BY <2>4, <1>2
  <2>6. product[n] = f[n]
    <3>1. \A i \in 0 .. n : product[i] = f[i]
      BY <2>4, <2>5, <1>3 DEF Accumulates
    <3> QED BY <3>1
  <2> QED BY <2>1, <2>6
<1> QED BY <1>5, <1>6

\* The size of a structure depends on the sizes of its members.
LEMMA StructSize ==
  ASSUME NEW n \in Nat, NEW sizes \in [1 .. n -> Int]
  PROVE  \E w \in Int : \A size, tp :
           Len(tp.mems) = n /\ (\A i \in 1 .. n : size[tp.mems[i].tp] = sizes[i])
             => SizeOfStruct(size, tp) = w
<1> DEFINE step == [p \in Int \X (1 .. n) |-> p[1] + sizes[p[2]]]
<1>1. step \in [Int \X (1 .. n) -> Int] /\ 0 \in Int
  OBVIOUS
<1>2. \A x \in Int : \A i \in 1 .. n : step[<<x, i>>] = x + sizes[i]
  OBVIOUS
<1> HIDE DEF step
<1>3. PICK f : Accumulates(f, n, 0, step)
  BY <1>1, Accumulation
<1>4. /\ f \in [0 .. n -> Int] /\ f[0] = 0
      /\ \A i \in 1 .. n : f[i] = step[<<f[i - 1], i>>]
  BY <1>3 DEF Accumulates
<1>5. f[n] \in Int
  BY <1>4
<1>6. ASSUME NEW size, NEW tp, Len(tp.mems) = n,
             \A i \in 1 .. n : size[tp.mems[i].tp] = sizes[i]
      PROVE  SizeOfStruct(size, tp) = f[n]
  <2> DEFINE sum == CHOOSE g : g = [i \in 0 .. Len(tp.mems) |->
                      IF i = 0 THEN 0 ELSE g[i - 1] + size[tp.mems[i].tp]]
  <2>1. SizeOfStruct(size, tp) = sum[n]
    BY <1>6 DEF SizeOfStruct
  <2>2. \E g : g = [i \in 0 .. Len(tp.mems) |->
                      IF i = 0 THEN 0 ELSE g[i - 1] + size[tp.mems[i].tp]]
    <3>1. ASSUME NEW i \in 0 .. n
          PROVE  f[i] = IF i = 0 THEN 0 ELSE f[i - 1] + size[tp.mems[i].tp]
      <4>1. CASE i = 0
        BY <4>1, <1>4, <1>6
      <4>2. CASE i # 0
        <5>1. i \in 1 .. n /\ i - 1 \in 0 .. n
          BY <4>2
        <5>2. f[i - 1] \in Int /\ f[i] = step[<<f[i - 1], i>>]
          BY <5>1, <1>4
        <5> QED BY <4>2, <5>1, <5>2, <1>2, <1>6
      <4> QED BY <4>1, <4>2
    <3>2. f = [i \in 0 .. Len(tp.mems) |->
                 IF i = 0 THEN 0 ELSE f[i - 1] + size[tp.mems[i].tp]]
      BY <3>1, <1>4, <1>6
    <3> QED BY <3>2
  <2>3. sum = [i \in 0 .. Len(tp.mems) |->
                 IF i = 0 THEN 0 ELSE sum[i - 1] + size[tp.mems[i].tp]]
    BY <2>2
  <2> HIDE DEF sum
  <2>4. /\ sum[0] = 0
        /\ \A i \in 1 .. n : sum[i] = sum[i - 1] + sizes[i]
    BY <2>3, <1>6
  <2>5. \A i \in 1 .. n : sum[i - 1] \in Int => sum[i] = step[<<sum[i - 1], i>>]
    BY <2>4, <1>2
  <2>6. sum[n] = f[n]
    <3>1. \A i \in 0 .. n : sum[i] = f[i]
      BY <2>4, <2>5, <1>3 DEF Accumulates
    <3> QED BY <3>1
  <2> QED BY <2>1, <2>6
<1> QED BY <1>5, <1>6

\* The sizes of types are integers and as SizeOf says.
LEMMA SizeDefined ==
  ASSUME NEW depth \in [Types -> Nat], BuiltUp(depth)
  PROVE  /\ Size \in [SizedTypes -> Int]
         /\ \A tp \in SizedTypes : Size[tp] = SizeOf(Size, tp)
<1> DEFINE d == [tp \in SizedTypes |-> depth[tp]]
           B == [p \in [SizedTypes -> Int] \X SizedTypes |-> SizeOf(p[1], p[2])]
<1>1. d \in [SizedTypes -> Nat] /\ \A tp \in SizedTypes : d[tp] = depth[tp] /\ tp \in Types
  BY DEF SizedTypes
<1>2. ASSUME NEW f, NEW tp \in SizedTypes, \A t \in SizedTypes : d[t] < d[tp] => f[t] \in Int
      PROVE  SizeOf(f, tp) \in Int
  <2> HIDE DEF B
  <2>1. tp \in Types /\ tp.cls \in {"META", "ARRAY", "STRUCT"}
    BY DEF SizedTypes, Sized
  <2>2. CASE tp.cls = "META"
    BY <2>2 DEF SizeOf
  <2>3. CASE tp.cls = "ARRAY"
    <3>1. SizeOfArray(f, tp) \in Int
      <4>1. PICK n, z, lens : n = Len(tp.lens) /\ z = f[tp.base] /\ lens = tp.lens
        OBVIOUS
      <4>2. n \in Nat /\ lens \in [1 .. n -> Int] /\ tp.base \in SizedTypes
        BY <2>1, <2>3, <4>1, PartsOfTypes
      <4>3. d[tp.base] < d[tp]
        BY <2>1, <2>3, <4>2, <1>1 DEF BuiltUp
      <4>4. n \in Nat /\ z \in Int /\ lens \in [1 .. n -> Int]
        BY <4>1, <4>2, <4>3, <1>2
      <4>5. PICK w \in Int : \A size, t :
              t.lens = lens /\ Len(t.lens) = n /\ size[t.base] = z => SizeOfArray(size, t) = w
        BY <4>4, ArraySize
      <4> QED BY <4>1, <4>5
    <3> QED BY <2>3, <3>1 DEF SizeOf
  <2>4. CASE tp.cls = "STRUCT"
    <3>1. SizeOfStruct(f, tp) \in Int
      <4>1. PICK n, sizes : n = Len(tp.mems) /\ sizes = [i \in 1 .. n |-> f[tp.mems[i].tp]]
        OBVIOUS
      <4>2. /\ n \in Nat /\ DOMAIN tp.mems = 1 .. n
            /\ \A i \in 1 .. n : tp.mems[i].tp \in SizedTypes
        BY <2>1, <2>4, <4>1, PartsOfTypes
      <4>3. \A i \in 1 .. n : d[tp.mems[i].tp] < d[tp]
        BY <2>1, <2>4, <4>2, <1>1 DEF BuiltUp
      <4>4. n \in Nat /\ sizes \in [1 .. n -> Int]
        BY <4>1, <4>2, <4>3, <1>2
      <4>5. PICK w \in Int : \A size, t :
              Len(t.mems) = n /\ (\A i \in 1 .. n : size[t.mems[i].tp] = sizes[i])
                => SizeOfStruct(size, t) = w
        BY <4>4, StructSize
      <4>6. \A i \in 1 .. n : f[tp.mems[i].tp] = sizes[i]
        BY <4>1
      <4> QED BY <4>1, <4>5, <4>6
    <3> QED BY <2>4, <3>1 DEF SizeOf
  <2> QED BY <2>1, <2>2, <2>3, <2>4
<1>3. B \in [[SizedTypes -> Int] \X SizedTypes -> Int]
  BY <1>2
<1>4. ASSUME NEW f \in [SizedTypes -> Int], NEW g \in [SizedTypes -> Int], NEW tp \in SizedTypes,
             \A t \in SizedTypes : d[t] < d[tp] => f[t] = g[t]
      PROVE  SizeOf(f, tp) = SizeOf(g, tp)
  <2> HIDE DEF B
  <2>1. tp \in Types /\ tp.cls \in {"META", "ARRAY", "STRUCT"}
    BY DEF SizedTypes, Sized
  <2>2. CASE tp.cls = "META"
    BY <2>2 DEF SizeOf
  <2>3. CASE tp.cls = "ARRAY"
    <3>1. SizeOfArray(f, tp) = SizeOfArray(g, tp)
      <4>1. PICK n, z, lens : n = Len(tp.lens) /\ z = f[tp.base] /\ lens = tp.lens
        OBVIOUS
      <4>2. n \in Nat /\ z \in Int /\ lens \in [1 .. n -> Int] /\ tp.base \in SizedTypes
        BY <2>1, <2>3, <4>1, PartsOfTypes
      <4>3. PICK w \in Int : \A size, t :
              t.lens = lens /\ Len(t.lens) = n /\ size[t.base] = z => SizeOfArray(size, t) = w
        BY <4>2, ArraySize
      <4>4. d[tp.base] < d[tp]
        BY <2>1, <2>3, <4>2, <1>1 DEF BuiltUp
      <4>5. g[tp.base] = z
        BY <1>4, <4>1, <4>2, <4>4
      <4> QED BY <4>1, <4>3, <4>5
    <3> QED BY <2>3, <3>1 DEF SizeOf
  <2>4. CASE tp.cls = "STRUCT"
    <3>1. SizeOfStruct(f, tp) = SizeOfStruct(g, tp)
      <4>1. PICK n, sizes : n = Len(tp.mems) /\ sizes = [i \in 1 .. n |-> f[tp.mems[i].tp]]
        OBVIOUS
      <4>2. /\ n \in Nat /\ sizes \in [1 .. n -> Int] /\ DOMAIN tp.mems = 1 .. n
            /\ \A i \in 1 .. n : tp.mems[i].tp \in SizedTypes
        BY <2>1, <2>4, <4>1, PartsOfTypes
      <4>3. PICK w \in Int : \A size, t :
              Len(t.mems) = n /\ (\A i \in 1 .. n : size[t.mems[i].tp] = sizes[i])
                => SizeOfStruct(size, t) = w
        BY <4>2, StructSize
      <4>4. \A i \in 1 .. n : f[tp.mems[i].tp] = sizes[i]
        BY <4>1
      <4>5. \A i \in 1 .. n : d[tp.mems[i].tp] < d[tp]
        BY <2>1, <2>4, <4>2, <1>1 DEF BuiltUp
      <4>6. \A i \in 1 .. n : g[tp.mems[i].tp] = sizes[i]
        BY <1>4, <4>2, <4>4, <4>5
      <4>7. SizeOfStruct(f, tp) = w /\ SizeOfStruct(g, tp) = w
        BY <4>1, <4>3, <4>4, <4>6
      <4> QED BY <4>7
    <3> QED BY <2>4, <3>1 DEF SizeOf
  <2> QED BY <2>1, <2>2, <2>3, <2>4
<1>5. \A f \in [SizedTypes -> Int] : \A tp \in SizedTypes : B[<<f, tp>>] = SizeOf(f, tp)
  OBVIOUS
<1>6. LooksDown(B, SizedTypes, Int, d)
  <2> HIDE DEF B, d
  <2> QED BY <1>4, <1>5 DEF LooksDown
<1>7. \E f : IsRecursive(f, B, SizedTypes, Int)
  <2> HIDE DEF B, d
  <2>1. 0 \in Int
    OBVIOUS
  <2> QED BY <2>1, <1>1, <1>3, <1>6, RecursiveFunction
<1>8. \E f : f = [tp \in {t \in Types : Sized(t)} |-> SizeOf(f, tp)]
  <2>1. PICK f : f \in [SizedTypes -> Int] /\ \A tp \in SizedTypes : f[tp] = B[<<f, tp>>]
    <3> HIDE DEF B
    <3> QED BY <1>7 DEF IsRecursive
  <2>2. f = [tp \in SizedTypes |-> SizeOf(f, tp)]
    <3> HIDE DEF B
    <3> QED BY <2>1, <1>5
  <2> QED BY <2>2 DEF SizedTypes
<1>9. Size = [tp \in {t \in Types : Sized(t)} |-> SizeOf(Size, tp)]
  BY <1>8 DEF Size
<1>10. \A tp \in SizedTypes : Size[tp] = SizeOf(Size, tp)
  <2> HIDE DEF B, d
  <2>1. Size = [tp \in SizedTypes |-> SizeOf(Size, tp)]
    BY <1>9 DEF SizedTypes
  <2> QED BY <2>1
<1> DEFINE Ints == {n \in Nat : \A tp \in SizedTypes : d[tp] = n => Size[tp] \in Int}
<1>11. ASSUME NEW n \in Nat, \A m \in Nat : m < n => m \in Ints
       PROVE  n \in Ints
  <2> SUFFICES ASSUME NEW tp \in SizedTypes, d[tp] = n PROVE Size[tp] \in Int
    OBVIOUS
  <2> HIDE DEF B, d
  <2>1. \A t \in SizedTypes : d[t] < d[tp] => Size[t] \in Int
    BY <1>1, <1>11
  <2>2. SizeOf(Size, tp) \in Int
    <3> HIDE DEF Ints
    <3> QED BY <1>2, <2>1
  <2> QED BY <2>2, <1>10
<1>12. \A n \in Nat : n \in Ints
  <2> HIDE DEF Ints
  <2> QED BY <1>11, SetInduction
<1>13. \A tp \in SizedTypes : Size[tp] \in Int
  <2> HIDE DEF B, d
  <2> QED BY <1>1, <1>12
<1> QED
  <2> HIDE DEF B, d, Ints
  <2>1. Size = [tp \in SizedTypes |-> Size[tp]]
    <3>1. Size = [tp \in SizedTypes |-> SizeOf(Size, tp)]
      BY <1>9 DEF SizedTypes
    <3> QED BY <3>1
  <2> QED BY <2>1, <1>10, <1>13
\* The comparison of types of one class is as SameContents says.
LEMMA SameDefined ==
  ASSUME NEW depth \in [Types -> Nat], BuiltUp(depth)
  PROVE  \A a, b \in Types : \A strict \in BOOLEAN :
           a.cls = b.cls => (Same[<<a, b, strict>>] <=> SameContents(Same, a, b, strict))
<1> DEFINE d == [p \in OfOneClass |-> depth[p[1]]]
           B == [p \in [OfOneClass -> BOOLEAN] \X OfOneClass |->
                   SameContents(p[1], p[2][1], p[2][2], p[2][3])]
<1>1. \A p \in OfOneClass : /\ p = <<p[1], p[2], p[3]>> /\ p[1] \in Types /\ p[2] \in Types
                            /\ p[3] \in BOOLEAN /\ p[1].cls = p[2].cls
  BY DEF OfOneClass
<1>2. d \in [OfOneClass -> Nat] /\ \A p \in OfOneClass : d[p] = depth[p[1]]
  BY <1>1
<1>3. B \in [[OfOneClass -> BOOLEAN] \X OfOneClass -> BOOLEAN]
  BY DEF SameContents
<1>4. ASSUME NEW f \in [OfOneClass -> BOOLEAN], NEW g \in [OfOneClass -> BOOLEAN],
             NEW p \in OfOneClass, \A q \in OfOneClass : d[q] < d[p] => f[q] = g[q]
      PROVE  SameContents(f, p[1], p[2], p[3]) <=> SameContents(g, p[1], p[2], p[3])
  <2> HIDE DEF B
  <2>1. PICK a, b, s : a = p[1] /\ b = p[2] /\ s = p[3]
    OBVIOUS
  <2>2. a \in Types /\ b \in Types /\ s \in BOOLEAN /\ a.cls = b.cls /\ d[p] = depth[a]
    BY <1>1, <1>2, <2>1
  <2>3. ASSUME NEW x \in Types, NEW y \in Types, NEW t \in BOOLEAN, depth[x] < depth[a]
        PROVE  Equal(f, x, y, t) <=> Equal(g, x, y, t)
    <3>1. CASE x.cls = y.cls
      <4>1. <<x, y, t>> \in OfOneClass
        BY <3>1 DEF OfOneClass
      <4>2. d[<<x, y, t>>] < d[p]
        BY <4>1, <1>2, <2>2, <2>3
      <4>3. f[<<x, y, t>>] = g[<<x, y, t>>]
        BY <4>1, <4>2, <1>4
      <4> QED BY <4>3 DEF Equal
    <3>2. CASE x.cls # y.cls
      BY <3>2 DEF Equal
    <3> QED BY <3>1, <3>2
  <2>4. CASE a.cls = "META"
    BY <2>1, <2>4 DEF SameContents
  <2>5. CASE a.cls = "ARRAY"
    <3>1. a.base \in Types /\ b.base \in Types
      BY <2>2, <2>5, PartsOfTypes DEF SizedTypes
    <3>2. depth[a.base] < depth[a]
      BY <2>2, <2>5 DEF BuiltUp
    <3>3. Equal(f, a.base, b.base, FALSE) <=> Equal(g, a.base, b.base, FALSE)
      BY <2>3, <3>1, <3>2
    <3>4. SameElements(f, a, b, s) <=> SameElements(g, a, b, s)
      BY <3>3 DEF SameElements
    <3> QED BY <2>1, <2>5, <3>4 DEF SameContents
  <2>6. CASE a.cls = "FUNC"
    <3>1. /\ a.ret \in Types /\ b.ret \in Types
          /\ DOMAIN a.args = 1 .. Len(a.args) /\ DOMAIN b.args = 1 .. Len(b.args)
          /\ \A i \in DOMAIN a.args : a.args[i] \in Types
          /\ \A i \in DOMAIN b.args : b.args[i] \in Types
      BY <2>2, <2>6, PartsOfTypes
    <3>2. depth[a.ret] < depth[a] /\ \A i \in DOMAIN a.args : depth[a.args[i]] < depth[a]
      BY <2>2, <2>6 DEF BuiltUp
    <3>3. Equal(f, a.ret, b.ret, FALSE) <=> Equal(g, a.ret, b.ret, FALSE)
      BY <2>3, <3>1, <3>2
    <3>4. ASSUME NEW i \in DOMAIN a.args, Len(a.args) = Len(b.args)
          PROVE  Equal(f, a.args[i], b.args[i], FALSE) <=> Equal(g, a.args[i], b.args[i], FALSE)
      <4>1. a.args[i] \in Types /\ b.args[i] \in Types /\ depth[a.args[i]] < depth[a]
        BY <3>1, <3>2, <3>4
      <4> QED BY <2>3, <4>1
    <3>5. SameSignature(f, a, b) <=> SameSignature(g, a, b)
      BY <3>3, <3>4 DEF SameSignature
    <3> QED BY <2>1, <2>6, <3>5 DEF SameContents
  <2>7. CASE a.cls = "STRUCT"
    <3>1. /\ DOMAIN a.mems = 1 .. Len(a.mems) /\ DOMAIN b.mems = 1 .. Len(b.mems)
          /\ \A i \in DOMAIN a.mems : a.mems[i].tp \in Types
          /\ \A i \in DOMAIN b.mems : b.mems[i].tp \in Types
      BY <2>2, <2>7, PartsOfTypes DEF SizedTypes
    <3>2. \A i \in DOMAIN a.mems : depth[a.mems[i].tp] < depth[a]
      BY <2>2, <2>7 DEF BuiltUp
    <3>3. ASSUME NEW i \in DOMAIN a.mems, Len(a.mems) = Len(b.mems)
          PROVE  Equal(f, a.mems[i].tp, b.mems[i].tp, TRUE) <=> Equal(g, a.mems[i].tp, b.mems[i].tp, TRUE)
      <4>1. a.mems[i].tp \in Types /\ b.mems[i].tp \in Types /\ depth[a.mems[i].tp] < depth[a]
        BY <3>1, <3>2, <3>3
      <4> QED BY <2>3, <4>1
    <3>4. SameMembers(f, a, b) <=> SameMembers(g, a, b)
      BY <3>3 DEF SameMembers
    <3> QED BY <2>1, <2>7, <3>4 DEF SameContents
  <2>8. CASE a.cls \notin {"META", "ARRAY", "FUNC", "STRUCT"}
    BY <2>1, <2>8 DEF SameContents
  <2> QED BY <2>4, <2>5, <2>6, <2>7, <2>8
<1>5. \A f \in [OfOneClass -> BOOLEAN] : \A p \in OfOneClass :
        B[<<f, p>>] = SameContents(f, p[1], p[2], p[3])
  OBVIOUS
<1>6. LooksDown(B, OfOneClass, BOOLEAN, d)
  <2> SUFFICES ASSUME NEW f \in [OfOneClass -> BOOLEAN], NEW g \in [OfOneClass -> BOOLEAN],
                      NEW p \in OfOneClass, \A q \in OfOneClass : d[q] < d[p] => f[q] = g[q]
               PROVE  B[<<f, p>>] = B[<<g, p>>]
    BY DEF LooksDown
  <2>1. SameContents(f, p[1], p[2], p[3]) <=> SameContents(g, p[1], p[2], p[3])
    <3> HIDE DEF B, d
    <3> QED BY <1>4
  <2>2. B[<<f, p>>] \in BOOLEAN /\ B[<<g, p>>] \in BOOLEAN
    <3> HIDE DEF B, d
    <3> QED BY <1>3
  <2>3. (B[<<f, p>>] <=> SameContents(f, p[1], p[2], p[3])) /\ (B[<<g, p>>] <=> SameContents(g, p[1], p[2], p[3]))
    <3> HIDE DEF B, d
    <3> QED BY <1>5
  <2> HIDE DEF B, d
  <2> QED BY <2>1, <2>2, <2>3
<1>7. \E f : IsRecursive(f, B, OfOneClass, BOOLEAN)
  <2> HIDE DEF B, d
  <2>1. TRUE \in BOOLEAN
    OBVIOUS
  <2> QED BY <2>1, <1>2, <1>3, <1>6, RecursiveFunction
<1>8. \E f : f = [p \in OfOneClass |-> SameContents(f, p[1], p[2], p[3])]
  <2>1. PICK f : f \in [OfOneClass -> BOOLEAN] /\ \A p \in OfOneClass : f[p] = B[<<f, p>>]
    <3> HIDE DEF B
    <3> QED BY <1>7 DEF IsRecursive
  <2>2. f = [p \in OfOneClass |-> SameContents(f, p[1], p[2], p[3])]
    <3> HIDE DEF B
    <3> QED BY <2>1, <1>5
  <2> QED BY <2>2
<1>9. Same = [p \in OfOneClass |-> SameContents(Same, p[1], p[2], p[3])]
  BY <1>8 DEF Same
<1>10. ASSUME NEW a \in Types, NEW b \in Types, NEW strict \in BOOLEAN, a.cls = b.cls
       PROVE  Same[<<a, b, strict>>] <=> SameContents(Same, a, b, strict)
  <2> HIDE DEF B, d
  <2>1. <<a, b, strict>> \in OfOneClass
    BY <1>10 DEF OfOneClass
  <2>2. \A p \in OfOneClass : Same[p] = SameContents(Same, p[1], p[2], p[3])
    BY <1>9
  <2>3. Same[<<a, b, strict>>] = SameContents(Same, a, b, strict)
    BY <2>1, <2>2
  <2> QED BY <2>3
<1> QED BY <1>10

\* Types that are equal, arrays with their lengths, have one size.
LEMMA EqualSizes ==
  ASSUME NEW depth \in [Types -> Nat], BuiltUp(depth)
  PROVE  \A a, b \in SizedTypes : \A strict \in BOOLEAN :
           Equal(Same, a, b, strict) /\ (a.cls = "ARRAY" => strict) => Size[a] = Size[b]
<1> DEFINE Claim(a) == \A b \in SizedTypes : \A strict \in BOOLEAN :
             Equal(Same, a, b, strict) /\ (a.cls = "ARRAY" => strict) => Size[a] = Size[b]
           Claimed == {n \in Nat : \A a \in SizedTypes : depth[a] = n => Claim(a)}
<1>0. SizedTypes \subseteq Types
  BY DEF SizedTypes
<1>1. ASSUME NEW n \in Nat, \A m \in Nat : m < n => m \in Claimed
      PROVE  n \in Claimed
  <2>0. \A a \in SizedTypes : depth[a] < n => Claim(a)
    <3> HIDE DEF Claim
    <3> QED BY <1>0, <1>1
  <2>1. SUFFICES ASSUME NEW a \in SizedTypes, depth[a] = n, NEW b \in SizedTypes,
                        NEW strict \in BOOLEAN, Equal(Same, a, b, strict),
                        a.cls = "ARRAY" => strict
                 PROVE  Size[a] = Size[b]
    OBVIOUS
  <2> HIDE DEF Claimed
  <2>2. /\ a \in Types /\ a.cls \in {"META", "ARRAY", "STRUCT"}
        /\ b \in Types /\ b.cls \in {"META", "ARRAY", "STRUCT"}
    BY DEF SizedTypes, Sized
  <2>3. CASE a = b
    BY <2>3
  <2>4. CASE a # b
    <3>1. a.cls = b.cls /\ Same[<<a, b, strict>>]
      BY <2>1, <2>2, <2>4 DEF Equal
    <3>2. SameContents(Same, a, b, strict)
      BY <3>1, <2>2, SameDefined
    <3>3. Size[a] = SizeOf(Size, a) /\ Size[b] = SizeOf(Size, b)
      BY SizeDefined
    <3>4. CASE a.cls = "META"
      BY <3>1, <3>3, <3>4 DEF SizeOf
    <3>5. CASE a.cls = "ARRAY"
      <4>1. Len(a.lens) = Len(b.lens) /\ a.lens = b.lens /\ Equal(Same, a.base, b.base, FALSE)
        BY <2>1, <3>2, <3>5 DEF SameContents, SameElements
      <4>2. /\ Len(a.lens) \in Nat /\ a.lens \in [1 .. Len(a.lens) -> Int]
            /\ a.base \in SizedTypes /\ a.base.cls # "ARRAY" /\ b.base \in SizedTypes
        BY <2>2, <3>1, <3>5, PartsOfTypes
      <4>3. depth[a.base] < n
        BY <2>1, <2>2, <3>5 DEF BuiltUp
      <4>4. Size[a.base] = Size[b.base]
        BY <2>0, <4>1, <4>2, <4>3
      <4>5. PICK k, z, lens : k = Len(a.lens) /\ z = Size[a.base] /\ lens = a.lens
        OBVIOUS
      <4>6. k \in Nat /\ z \in Int /\ lens \in [1 .. k -> Int]
        BY <4>2, <4>5, SizeDefined
      <4>7. PICK w \in Int : \A size, t :
              t.lens = lens /\ Len(t.lens) = k /\ size[t.base] = z => SizeOfArray(size, t) = w
        BY <4>6, ArraySize
      <4>8. SizeOfArray(Size, a) = w /\ SizeOfArray(Size, b) = w
        BY <4>1, <4>4, <4>5, <4>7
      <4> QED BY <3>1, <3>3, <3>5, <4>8 DEF SizeOf
    <3>6. CASE a.cls = "STRUCT"
      <4>1. /\ Len(a.mems) = Len(b.mems)
            /\ \A i \in DOMAIN a.mems : Equal(Same, a.mems[i].tp, b.mems[i].tp, TRUE)
        BY <3>2, <3>6 DEF SameContents, SameMembers
      <4>2. /\ Len(a.mems) \in Nat /\ DOMAIN a.mems = 1 .. Len(a.mems)
            /\ \A i \in 1 .. Len(a.mems) : a.mems[i].tp \in SizedTypes /\ b.mems[i].tp \in SizedTypes
        BY <2>2, <3>1, <3>6, <4>1, PartsOfTypes
      <4>3. \A i \in 1 .. Len(a.mems) : depth[a.mems[i].tp] < n
        BY <2>1, <2>2, <3>6, <4>2 DEF BuiltUp
      <4>4. \A i \in 1 .. Len(a.mems) : Size[a.mems[i].tp] = Size[b.mems[i].tp]
        BY <2>0, <4>1, <4>2, <4>3
      <4>5. PICK k, sizes : k = Len(a.mems) /\ sizes = [i \in 1 .. k |-> Size[a.mems[i].tp]]
        OBVIOUS
      <4>6. k \in Nat /\ sizes \in [1 .. k -> Int]
        BY <4>2, <4>5, SizeDefined
      <4>7. PICK w \in Int : \A size, t :
              Len(t.mems) = k /\ (\A i \in 1 .. k : size[t.mems[i].tp] = sizes[i])
                => SizeOfStruct(size, t) = w
        BY <4>6, StructSize
      <4>8. SizeOfStruct(Size, a) = w /\ SizeOfStruct(Size, b) = w
        BY <4>1, <4>4, <4>5, <4>7
      <4> QED BY <3>1, <3>3, <3>6, <4>8 DEF SizeOf
    <3> QED BY <2>2, <3>4, <3>5, <3>6
  <2> QED BY <2>3, <2>4
<1>2. \A n \in Nat : n \in Claimed
  <2> HIDE DEF Claimed
  <2> QED BY <1>1, SetInduction
<1>3. \A a \in SizedTypes : Claim(a)
  <2> HIDE DEF Claim
  <2> QED BY <1>0, <1>2
<1> QED BY <1>3

\* Structures that the analysis takes for equal have their members at the same
\* places, in every scope whose types are built up from others, as those of a
\* program are.
THEOREM EqualStructures ==
  ASSUME NEW depth \in [Types -> Nat], BuiltUp(depth)
  PROVE  Spec => []EqualStructuresLieAlike
<1>1. TypeOK => EqualStructuresLieAlike
  <2> SUFFICES ASSUME TypeOK, NEW i \in DOMAIN stack, NEW j \in DOMAIN stack,
                      stack[i].tp.cls = "STRUCT", stack[j].tp.cls = "STRUCT",
                      type_full_eq(stack[i].tp, stack[j].tp)
               PROVE  /\ Size[stack[i].tp] = Size[stack[j].tp]
                      /\ \A n \in DOMAIN stack[i].tp.mems :
                           Size[stack[i].tp.mems[n].tp] = Size[stack[j].tp.mems[n].tp]
    BY DEF EqualStructuresLieAlike
  <2>1. PICK a, b : a = stack[i].tp /\ b = stack[j].tp
    OBVIOUS
  <2>2. a \in Types /\ b \in Types
    <3>1. stack \in Seq(Expression)
      BY DEF TypeOK
    <3>2. stack[i] \in Expression /\ stack[j] \in Expression
      BY <3>1
    <3> QED BY <2>1, <3>2 DEF Expression
  <2>3. a.cls = "STRUCT" /\ b.cls = "STRUCT" /\ Equal(Same, a, b, FALSE)
    BY <2>1 DEF type_full_eq
  <2>4. a \in SizedTypes /\ b \in SizedTypes
    BY <2>2, <2>3 DEF SizedTypes, Sized
  <2>5. Size[a] = Size[b]
    BY <2>3, <2>4, EqualSizes
  <2>6. ASSUME NEW n \in DOMAIN a.mems, a # b PROVE Size[a.mems[n].tp] = Size[b.mems[n].tp]
    <3>1. Same[<<a, b, FALSE>>]
      BY <2>3, <2>6 DEF Equal
    <3>2. SameContents(Same, a, b, FALSE)
      BY <2>2, <2>3, <3>1, SameDefined
    <3>3. Len(a.mems) = Len(b.mems) /\ Equal(Same, a.mems[n].tp, b.mems[n].tp, TRUE)
      BY <2>3, <3>2 DEF SameContents, SameMembers
    <3>4. a.mems[n].tp \in SizedTypes /\ b.mems[n].tp \in SizedTypes
      BY <2>2, <2>3, <3>3, PartsOfTypes
    <3> QED BY <3>3, <3>4, EqualSizes
  <2> QED BY <2>1, <2>5, <2>6
<1> QED BY <1>1, TypeCorrect, PTL

=============================================================================
