--------------------------- MODULE OptimizingProofs ----------------------------
(***************************************************************************)
(* The passes of the optimizer fit together: each leaves a well formed     *)
(* state to the next, unless it did what cannot be justified.              *)
(***************************************************************************)
EXTENDS Optimizing, Induction, FiniteSetTheorems

-----------------------------------------------------------------------------
(* Codes. *)

\* What an operand of each kind has.
LEMMA OperandFields ==
  ASSUME NEW x \in Operands
  PROVE  /\ x.kind \in {"Variable", "Deref", "Ref", "Constant"}
         /\ x.kind # "Constant" => x.var \in Nat
         /\ x.kind = "Constant" => x.value \in Int
         /\ x.kind = "Variable" => x = Var(x.var)
BY DEF Operands, VarOperands, DerefOperands, RefOperands, ConstOperands, Var

\* What a code of each kind has.
LEMMA CodeFields ==
  ASSUME NEW c \in TextCodes
  PROVE  \/ c.op = "Assign" /\ c.left \in Targets /\ c.right \in Operands
         \/ c.op \in ArithKinds /\ c.target \in Nat /\ c.op1 \in Operands /\ c.op2 \in Operands
         \/ c.op \in {"Label", "Goto"} /\ c.label \in Nat
         \/ /\ c.op = "Branch" /\ c.relop \in Relops /\ c.op1 \in Operands /\ c.op2 \in Operands
            /\ c.label \in Nat
         \/ c.op = "Func" /\ c.func \in STRING
         \/ c.op = "Return" /\ c.ret \in Operands
         \/ c.op = "Dec" /\ c.var \in Nat /\ c.size \in Nat
         \/ c.op = "Arg" /\ c.arg \in Operands
         \/ c.op = "Call" /\ c.target \in Nat /\ c.func \in STRING
         \/ c.op = "Param" /\ c.param \in Nat
         \/ c.op = "Read" /\ c.read \in Nat
         \/ c.op = "Write" /\ c.write \in Operands
BY DEF TextCodes, ArithKinds

LEMMA TargetFields ==
  ASSUME NEW x \in Targets
  PROVE  /\ x.kind \in {"Variable", "Deref"} /\ x.var \in Nat /\ x \in Operands
BY DEF Targets, Operands, VarOperands, DerefOperands

LEMMA UsingFieldsAreOperands ==
  ASSUME NEW c \in TextCodes, NEW f \in UsingFields(c)
  PROVE  c[f] \in Operands
BY CodeFields, TargetFields DEF UsingFields, ArithKinds

\* The code d is c with x in the operand h.
IsPut(c, h, x, d) ==
  /\ d \in TextCodes /\ d.op = c.op
  /\ h \in UsingFields(c) /\ UsingFields(d) = UsingFields(c)
  /\ \A f \in UsingFields(c) : d[f] = IF f = h THEN x ELSE c[f]
  /\ OnlyComputes(d) = OnlyComputes(c)
  /\ c.op \in {"Label", "Goto", "Branch"} => d.label = c.label

LEMMA PutField ==
  ASSUME NEW c \in TextCodes, NEW k \in DOMAIN Receivers(c), NEW x \in Operands
  PROVE  IsPut(c, Receivers(c)[k], x, [c EXCEPT ![Receivers(c)[k]] = x])
<1> DEFINE h == Receivers(c)[k]
           d == [c EXCEPT ![h] = x]
<1>0. /\ h = Receivers(c)[k] /\ d = [c EXCEPT ![h] = x]
      /\ IsPut(c, Receivers(c)[k], x, [c EXCEPT ![Receivers(c)[k]] = x]) = IsPut(c, h, x, d)
  OBVIOUS
<1> HIDE DEF h, d
<1> SUFFICES IsPut(c, h, x, d)
  BY <1>0
<1> USE DEF IsPut
<1>1. \/ c.op = "Assign" /\ h = "right"
      \/ c.op \in ArithKinds \cup {"Branch"} /\ h \in {"op1", "op2"}
      \/ c.op = "Return" /\ h = "ret"
      \/ c.op = "Arg" /\ h = "arg"
      \/ c.op = "Write" /\ h = "write"
  BY <1>0 DEF Receivers, ArithKinds
<1>2. d \in TextCodes /\ d.op = c.op
  BY CodeFields, <1>0, <1>1 DEF TextCodes, ArithKinds
<1>3. h \in UsingFields(c)
  BY <1>1 DEF UsingFields, ArithKinds
<1>4. \A f \in DOMAIN c : d[f] = IF f = h THEN x ELSE c[f]
  BY <1>0, <1>1, <1>2
<1>5. UsingFields(c) \subseteq DOMAIN c
  BY CodeFields DEF UsingFields, TextCodes, ArithKinds
<1>6. CASE c.op = "Assign"
  <2>1. d.left = c.left
    BY <1>0, <1>1, <1>6 DEF TextCodes, ArithKinds
  <2> QED BY <1>2, <1>3, <1>4, <1>5, <1>6, <2>1 DEF UsingFields, OnlyComputes, ArithKinds
<1>7. CASE c.op # "Assign"
  <2>1. c.op \in ArithKinds => d.target = c.target
    BY <1>0, <1>1, <1>2, <1>7 DEF TextCodes, ArithKinds
  <2>2. c.op \in {"Label", "Goto", "Branch"} => d.label = c.label
    BY <1>0, <1>1, <1>2, <1>7 DEF TextCodes, ArithKinds
  <2>3. c.op # "Dec"
    BY <1>1 DEF ArithKinds
  <2>4. UsingFields(d) = UsingFields(c) /\ OnlyComputes(d) = OnlyComputes(c)
    BY <1>2, <1>7, <2>1, <2>3 DEF UsingFields, OnlyComputes, ArithKinds
  <2> QED BY <1>2, <1>3, <1>4, <1>5, <2>2, <2>4
<1> QED BY <1>6, <1>7

LEMMA ArithIsInt ==
  ASSUME NEW op \in ArithKinds, NEW a \in Int, NEW b \in Int, op # "Div" \/ b # 0
  PROVE  Arith(op, a, b) \in Int
<1>1. CASE op = "Div"
  <2>1. Abs(a) \in Nat /\ Abs(b) \in Nat /\ Abs(b) > 0
    BY <1>1 DEF Abs
  <2>2. Abs(a) \div Abs(b) \in Int
    BY <2>1
  <2>3. Quotient(a, b) \in Int
    BY <2>2 DEF Quotient
  <2> QED BY <1>1, <2>3 DEF Arith
<1>2. CASE op # "Div"
  BY <1>2 DEF Arith, ArithKinds
<1> QED BY <1>1, <1>2

\* Folding a code gives a code, that uses no other variables.
LEMMA FoldedCode ==
  ASSUME NEW c \in TextCodes
  PROVE  /\ Folded(c) \in TextCodes
         /\ \A v : FieldsUsing(Folded(c), v) \subseteq FieldsUsing(c, v)
         /\ OnlyComputes(Folded(c)) \subseteq OnlyComputes(c)
         /\ Folded(c).op = "Label" <=> c.op = "Label"
         /\ c.op \in {"Label", "Goto", "Branch"} => Folded(c).label = c.label
         /\ Folded(c).op \in {"Goto", "Branch"} <=> c.op \in {"Goto", "Branch"}
<1>1. CASE Folded(c) = c
  BY <1>1
<1>2. CASE Folded(c) # c
  <2>1. c.op \in ArithKinds \cup {"Branch"} /\ {c.op1.kind, c.op2.kind} = {"Constant"}
    BY <1>2 DEF Folded
  <2>2. CASE c.op = "Branch"
    <3>1. Folded(c) = Goto(c.label) /\ c.label \in Nat
      BY <1>2, <2>2, <2>1, CodeFields DEF Folded, ArithKinds
    <3> QED BY <3>1, <2>2 DEF Goto, TextCodes, FieldsUsing, UsingFields, OnlyComputes, ArithKinds
  <2>3. CASE c.op \in ArithKinds
    <3> DEFINE n == ConstArith(c.op, c.op1.value, c.op2.value)
    <3>1. c.target \in Nat /\ c.op1.value \in Int /\ c.op2.value \in Int
      BY <2>1, <2>3, CodeFields, OperandFields DEF ArithKinds
    <3>2. n \in Int
      BY <3>1, <2>3, ArithIsInt DEF ConstArith
    <3> HIDE DEF n
    <3>3. Folded(c) = Assign(Var(c.target), Const(n))
      BY <2>1, <2>3 DEF Folded, ArithKinds, n
    <3>4. Const(n) \in Operands /\ Var(c.target) \in Targets
      BY <3>1, <3>2 DEF Operands, ConstOperands, Targets, VarOperands, Const, Var
    <3>5. Folded(c) \in TextCodes
      BY <3>3, <3>4 DEF Assign, TextCodes
    <3>6. ASSUME NEW v PROVE FieldsUsing(Folded(c), v) = {}
      <4>1. ASSUME NEW f \in UsingFields(Folded(c)) PROVE f = "right"
        <5>1. Folded(c).op = "Assign" /\ Folded(c).left.kind # "Deref"
          BY <3>3 DEF Assign, Var
        <5> QED BY <5>1 DEF UsingFields, ArithKinds
      <4>2. Folded(c)["right"].kind = "Constant"
        BY <3>3 DEF Assign, Const
      <4> QED BY <4>1, <4>2 DEF FieldsUsing
    <3>7. OnlyComputes(Folded(c)) = {c.target} /\ OnlyComputes(c) = {c.target}
      BY <3>3, <2>3 DEF Assign, OnlyComputes, Var, ArithKinds
    <3>8. Folded(c).op = "Assign"
      BY <3>3 DEF Assign
    <3> QED BY <3>5, <3>6, <3>7, <3>8, <2>3 DEF ArithKinds
  <2> QED BY <2>1, <2>2, <2>3
<1> QED BY <1>1, <1>2

-----------------------------------------------------------------------------
(* Dropping codes. *)

\* Dropping what is not a label leaves a program well formed.
LEMMA DroppingCodes ==
  ASSUME NEW o, WellFormed(o), NEW D \in SUBSET DOMAIN o.code,
         \A i \in D : o.code[i].op # "Label",
         NEW p, p = [o EXCEPT !.ignore = @ \cup D]
  PROVE  WellFormed(p)
<1>1. OptimizerType(o)
  BY DEF WellFormed
<1>2. /\ p.code = o.code /\ p.vars = o.vars /\ p.ignore = o.ignore \cup D /\ p.name = o.name
      /\ p.assignTime = o.assignTime /\ p.usedTime = o.usedTime /\ p.usedCode = o.usedCode
      /\ p.sound = o.sound
  BY <1>1 DEF OptimizerType
<1>3. OptimizerType(p)
  BY <1>1, <1>2 DEF OptimizerType
<1>4. VariablesAreCounted(p) /\ LabelsDiffer(p)
  BY <1>2 DEF WellFormed, VariablesAreCounted, LabelsDiffer
<1>5. JumpsHaveLabels(p)
  BY <1>2 DEF WellFormed, JumpsHaveLabels, LiveCodes
<1>6. CountsHold(p)
  BY <1>2 DEF WellFormed, CountsHold, LiveCodes
<1> QED BY <1>3, <1>4, <1>5, <1>6 DEF WellFormed

-----------------------------------------------------------------------------
(* optimizeDeadAssign *)

\* There is a largest among some of the numbers up to n.
LEMMA LargestElement ==
  ASSUME NEW n \in Nat, NEW T \in SUBSET (1 .. n), T # {}
  PROVE  Max(T) \in T /\ \A x \in T : x <= Max(T)
<1> DEFINE S == {m \in Nat : n - m \notin T}
<1>1. PICK m \in Nat : m \notin S /\ \A l \in Nat : l < m => l \in S
  <2>1. \E m \in Nat : m \notin S
    <3>1. PICK t \in T : TRUE
      OBVIOUS
    <3>2. n - t \in Nat /\ n - (n - t) = t
      BY <3>1
    <3> QED BY <3>1, <3>2
  <2> HIDE DEF S
  <2> QED BY <2>1, SetInduction
<1>2. n - m \in T
  BY <1>1
<1>3. \A x \in T : x <= n - m
  <2> SUFFICES ASSUME NEW x \in T, x > n - m PROVE FALSE
    BY <1>1
  <2>1. n - x \in Nat /\ n - x < m
    BY <1>1
  <2>2. n - x \in S
    BY <1>1, <2>1
  <2> QED BY <2>2
<1> QED BY <1>2, <1>3 DEF Max

\* What a set of pairs with one element has for elements.
LEMMA UseCount ==
  ASSUME NEW o, OptimizerType(o), NEW v, NEW used \in SUBSET DOMAIN o.code
  PROVE  /\ Uses(o, v, used) \in Nat
         /\ Uses(o, v, used) = 0 => \A i \in used : FieldsUsing(o.code[i], v) = {}
         /\ Uses(o, v, used) = 1 =>
              \A i, j \in used : \A f \in FieldsUsing(o.code[i], v) :
                \A g \in FieldsUsing(o.code[j], v) : i = j /\ f = g
<1> DEFINE pairs == UNION {{i} \X FieldsUsing(o.code[i], v) : i \in used}
           names == {"left", "right", "op1", "op2", "ret", "arg", "write"}
<1>1. o.code \in Seq(TextCodes) /\ DOMAIN o.code = 1 .. Len(o.code) /\ Len(o.code) \in Nat
  BY DEF OptimizerType
<1>2. IsFiniteSet(names)
  <2>1. \A T : \A x : IsFiniteSet(T) => IsFiniteSet(T \cup {x})
    BY FS_AddElement
  <2>2. IsFiniteSet({"left"})
    BY FS_Singleton
  <2>3. IsFiniteSet({"left"} \cup {"right"})
    BY <2>1, <2>2
  <2>4. IsFiniteSet(({"left"} \cup {"right"}) \cup {"op1"})
    BY <2>1, <2>3
  <2>5. IsFiniteSet((({"left"} \cup {"right"}) \cup {"op1"}) \cup {"op2"})
    BY <2>1, <2>4
  <2>6. IsFiniteSet({"left", "right", "op1", "op2"} \cup {"ret"})
    <3>1. (({"left"} \cup {"right"}) \cup {"op1"}) \cup {"op2"} = {"left", "right", "op1", "op2"}
      OBVIOUS
    <3> QED BY <2>1, <2>5, <3>1
  <2>7. IsFiniteSet(({"left", "right", "op1", "op2"} \cup {"ret"}) \cup {"arg"})
    BY <2>1, <2>6
  <2>8. IsFiniteSet((({"left", "right", "op1", "op2"} \cup {"ret"}) \cup {"arg"}) \cup {"write"})
    BY <2>1, <2>7
  <2>9. (({"left", "right", "op1", "op2"} \cup {"ret"}) \cup {"arg"}) \cup {"write"} = names
    OBVIOUS
  <2> QED BY <2>8, <2>9
<1>3. IsFiniteSet((1 .. Len(o.code)) \X names)
  <2>1. IsFiniteSet(1 .. Len(o.code))
    BY <1>1, FS_Interval
  <2> HIDE DEF names
  <2> QED BY <2>1, <1>2, FS_Product
<1>4. \A i \in used : FieldsUsing(o.code[i], v) \subseteq names
  BY DEF FieldsUsing, UsingFields
<1>5. pairs \subseteq (1 .. Len(o.code)) \X names
  <2> SUFFICES ASSUME NEW x \in pairs PROVE x \in (1 .. Len(o.code)) \X names
    OBVIOUS
  <2>1. PICK i \in used : x \in {i} \X FieldsUsing(o.code[i], v)
    OBVIOUS
  <2>2. PICK f \in FieldsUsing(o.code[i], v) : x = <<i, f>>
    BY <2>1
  <2> HIDE DEF names
  <2>3. f \in names /\ i \in 1 .. Len(o.code)
    BY <1>1, <1>4, <2>2
  <2> QED BY <2>2, <2>3
<1>6. IsFiniteSet(pairs)
  BY <1>3, <1>5, FS_Subset
<1>7. Uses(o, v, used) = Cardinality(pairs)
  BY DEF Uses
<1>8. \A i \in used : \A f \in FieldsUsing(o.code[i], v) : <<i, f>> \in pairs
  OBVIOUS
<1> HIDE DEF pairs
<1>9. Cardinality(pairs) \in Nat
  BY <1>6, FS_CardinalityType
<1>10. Cardinality(pairs) = 0 => pairs = {}
  BY <1>6, FS_EmptySet
<1>11. Cardinality(pairs) = 1 => \E x : pairs = {x}
  BY <1>6, FS_Singleton
<1>12. ASSUME Cardinality(pairs) = 1, NEW i \in used, NEW j \in used,
              NEW f \in FieldsUsing(o.code[i], v), NEW g \in FieldsUsing(o.code[j], v)
       PROVE  i = j /\ f = g
  <2>1. <<i, f>> = <<j, g>>
    BY <1>8, <1>11, <1>12
  <2> QED BY <2>1
<1> QED BY <1>7, <1>8, <1>9, <1>10, <1>12

\* The counts are those of the codes that are there.
LEMMA CountedHolds ==
  ASSUME NEW o, WellFormed(o), NEW p, p = Counted(o)
  PROVE  /\ WellFormed(p)
         /\ \A v \in o.vars : p.usedTime[v] = 0 =>
              \A i \in LiveCodes(o) : FieldsUsing(o.code[i], v) = {}
<1> DEFINE live == LiveCodes(o)
           Used(v) == {i \in live : FieldsUsing(o.code[i], v) # {}}
           assigns == [v \in o.vars |-> Cardinality({i \in live : v \in CountedAssigns(o.code[i])})]
           uses == [v \in o.vars |-> Uses(o, v, Used(v))]
           lasts == [v \in o.vars |-> IF Used(v) = {} THEN 0 ELSE Max(Used(v))]
<1>1. OptimizerType(o)
  BY DEF WellFormed
<1>2. p = [o EXCEPT !.assignTime = assigns, !.usedTime = uses, !.usedCode = lasts]
  BY DEF Counted
<1>3. /\ DOMAIN o.code = 1 .. Len(o.code) /\ Len(o.code) \in Nat
      /\ live \subseteq 1 .. Len(o.code)
  BY <1>1 DEF OptimizerType, LiveCodes
<1>4. assigns \in [o.vars -> Nat]
  <2> SUFFICES ASSUME NEW v \in o.vars
               PROVE  Cardinality({i \in live : v \in CountedAssigns(o.code[i])}) \in Nat
    OBVIOUS
  <2>1. IsFiniteSet(1 .. Len(o.code))
    BY <1>3, FS_Interval
  <2>2. {i \in live : v \in CountedAssigns(o.code[i])} \in SUBSET (1 .. Len(o.code))
    BY <1>3
  <2> QED BY <2>1, <2>2, FS_Subset, FS_CardinalityType
<1>5. \A v : Used(v) \in SUBSET (1 .. Len(o.code))
  BY <1>3
<1>6. uses \in [o.vars -> Nat]
  BY <1>1, <1>3, <1>5, UseCount
<1>7. \A v : Used(v) # {} => Max(Used(v)) \in Used(v)
  <2> HIDE DEF Used
  <2> QED BY <1>3, <1>5, LargestElement
<1>8. lasts \in [o.vars -> Nat]
  <2> SUFFICES ASSUME NEW v \in o.vars
               PROVE  (IF Used(v) = {} THEN 0 ELSE Max(Used(v))) \in Nat
    OBVIOUS
  <2>1. Used(v) # {} => Max(Used(v)) \in 1 .. Len(o.code)
    BY <1>5, <1>7
  <2> HIDE DEF Used
  <2> QED BY <2>1, <1>3
<1>9. /\ p.code = o.code /\ p.vars = o.vars /\ p.ignore = o.ignore /\ p.name = o.name
      /\ p.assignTime = assigns /\ p.usedTime = uses /\ p.usedCode = lasts
      /\ p.sound = o.sound
  <2> HIDE DEF assigns, uses, lasts
  <2> QED BY <1>1, <1>2 DEF OptimizerType
<1> HIDE DEF assigns
<1>10. OptimizerType(p)
  <2> HIDE DEF uses, lasts
  <2>1. p = [code |-> o.code, vars |-> o.vars, ignore |-> o.ignore, name |-> o.name,
             assignTime |-> assigns, usedTime |-> uses, usedCode |-> lasts, sound |-> o.sound]
    BY <1>1, <1>2 DEF OptimizerType
  <2> QED BY <1>1, <1>4, <1>6, <1>8, <2>1 DEF OptimizerType
<1>11. VariablesAreCounted(p) /\ LabelsDiffer(p) /\ JumpsHaveLabels(p)
  BY <1>9 DEF WellFormed, VariablesAreCounted, LabelsDiffer, JumpsHaveLabels, LiveCodes
<1>12. ASSUME NEW v \in o.vars, uses[v] = 1
       PROVE  /\ lasts[v] \in DOMAIN o.code
              /\ \A i \in live : \A f, g \in FieldsUsing(o.code[i], v) : i = lasts[v] /\ f = g
  <2>1. Uses(o, v, Used(v)) = 1
    BY <1>12
  <2>2. \A i, j \in Used(v) : \A f \in FieldsUsing(o.code[i], v) :
          \A g \in FieldsUsing(o.code[j], v) : i = j /\ f = g
    BY <1>1, <1>3, <1>5, <2>1, UseCount
  <2>3. Used(v) # {}
    <3> SUFFICES ASSUME Used(v) = {} PROVE FALSE
      OBVIOUS
    <3>1. Uses(o, v, {}) = Cardinality({})
      BY DEF Uses
    <3>2. Cardinality({}) = 0
      BY FS_EmptySet
    <3> QED BY <2>1, <3>1, <3>2
  <2>4. lasts[v] \in Used(v)
    BY <1>7, <2>3
  <2>5. lasts[v] \in DOMAIN o.code
    BY <2>4, <1>3
  <2> QED BY <2>2, <2>4, <2>5
<1>13. CountsHold(p)
  <2>1. LiveCodes(p) = live
    BY <1>9 DEF LiveCodes
  <2> HIDE DEF uses, lasts, live
  <2> QED BY <1>9, <1>12, <2>1 DEF CountsHold
<1>14. ASSUME NEW v \in o.vars, uses[v] = 0, NEW i \in live
       PROVE  FieldsUsing(o.code[i], v) = {}
  <2>1. Uses(o, v, Used(v)) = 0
    BY <1>14
  <2>2. Used(v) \in SUBSET DOMAIN o.code
    BY <1>3
  <2>3. \A j \in Used(v) : FieldsUsing(o.code[j], v) = {}
    <3> HIDE DEF Used
    <3> QED BY <1>1, <2>1, <2>2, UseCount
  <2> QED BY <2>3, <1>14
<1> QED BY <1>9, <1>10, <1>11, <1>13, <1>14 DEF WellFormed

\* optimizeDeadAssign leaves a program well formed.
LEMMA DeadAssignKeeps ==
  ASSUME NEW o, WellFormed(o)
  PROVE  WellFormed(optimizeDeadAssign(o))
<1>1. PICK p : p = Counted(o)
  OBVIOUS
<1>2. WellFormed(p)
  BY <1>1, CountedHolds
<1> DEFINE D == {i \in DOMAIN p.code : \E v \in OnlyComputes(p.code[i]) : p.usedTime[v] = 0}
<1>3. \A i \in D : p.code[i].op # "Label"
  BY DEF OnlyComputes, ArithKinds
<1>4. WellFormed([p EXCEPT !.ignore = @ \cup D])
  <2> HIDE DEF D
  <2> DEFINE q == [p EXCEPT !.ignore = @ \cup D]
  <2>1. q = [p EXCEPT !.ignore = @ \cup D]
    OBVIOUS
  <2>2. D \in SUBSET DOMAIN p.code
    BY DEF D
  <2> HIDE DEF q
  <2>3. WellFormed(q)
    BY <1>2, <1>3, <2>1, <2>2, DroppingCodes
  <2> QED BY <2>1, <2>3
<1> QED BY <1>1, <1>4 DEF optimizeDeadAssign, WithoutDead

-----------------------------------------------------------------------------
(* optimizeDupGoto *)

\* optimizeDupGoto leaves a program well formed.
LEMMA DupGotoKeeps ==
  ASSUME NEW o, WellFormed(o)
  PROVE  WellFormed(optimizeDupGoto(o))
<1> DEFINE D == {i \in LiveCodes(o) : JumpsNowhere(o, i)}
           q == [o EXCEPT !.ignore = @ \cup D]
<1>1. \A i \in D : o.code[i].op # "Label"
  BY DEF JumpsNowhere
<1>2. D \in SUBSET DOMAIN o.code
  BY DEF LiveCodes
<1>3. optimizeDupGoto(o) = q
  BY DEF optimizeDupGoto
<1>4. q = [o EXCEPT !.ignore = @ \cup D]
  OBVIOUS
<1> HIDE DEF D, q
<1>5. WellFormed(q)
  BY <1>1, <1>2, <1>4, DroppingCodes
<1> QED BY <1>3, <1>5

-----------------------------------------------------------------------------
(* optimizeConstExp *)

\* optimizeConstExp leaves a program well formed.
LEMMA ConstExpKeeps ==
  ASSUME NEW o, WellFormed(o), NEW p, p = optimizeConstExp(o)
  PROVE  WellFormed(p)
<1>1. OptimizerType(o)
  BY DEF WellFormed
<1> DEFINE folded == [i \in DOMAIN o.code |-> Folded(o.code[i])]
<1>2. p = [code |-> folded, vars |-> o.vars, ignore |-> o.ignore, name |-> o.name,
           assignTime |-> o.assignTime, usedTime |-> o.usedTime, usedCode |-> o.usedCode,
           sound |-> o.sound]
  BY <1>1 DEF OptimizerType, optimizeConstExp
<1>3. DOMAIN o.code = 1 .. Len(o.code) /\ Len(o.code) \in Nat /\ o.code \in Seq(TextCodes)
  BY <1>1 DEF OptimizerType
<1>4. ASSUME NEW i \in DOMAIN o.code
      PROVE  /\ folded[i] = Folded(o.code[i])
             /\ o.code[i] \in TextCodes
             /\ Folded(o.code[i]) \in TextCodes
             /\ \A v : FieldsUsing(folded[i], v) \subseteq FieldsUsing(o.code[i], v)
             /\ OnlyComputes(folded[i]) \subseteq OnlyComputes(o.code[i])
             /\ folded[i].op = "Label" <=> o.code[i].op = "Label"
             /\ o.code[i].op \in {"Label", "Goto", "Branch"} => folded[i].label = o.code[i].label
             /\ folded[i].op \in {"Goto", "Branch"} <=> o.code[i].op \in {"Goto", "Branch"}
  <2>1. o.code[i] \in TextCodes
    BY <1>3
  <2> QED BY <2>1, FoldedCode
<1>5. folded \in Seq(TextCodes) /\ DOMAIN folded = DOMAIN o.code
  <2>1. folded \in [1 .. Len(o.code) -> TextCodes]
    BY <1>3, <1>4
  <2> HIDE DEF folded
  <2> QED BY <1>3, <2>1
<1> HIDE DEF folded
<1>6. LabelsOf(folded) = LabelsOf(o.code)
  <2>1. {j \in DOMAIN folded : folded[j].op = "Label"} = {j \in DOMAIN o.code : o.code[j].op = "Label"}
    BY <1>4, <1>5
  <2> QED BY <1>4, <2>1 DEF LabelsOf
<1>7. OptimizerType(p)
  BY <1>1, <1>2, <1>5, <1>6 DEF OptimizerType
<1>8. VariablesAreCounted(p)
  BY <1>2, <1>4, <1>5 DEF WellFormed, VariablesAreCounted
<1>9. LabelsDiffer(p)
  BY <1>2, <1>4, <1>5 DEF WellFormed, LabelsDiffer
<1>10. JumpsHaveLabels(p)
  BY <1>2, <1>4, <1>5 DEF WellFormed, JumpsHaveLabels, LiveCodes
<1>11. CountsHold(p)
  <2>1. LiveCodes(p) = LiveCodes(o) /\ LiveCodes(o) \subseteq DOMAIN o.code
    BY <1>2, <1>5 DEF LiveCodes
  <2>2. CountsHold(o)
    BY DEF WellFormed
  <2>3. /\ p.vars = o.vars /\ p.usedTime = o.usedTime /\ p.usedCode = o.usedCode
        /\ p.ignore = o.ignore /\ p.code = folded
    BY <1>2
  <2>4. ASSUME NEW v \in o.vars, o.usedTime[v] = 1
        PROVE  o.usedCode[v] \in DOMAIN folded
    BY <1>5, <2>2, <2>4 DEF CountsHold
  <2>5. ASSUME NEW v \in o.vars, o.usedTime[v] = 1, o.usedCode[v] \notin o.ignore,
               NEW i \in LiveCodes(o), NEW f \in FieldsUsing(folded[i], v),
               NEW g \in FieldsUsing(folded[i], v)
        PROVE  i = o.usedCode[v] /\ f = g
    <3>1. {f, g} \subseteq FieldsUsing(o.code[i], v)
      BY <1>4, <2>1
    <3> QED BY <2>2, <2>5, <3>1 DEF CountsHold
  <2> QED BY <2>1, <2>3, <2>4, <2>5 DEF CountsHold
<1> QED BY <1>7, <1>8, <1>9, <1>10, <1>11 DEF WellFormed

-----------------------------------------------------------------------------
(* optimizeDupVar *)

\* The code i assigns v, which u uses and nobody else.
GoesInto(o, i, v, u) ==
  /\ i \in LiveCodes(o) /\ o.code[i] \in TextCodes
  /\ o.code[i].op = "Assign" /\ o.code[i].left = Var(v) /\ v \in o.vars
  /\ o.code[i].right \in Operands /\ o.code[i].right.kind # "Deref"
  /\ u \in LiveCodes(o) /\ o.code[u] \in TextCodes
  /\ \A k \in LiveCodes(o) : \A f, g \in FieldsUsing(o.code[k], v) : k = u /\ f = g

\* What CanForward has seen.
LEMMA ForwardFacts ==
  ASSUME NEW o, WellFormed(o), NEW i \in Nat \ {0}, i <= Len(o.code), CanForward(o, i)
  PROVE  GoesInto(o, i, o.code[i].left.var, o.usedCode[o.code[i].left.var])
<1> DEFINE v == o.code[i].left.var
           u == o.usedCode[v]
<1> SUFFICES GoesInto(o, i, v, u)
  OBVIOUS
<1>1. OptimizerType(o)
  BY DEF WellFormed
<1>2. /\ DOMAIN o.code = 1 .. Len(o.code) /\ Len(o.code) \in Nat
      /\ \A j \in DOMAIN o.code : o.code[j] \in TextCodes
  BY <1>1 DEF OptimizerType
<1>3. i \in DOMAIN o.code
  BY <1>2
<1>4. /\ i \in LiveCodes(o) /\ o.code[i] \in TextCodes
      /\ o.code[i].op = "Assign" /\ o.code[i].left.kind = "Variable"
      /\ o.code[i].right.kind # "Deref" /\ o.usedTime[v] = 1 /\ u \notin o.ignore
  BY <1>2, <1>3 DEF CanForward, LiveCodes
<1>5. o.code[i].left \in Targets /\ o.code[i].right \in Operands
  BY <1>4, CodeFields DEF ArithKinds
<1>6. o.code[i].left = Var(v)
  BY <1>4, <1>5, TargetFields, OperandFields
<1>7. v \in o.vars
  <2>1. OnlyComputes(o.code[i]) = {v}
    BY <1>4 DEF OnlyComputes, ArithKinds
  <2> QED BY <2>1, <1>3 DEF WellFormed, VariablesAreCounted
<1>8. CountsHold(o)
  BY DEF WellFormed
<1>9. u \in DOMAIN o.code
  BY <1>4, <1>7, <1>8 DEF CountsHold
<1>10. \A k \in LiveCodes(o) : \A f, g \in FieldsUsing(o.code[k], v) : k = u /\ f = g
  BY <1>4, <1>7, <1>8 DEF CountsHold
<1>11. u \in LiveCodes(o)
  BY <1>4, <1>9 DEF LiveCodes
<1> QED BY <1>2, <1>4, <1>5, <1>6, <1>7, <1>9, <1>10, <1>11 DEF GoesInto

\* Forwarding changes nothing, or one operand.
LEMMA ForwardChanges ==
  ASSUME NEW o, NEW i, NEW v, v = o.code[i].left.var, NEW u, u = o.usedCode[v],
         NEW p, p = Forward(o, i), p # o
  PROVE  /\ CanForward(o, i)
         /\ \E k \in DOMAIN Receivers(o.code[u]) :
              /\ o.code[u][Receivers(o.code[u])[k]] = Var(v)
              /\ p = PutInto(o, i, u, Receivers(o.code[u])[k])
<1> DEFINE receivers == Receivers(o.code[u])
           fitting == {k \in DOMAIN receivers : o.code[u][receivers[k]] = Var(v)}
<1>1. CanForward(o, i)
  BY DEF Forward
<1>2. p = IF fitting = {} THEN o ELSE PutInto(o, i, u, receivers[Min(fitting)])
  BY <1>1 DEF Forward
<1>3. fitting # {} /\ p = PutInto(o, i, u, receivers[Min(fitting)])
  <2> HIDE DEF fitting, receivers
  <2> QED BY <1>2
<1>4. DOMAIN receivers \subseteq {1, 2}
  <2>1. receivers \in {<<"right">>, <<"op1", "op2">>, <<"ret">>, <<"arg">>, <<"write">>, << >>}
    BY DEF Receivers, ArithKinds
  <2> HIDE DEF receivers
  <2>2. DOMAIN receivers = 1 .. Len(receivers) /\ Len(receivers) \in {0, 1, 2}
    BY <2>1
  <2> QED BY <2>2
<1>5. fitting \subseteq {1, 2}
  BY <1>4
<1>6. Min(fitting) \in fitting
  <2>1. \E x \in fitting : \A y \in fitting : x <= y
    <3> HIDE DEF fitting
    <3>1. CASE 1 \in fitting
      BY <3>1, <1>5
    <3>2. CASE 1 \notin fitting
      <4>1. fitting = {2}
        BY <3>2, <1>3, <1>5
      <4> QED BY <4>1
    <3> QED BY <3>1, <3>2
  <2> HIDE DEF fitting
  <2> QED BY <2>1 DEF Min
<1>7. PICK k \in DOMAIN receivers : k = Min(fitting) /\ o.code[u][receivers[k]] = Var(v)
  BY <1>6
<1> HIDE DEF fitting
<1> QED BY <1>1, <1>3, <1>7

\* Forwarding leaves a program well formed.
LEMMA ForwardKeeps ==
  ASSUME NEW o, WellFormed(o), NEW i \in Nat \ {0}, i <= Len(o.code)
  PROVE  WellFormed(Forward(o, i))
<1> DEFINE v == o.code[i].left.var
           u == o.usedCode[v]
           p == Forward(o, i)
<1> SUFFICES ASSUME p # o PROVE WellFormed(p)
  OBVIOUS
<1> HIDE DEF p
<1>1. CanForward(o, i)
  BY ForwardChanges DEF p
<1>2. PICK k \in DOMAIN Receivers(o.code[u]) :
        /\ o.code[u][Receivers(o.code[u])[k]] = Var(v)
        /\ p = PutInto(o, i, u, Receivers(o.code[u])[k])
  <2> HIDE DEF v, u
  <2> QED BY ForwardChanges DEF p, v, u
<1>3. /\ i \in LiveCodes(o) /\ o.code[i] \in TextCodes
      /\ o.code[i].op = "Assign" /\ o.code[i].left = Var(v) /\ v \in o.vars
      /\ o.code[i].right \in Operands /\ o.code[i].right.kind # "Deref"
      /\ u \in LiveCodes(o) /\ o.code[u] \in TextCodes
      /\ \A j \in LiveCodes(o) : \A f, g \in FieldsUsing(o.code[j], v) : j = u /\ f = g
  BY <1>1, ForwardFacts DEF GoesInto
<1>4. OptimizerType(o)
  BY DEF WellFormed
<1>5. DOMAIN o.code = 1 .. Len(o.code) /\ Len(o.code) \in Nat /\ o.code \in Seq(TextCodes)
  BY <1>4 DEF OptimizerType
<1> DEFINE h == Receivers(o.code[u])[k]
           x == o.code[i].right
           d == [o.code[u] EXCEPT ![h] = x]
           new == [o.code EXCEPT ![u] = d]
<1>6. p = [o EXCEPT !.code = new, !.ignore = @ \cup {i},
                    !.sound = @ /\ Justified(o, i, u, v, x)]
  BY <1>2 DEF PutInto
<1>7. /\ d \in TextCodes /\ d.op = o.code[u].op
      /\ h \in UsingFields(o.code[u]) /\ UsingFields(d) = UsingFields(o.code[u])
      /\ \A f \in UsingFields(o.code[u]) : d[f] = IF f = h THEN x ELSE o.code[u][f]
      /\ OnlyComputes(d) = OnlyComputes(o.code[u])
      /\ o.code[u].op \in {"Label", "Goto", "Branch"} => d.label = o.code[u].label
  <2> DEFINE c == o.code[u]
  <2>1. c \in TextCodes /\ x \in Operands /\ k \in DOMAIN Receivers(c) /\ h = Receivers(c)[k]
        /\ d = [c EXCEPT ![h] = x]
    BY <1>2, <1>3
  <2> HIDE DEF c, x, h, d
  <2>2. IsPut(c, h, x, d)
    BY <2>1, PutField
  <2> QED BY <2>2 DEF c, IsPut
<1> HIDE DEF d, h, u, v
<1>8. u \in DOMAIN o.code /\ i \in DOMAIN o.code
  BY <1>3 DEF LiveCodes
<1>9. /\ new \in Seq(TextCodes) /\ DOMAIN new = DOMAIN o.code
      /\ \A j \in DOMAIN o.code : new[j] = IF j = u THEN d ELSE o.code[j]
  BY <1>5, <1>7, <1>8
<1>10. ASSUME NEW j \in DOMAIN o.code
       PROVE  /\ new[j].op = o.code[j].op
              /\ OnlyComputes(new[j]) = OnlyComputes(o.code[j])
              /\ o.code[j].op \in {"Label", "Goto", "Branch"} => new[j].label = o.code[j].label
  BY <1>7, <1>9
<1>11. /\ p.code = new /\ p.vars = o.vars /\ p.ignore = o.ignore \cup {i} /\ p.name = o.name
       /\ p.assignTime = o.assignTime /\ p.usedTime = o.usedTime /\ p.usedCode = o.usedCode
       /\ p.sound = (o.sound /\ Justified(o, i, u, v, x))
  <2> HIDE DEF new, x
  <2> QED BY <1>4, <1>6 DEF OptimizerType
<1> HIDE DEF new
<1>12. LabelsOf(new) = LabelsOf(o.code)
  <2>1. {j \in DOMAIN new : new[j].op = "Label"} = {j \in DOMAIN o.code : o.code[j].op = "Label"}
    BY <1>9, <1>10
  <2>2. \A j \in {k_1 \in DOMAIN o.code : o.code[k_1].op = "Label"} : new[j].label = o.code[j].label
    BY <1>10
  <2> QED BY <2>1, <2>2 DEF LabelsOf
<1>13. OptimizerType(p)
  <2>1. p = [code |-> new, vars |-> o.vars, ignore |-> o.ignore \cup {i}, name |-> o.name,
             assignTime |-> o.assignTime, usedTime |-> o.usedTime, usedCode |-> o.usedCode,
             sound |-> o.sound /\ Justified(o, i, u, v, x)]
    <3> HIDE DEF x
    <3> QED BY <1>4, <1>6 DEF OptimizerType
  <2>2. (o.sound /\ Justified(o, i, u, v, x)) \in BOOLEAN
    <3> DEFINE J == Justified(o, i, u, v, x)
    <3>1. o.sound \in BOOLEAN /\ J \in BOOLEAN
      BY <1>4 DEF OptimizerType, Justified
    <3> HIDE DEF J
    <3> QED BY <3>1
  <2> HIDE DEF x
  <2> QED BY <1>4, <1>8, <1>9, <1>12, <2>1, <2>2 DEF OptimizerType
<1>14. VariablesAreCounted(p)
  BY <1>9, <1>10, <1>11 DEF WellFormed, VariablesAreCounted
<1>15. LabelsDiffer(p)
  BY <1>9, <1>10, <1>11 DEF WellFormed, LabelsDiffer
<1>16. JumpsHaveLabels(p)
  BY <1>3, <1>9, <1>10, <1>11 DEF WellFormed, JumpsHaveLabels, LiveCodes
<1>17. LiveCodes(p) = LiveCodes(o) \ {i} /\ LiveCodes(o) \subseteq DOMAIN o.code
  BY <1>9, <1>11 DEF LiveCodes
<1>18. ASSUME NEW w \in o.vars, o.usedTime[w] = 1, o.usedCode[w] \notin o.ignore \cup {i},
              NEW j \in LiveCodes(o) \ {i},
              NEW f \in FieldsUsing(new[j], w)
       PROVE  f \in FieldsUsing(o.code[j], w)
  <2>1. CASE j # u
    BY <2>1, <1>9, <1>17
  <2>2. CASE j = u
    <3>1. f \in UsingFields(o.code[u]) /\ d[f].kind # "Constant" /\ d[f].var = w
      BY <2>2, <1>7, <1>8, <1>9 DEF FieldsUsing
    <3>2. CASE f # h
      BY <2>2, <3>1, <3>2, <1>7 DEF FieldsUsing
    <3>3. CASE f = h
      <4>1. x.kind # "Constant" /\ x.var = w
        BY <3>1, <3>3, <1>7
      <4>2. "right" \in FieldsUsing(o.code[i], w)
        BY <4>1, <1>3 DEF FieldsUsing, UsingFields, ArithKinds
      <4>3. i = o.usedCode[w]
        BY <4>2, <1>3, <1>18 DEF WellFormed, CountsHold
      <4> QED BY <4>3, <1>18
    <3> QED BY <3>2, <3>3
  <2> QED BY <2>1, <2>2
<1>19. CountsHold(p)
  <2>1. CountsHold(o)
    BY DEF WellFormed
  <2>2. ASSUME NEW w \in o.vars, o.usedTime[w] = 1
        PROVE  o.usedCode[w] \in DOMAIN new
    BY <1>9, <2>1, <2>2 DEF CountsHold
  <2>3. ASSUME NEW w \in o.vars, o.usedTime[w] = 1, o.usedCode[w] \notin o.ignore \cup {i},
               NEW j \in LiveCodes(o) \ {i}, NEW f \in FieldsUsing(new[j], w),
               NEW g \in FieldsUsing(new[j], w)
        PROVE  j = o.usedCode[w] /\ f = g
    <3>1. {f, g} \subseteq FieldsUsing(o.code[j], w)
      BY <1>18, <2>3
    <3> QED BY <2>1, <2>3, <3>1 DEF CountsHold
  <2> QED BY <1>11, <1>17, <2>2, <2>3 DEF CountsHold
<1> QED BY <1>13, <1>14, <1>15, <1>16, <1>19 DEF WellFormed

-----------------------------------------------------------------------------
(* optimizeDupLabel *)

\* There is a smallest among some of the numbers from 1 on.
LEMMA SmallestElement ==
  ASSUME NEW T \in SUBSET (Nat \ {0}), T # {}
  PROVE  Min(T) \in T /\ \A x \in T : Min(T) <= x
<1> DEFINE S == Nat \ T
<1>1. \E m \in Nat : m \notin S
  OBVIOUS
<1>2. PICK m \in Nat : m \notin S /\ \A l \in Nat : l < m => l \in S
  <2> HIDE DEF S
  <2> QED BY <1>1, SetInduction
<1>3. m \in T /\ \A x \in T : m <= x
  BY <1>2
<1> QED BY <1>3 DEF Min

LiveLabels(o) == {i \in LiveCodes(o) : o.code[i].op = "Label"}

\* Only labels are between the first of a group and each of the others.
LEMMA LeaderFacts ==
  ASSUME NEW o, OptimizerType(o), NEW i \in LiveLabels(o)
  PROVE  /\ Leader(o, i) \in LiveLabels(o) /\ Leader(o, i) <= i
         /\ \A k \in LiveCodes(o) : Leader(o, i) <= k /\ k <= i => o.code[k].op = "Label"
         /\ Leader(o, Leader(o, i)) = Leader(o, i)
<1> DEFINE S(m) == {j \in LiveCodes(o) :
                      j <= m /\ \A k \in LiveCodes(o) : j <= k /\ k <= m => o.code[k].op = "Label"}
<1>1. LiveCodes(o) \subseteq Nat \ {0}
  BY DEF OptimizerType, LiveCodes
<1>2. \A m \in LiveLabels(o) : m \in S(m) /\ S(m) \in SUBSET (Nat \ {0}) /\ S(m) # {}
  BY <1>1 DEF LiveLabels
<1>3. \A m : Leader(o, m) = Min(S(m))
  BY DEF Leader
<1>4. ASSUME NEW m \in LiveLabels(o)
      PROVE  Leader(o, m) \in S(m) /\ \A x \in S(m) : Leader(o, m) <= x
  <2>1. S(m) \in SUBSET (Nat \ {0}) /\ S(m) # {}
    BY <1>2
  <2> HIDE DEF S
  <2> QED BY <1>3, <2>1, SmallestElement
<1>5. /\ Leader(o, i) \in LiveCodes(o) /\ Leader(o, i) <= i
      /\ \A k \in LiveCodes(o) : Leader(o, i) <= k /\ k <= i => o.code[k].op = "Label"
  BY <1>4
<1>6. Leader(o, i) \in LiveLabels(o)
  BY <1>1, <1>5 DEF LiveLabels
<1>7. PICK l : l = Leader(o, i)
  OBVIOUS
<1>8. Leader(o, l) \in S(l) /\ \A x \in S(l) : Leader(o, l) <= x
  BY <1>4, <1>6, <1>7
<1>9. S(l) \subseteq S(i)
  <2> SUFFICES ASSUME NEW j \in S(l) PROVE j \in S(i)
    OBVIOUS
  <2>1. i \in Nat /\ l \in Nat /\ j \in Nat /\ l <= i /\ j <= l
    BY <1>1, <1>5, <1>6, <1>7 DEF LiveLabels
  <2>2. ASSUME NEW k \in LiveCodes(o), j <= k, k <= i PROVE o.code[k].op = "Label"
    <3>1. k \in Nat
      BY <1>1
    <3> QED BY <1>5, <1>7, <2>1, <2>2, <3>1
  <2> QED BY <2>1, <2>2
<1>10. Leader(o, l) = l
  <2>1. l \in S(l) /\ l \in Nat /\ Leader(o, l) \in Nat
    BY <1>1, <1>2, <1>6, <1>7, <1>8 DEF LiveLabels
  <2>2. l <= Leader(o, l)
    BY <1>4, <1>7, <1>8, <1>9
  <2> QED BY <1>8, <2>1, <2>2
<1> QED BY <1>5, <1>6, <1>7, <1>10

\* The labels that go, and the names after that.
DupLabels(o) == {i \in LiveLabels(o) : Leader(o, i) # i}

\* The place j of the label of a jump to l is now j2, before which are the same
\* codes.
Moves(o, p, l, j, j2) ==
  /\ j2 \in LiveLabels(o) \ DupLabels(o) /\ j2 <= j
  /\ \A k \in LiveCodes(o) : j2 <= k /\ k <= j => o.code[k].op = "Label"
  /\ p.name[o.code[j2].label] = p.name[l]

\* Labels have gone, and every jump finds its place again.
Relabelled(o, p) ==
  /\ p.name \in [LabelsOf(o.code) -> Nat]
  /\ p = [o EXCEPT !.name = p.name, !.ignore = @ \cup DupLabels(o)]
  /\ \A i \in LiveLabels(o) \ DupLabels(o) : p.name[o.code[i].label] = o.name[o.code[i].label]
  /\ \A i \in LiveCodes(o) : \A j \in LiveLabels(o) :
       /\ o.code[i].op \in {"Goto", "Branch"}
       /\ o.name[o.code[j].label] = o.name[o.code[i].label]
       => \E j2 : Moves(o, p, o.code[i].label, j, j2)

LEMMA DupLabelFacts ==
  ASSUME NEW o, WellFormed(o), NEW p, p = optimizeDupLabel(o), p.sound
  PROVE  o.sound /\ Relabelled(o, p)
<1> DEFINE lead == [i \in LiveLabels(o) |-> Leader(o, i)]
           dups == DupLabels(o)
           NewName(l) == IF \E i \in dups : o.code[i].label = l
                         THEN o.name[o.code[lead[CHOOSE i \in dups : o.code[i].label = l]].label]
                         ELSE o.name[l]
           Jumps   == {o.code[i].label : i \in {j \in LiveCodes(o) : o.code[j].op \in {"Goto", "Branch"}}}
           Left(l) == NewName(l) = o.name[l] /\ \E i \in dups : o.name[o.code[i].label] = o.name[l]
           name == [l \in DOMAIN o.name |-> NewName(l)]
           sound == o.sound /\ \A l \in Jumps : ~Left(l)
<1>1. OptimizerType(o) /\ LabelsDiffer(o)
  BY DEF WellFormed
<1>2. dups = {i \in LiveLabels(o) : lead[i] # i}
  BY DEF DupLabels
<1>3. p = [o EXCEPT !.name = name, !.ignore = @ \cup dups, !.sound = sound]
  <2>1. p = DropLabels(o, lead, dups)
    BY <1>2 DEF optimizeDupLabel, LiveLabels
  <2> HIDE DEF lead, dups
  <2> QED BY <2>1 DEF DropLabels
<1> HIDE DEF lead, dups
<1>4. p.name = name /\ p.sound = sound
  <2> HIDE DEF name, sound
  <2> QED BY <1>1, <1>3 DEF OptimizerType
<1>5. o.sound /\ \A l \in Jumps : ~Left(l)
  <2> HIDE DEF Jumps, Left
  <2> QED BY <1>1, <1>4 DEF OptimizerType
<1>6. p = [o EXCEPT !.name = p.name, !.ignore = @ \cup dups]
  <2> HIDE DEF name, Jumps, Left
  <2>1. sound = TRUE /\ o.sound = TRUE
    BY <1>1, <1>5 DEF OptimizerType
  <2> HIDE DEF sound
  <2> QED BY <1>1, <1>3, <1>4, <2>1 DEF OptimizerType
<1>7. /\ DOMAIN o.name = LabelsOf(o.code) /\ o.name \in [LabelsOf(o.code) -> Nat]
      /\ LiveCodes(o) \subseteq DOMAIN o.code
      /\ \A i \in LiveLabels(o) : o.code[i].label \in LabelsOf(o.code)
  BY <1>1 DEF OptimizerType, LiveCodes, LiveLabels, LabelsOf
<1>8. \A i, j \in LiveLabels(o) : o.code[i].label = o.code[j].label => i = j
  BY <1>1, <1>7 DEF LabelsDiffer, LiveLabels
<1>9. \A i, j \in LiveLabels(o) : o.name[o.code[i].label] = o.name[o.code[j].label] => i = j
  BY <1>1 DEF LabelsDiffer, LiveLabels, LiveCodes
<1>10. dups \subseteq LiveLabels(o)
  BY <1>2
<1>11. \A i \in LiveLabels(o) :
         /\ lead[i] \in LiveLabels(o) \ dups /\ lead[i] <= i
         /\ \A k \in LiveCodes(o) : lead[i] <= k /\ k <= i => o.code[k].op = "Label"
  BY <1>1, LeaderFacts DEF dups, DupLabels, lead
<1>12. ASSUME NEW d \in dups
       PROVE  NewName(o.code[d].label) = o.name[o.code[lead[d]].label]
  <2> DEFINE e == CHOOSE i \in dups : o.code[i].label = o.code[d].label
  <2>1. e \in dups /\ o.code[e].label = o.code[d].label
    OBVIOUS
  <2> HIDE DEF e
  <2>2. e = d
    BY <1>8, <1>10, <2>1
  <2> QED BY <2>2 DEF e
<1>13. \A l : (\A i \in dups : o.code[i].label # l) => NewName(l) = o.name[l]
  OBVIOUS
<1>14. \A i \in LiveLabels(o) \ dups : NewName(o.code[i].label) = o.name[o.code[i].label]
  <2> HIDE DEF NewName
  <2> QED BY <1>8, <1>10, <1>13
<1>15. \A l \in LabelsOf(o.code) : p.name[l] = NewName(l)
  <2> HIDE DEF NewName
  <2> QED BY <1>4, <1>7
<1>16. \A l \in LabelsOf(o.code) : NewName(l) \in Nat
  <2> SUFFICES ASSUME NEW l \in LabelsOf(o.code) PROVE NewName(l) \in Nat
    OBVIOUS
  <2> HIDE DEF NewName
  <2>1. CASE \A i \in dups : o.code[i].label # l
    BY <2>1, <1>7, <1>13
  <2>2. CASE \E i \in dups : o.code[i].label = l
    BY <2>2, <1>7, <1>10, <1>11, <1>12
  <2> QED BY <2>1, <2>2
<1>17. p.name \in [LabelsOf(o.code) -> Nat]
  <2> HIDE DEF NewName
  <2> QED BY <1>4, <1>7, <1>16
<1>18. \A i \in LiveLabels(o) \ dups : p.name[o.code[i].label] = o.name[o.code[i].label]
  <2> HIDE DEF NewName
  <2> QED BY <1>7, <1>14, <1>15
<1>19. ASSUME NEW i \in LiveCodes(o), NEW j \in LiveLabels(o),
              o.code[i].op \in {"Goto", "Branch"},
              o.name[o.code[j].label] = o.name[o.code[i].label]
       PROVE  \E j2 : Moves(o, p, o.code[i].label, j, j2)
  <2> DEFINE l == o.code[i].label
  <2>1. l \in Jumps /\ ~Left(l)
    BY <1>5, <1>19
  <2>2. l \in LabelsOf(o.code)
    BY <1>7, <1>19 DEF WellFormed, JumpsHaveLabels
  <2>3. j \in Nat
    BY <1>1, <1>7 DEF OptimizerType, LiveLabels
  <2>4. CASE \E d \in dups : o.code[d].label = l
    <3>1. PICK d \in dups : o.code[d].label = l
      BY <2>4
    <3>2. d = j
      BY <1>9, <1>10, <1>19, <3>1
    <3>3. Moves(o, p, l, j, lead[j])
      <4>1. p.name[l] = o.name[o.code[lead[j]].label]
        <5>1. p.name[l] = NewName(l)
          BY <1>15, <2>2
        <5>2. NewName(o.code[d].label) = o.name[o.code[lead[d]].label]
          BY <1>12
        <5> HIDE DEF NewName, l
        <5> QED BY <5>1, <5>2, <3>1, <3>2
      <4>2. p.name[o.code[lead[j]].label] = o.name[o.code[lead[j]].label]
        BY <1>11, <1>18
      <4> HIDE DEF l
      <4> QED BY <1>11, <4>1, <4>2 DEF Moves, dups
    <3> QED BY <3>3
  <2>5. CASE \A d \in dups : o.code[d].label # l
    <3>1. NewName(l) = o.name[l]
      BY <1>13, <2>5
    <3>2. j \notin dups
      BY <1>19, <2>1, <3>1
    <3>3. Moves(o, p, l, j, j)
      <4>1. p.name[l] = o.name[l] /\ p.name[o.code[j].label] = o.name[o.code[j].label]
        <5> HIDE DEF NewName, l
        <5> QED BY <1>15, <1>18, <2>2, <3>1, <3>2
      <4>2. ASSUME NEW k \in LiveCodes(o), j <= k, k <= j PROVE o.code[k].op = "Label"
        <5>1. k \in Nat
          BY <1>1, <1>7 DEF OptimizerType
        <5>2. k = j
          BY <2>3, <4>2, <5>1
        <5> QED BY <5>2 DEF LiveLabels
      <4> QED BY <1>19, <2>3, <3>2, <4>1, <4>2 DEF Moves, dups
    <3> QED BY <3>3
  <2> QED BY <2>4, <2>5
<1> QED BY <1>5, <1>6, <1>17, <1>18, <1>19 DEF dups, Relabelled

\* optimizeDupLabel leaves a program well formed, unless a jump loses its label.
LEMMA DupLabelKeeps ==
  ASSUME NEW o, WellFormed(o), NEW p, p = optimizeDupLabel(o), p.sound
  PROVE  WellFormed(p) /\ o.sound
<1>1. /\ o.sound
      /\ p.name \in [LabelsOf(o.code) -> Nat]
      /\ p = [o EXCEPT !.name = p.name, !.ignore = @ \cup DupLabels(o)]
      /\ \A i \in LiveLabels(o) \ DupLabels(o) : p.name[o.code[i].label] = o.name[o.code[i].label]
      /\ \A i \in LiveCodes(o) : \A j \in LiveLabels(o) :
           /\ o.code[i].op \in {"Goto", "Branch"}
           /\ o.name[o.code[j].label] = o.name[o.code[i].label]
           => \E j2 : Moves(o, p, o.code[i].label, j, j2)
  <2>1. o.sound /\ Relabelled(o, p)
    BY DupLabelFacts
  <2> QED BY <2>1 DEF Relabelled
<1>2. OptimizerType(o) /\ LabelsDiffer(o) /\ JumpsHaveLabels(o) /\ CountsHold(o) /\ VariablesAreCounted(o)
  BY DEF WellFormed
<1>3. /\ p.code = o.code /\ p.vars = o.vars /\ p.ignore = o.ignore \cup DupLabels(o)
      /\ p.assignTime = o.assignTime /\ p.usedTime = o.usedTime /\ p.usedCode = o.usedCode
      /\ p.sound = o.sound
      /\ DOMAIN p = DOMAIN o /\ DOMAIN o = {"code", "vars", "ignore", "name", "assignTime",
                                            "usedTime", "usedCode", "sound"}
  BY <1>1, <1>2 DEF OptimizerType
<1>4. DupLabels(o) \subseteq LiveLabels(o) /\ LiveLabels(o) \subseteq DOMAIN o.code
  BY DEF DupLabels, LiveLabels, LiveCodes
<1>5. OptimizerType(p)
  <2>1. p = [code |-> o.code, vars |-> o.vars, ignore |-> o.ignore \cup DupLabels(o), name |-> p.name,
             assignTime |-> o.assignTime, usedTime |-> o.usedTime, usedCode |-> o.usedCode,
             sound |-> o.sound]
    BY <1>1, <1>2 DEF OptimizerType
  <2>2. o.ignore \cup DupLabels(o) \in SUBSET DOMAIN o.code
    BY <1>2, <1>4 DEF OptimizerType
  <2>3. /\ o.code \in Seq(TextCodes) /\ o.vars \in SUBSET Nat /\ o.assignTime \in [o.vars -> Nat]
        /\ o.usedTime \in [o.vars -> Nat] /\ o.usedCode \in [o.vars -> Nat] /\ o.sound \in BOOLEAN
    BY <1>2 DEF OptimizerType
  <2>4. p.name \in [LabelsOf(p.code) -> Nat]
    BY <1>1, <1>3
  <2> QED BY <1>3, <2>1, <2>2, <2>3, <2>4 DEF OptimizerType
<1>6. VariablesAreCounted(p)
  BY <1>2, <1>3 DEF VariablesAreCounted
<1>7. LiveCodes(p) = LiveCodes(o) \ DupLabels(o)
  BY <1>3 DEF LiveCodes
<1>8. LabelsDiffer(p)
  <2>1. {i \in DOMAIN p.code : p.code[i].op = "Label"} \ p.ignore = LiveLabels(o) \ DupLabels(o)
    BY <1>3 DEF LiveLabels, LiveCodes
  <2>2. ASSUME NEW i \in LiveLabels(o) \ DupLabels(o), NEW j \in LiveLabels(o) \ DupLabels(o),
               p.name[o.code[i].label] = p.name[o.code[j].label]
        PROVE  i = j
    <3>1. o.name[o.code[i].label] = o.name[o.code[j].label]
      BY <1>1, <2>2
    <3> QED BY <1>2, <3>1 DEF LabelsDiffer, LiveLabels, LiveCodes
  <2>3. \A i, j \in {k \in DOMAIN p.code : p.code[k].op = "Label"} :
          p.code[i].label = p.code[j].label => i = j
    BY <1>2, <1>3 DEF LabelsDiffer
  <2> QED BY <1>3, <2>1, <2>2, <2>3 DEF LabelsDiffer
<1>9. JumpsHaveLabels(p)
  <2>1. ASSUME NEW i \in LiveCodes(p), p.code[i].op \in {"Goto", "Branch"}
        PROVE  \E j \in LiveCodes(p) :
                 p.code[j].op = "Label" /\ p.name[p.code[j].label] = p.name[p.code[i].label]
    <3>1. i \in LiveCodes(o) /\ o.code[i].op \in {"Goto", "Branch"}
      BY <1>3, <1>7, <2>1
    <3>2. PICK j \in LiveLabels(o) : o.name[o.code[j].label] = o.name[o.code[i].label]
      BY <1>2, <3>1 DEF JumpsHaveLabels, LiveLabels
    <3>3. PICK j2 : Moves(o, p, o.code[i].label, j, j2)
      BY <1>1, <3>1, <3>2
    <3>4. j2 \in LiveCodes(p) /\ o.code[j2].op = "Label"
      BY <1>7, <3>3 DEF Moves, LiveLabels
    <3> QED BY <1>3, <3>3, <3>4 DEF Moves
  <2>2. ASSUME NEW i \in DOMAIN p.code, p.code[i].op \in {"Goto", "Branch"}
        PROVE  p.code[i].label \in DOMAIN p.name
    BY <1>1, <1>2, <1>3, <2>2 DEF JumpsHaveLabels, OptimizerType
  <2> QED BY <2>1, <2>2 DEF JumpsHaveLabels
<1>10. CountsHold(p)
  BY <1>2, <1>3, <1>7 DEF CountsHold
<1> QED BY <1>1, <1>5, <1>6, <1>8, <1>9, <1>10 DEF WellFormed

-----------------------------------------------------------------------------
(* All of them. *)

\* A pass that is sound was so before.
LEMMA PassSound ==
  ASSUME NEW o, "sound" \in DOMAIN o, NEW i,
         NEW p \in {optimizeDeadAssign(o), optimizeDupLabel(o), optimizeConstExp(o),
                    optimizeDupGoto(o), Forward(o, i)}
  PROVE  "sound" \in DOMAIN p /\ (p.sound => o.sound)
<1>1. CASE p = optimizeDeadAssign(o)
  BY <1>1 DEF optimizeDeadAssign, WithoutDead, Counted
<1>2. CASE p = optimizeDupLabel(o)
  BY <1>2 DEF optimizeDupLabel, DropLabels
<1>3. CASE p = optimizeConstExp(o)
  BY <1>3 DEF optimizeConstExp
<1>4. CASE p = optimizeDupGoto(o)
  BY <1>4 DEF optimizeDupGoto
<1>5. CASE p = Forward(o, i)
  <2>1. CASE p = o
    BY <2>1
  <2>2. CASE p # o
    <3>1. PICK u, h : p = PutInto(o, i, u, h)
      BY <1>5, <2>2, ForwardChanges
    <3> QED BY <3>1 DEF PutInto
  <2> QED BY <2>1, <2>2
<1> QED BY <1>1, <1>2, <1>3, <1>4, <1>5

OptimizerInv ==
  /\ pass \in {"DeadAssign", "DupLabel", "DupVar", "ConstExp", "DupGoto", "done"}
  /\ at \in Nat \ {0}
  /\ "sound" \in DOMAIN opt
  /\ opt.sound => WellFormed(opt)

\* No pass breaks what the next ones rely on.
LEMMA OptimizerInvariant == OptimizerSpec => []OptimizerInv
<1>1. OptimizerInit => OptimizerInv
  BY DEF OptimizerInit, OptimizerInv, WellFormed, OptimizerType
<1>2. OptimizerInv /\ [OptimizerNext]_optimizerVars => OptimizerInv'
  <2> SUFFICES ASSUME OptimizerInv, [OptimizerNext]_optimizerVars PROVE OptimizerInv'
    OBVIOUS
  <2> USE DEF OptimizerInv
  <2>1. CASE DeadAssign
    <3>1. opt' = optimizeDeadAssign(opt)
      BY <2>1 DEF DeadAssign, RunPass
    <3>2. "sound" \in DOMAIN opt' /\ (opt'.sound => opt.sound)
      BY <3>1, PassSound
    <3>3. opt'.sound => WellFormed(opt')
      BY <3>1, <3>2, DeadAssignKeeps
    <3> QED BY <2>1, <3>2, <3>3 DEF DeadAssign, RunPass
  <2>2. CASE DupLabel
    <3>1. opt' = optimizeDupLabel(opt)
      BY <2>2 DEF DupLabel, RunPass
    <3>2. "sound" \in DOMAIN opt' /\ (opt'.sound => opt.sound)
      BY <3>1, PassSound
    <3>3. opt'.sound => WellFormed(opt')
      BY <3>1, <3>2, DupLabelKeeps
    <3> QED BY <2>2, <3>2, <3>3 DEF DupLabel, RunPass
  <2>3. CASE DupVar
    <3>1. CASE at <= Len(opt.code)
      <4>1. opt' = Forward(opt, at) /\ at' = at + 1 /\ pass' = pass
        BY <2>3, <3>1 DEF DupVar
      <4>2. "sound" \in DOMAIN opt' /\ (opt'.sound => opt.sound)
        BY <4>1, PassSound
      <4>3. opt'.sound => WellFormed(opt')
        BY <3>1, <4>1, <4>2, ForwardKeeps
      <4> QED BY <4>1, <4>2, <4>3
    <3>2. CASE ~(at <= Len(opt.code))
      BY <2>3, <3>2 DEF DupVar
    <3> QED BY <3>1, <3>2
  <2>4. CASE ConstExp
    <3>1. opt' = optimizeConstExp(opt)
      BY <2>4 DEF ConstExp, RunPass
    <3>2. "sound" \in DOMAIN opt' /\ (opt'.sound => opt.sound)
      BY <3>1, PassSound
    <3>3. opt'.sound => WellFormed(opt')
      BY <3>1, <3>2, ConstExpKeeps
    <3> QED BY <2>4, <3>2, <3>3 DEF ConstExp, RunPass
  <2>5. CASE DupGoto
    <3>1. opt' = optimizeDupGoto(opt)
      BY <2>5 DEF DupGoto
    <3>2. "sound" \in DOMAIN opt' /\ (opt'.sound => opt.sound)
      BY <3>1, PassSound
    <3>3. opt'.sound => WellFormed(opt')
      BY <3>1, <3>2, DupGotoKeeps
    <3> QED BY <2>5, <3>2, <3>3 DEF DupGoto
  <2>6. CASE UNCHANGED optimizerVars
    BY <2>6 DEF optimizerVars
  <2> QED BY <2>1, <2>2, <2>3, <2>4, <2>5, <2>6 DEF OptimizerNext
<1> QED BY <1>1, <1>2, PTL DEF OptimizerSpec

\* The passes fit together: whatever program optimize() is given, and however
\* often the passes run, a pass finds what it relies on unless one before it
\* did something that cannot be justified (optimize.c 402-413).
THEOREM PassesAlwaysFit == OptimizerSpec => []PassesFitTogether
<1>1. OptimizerInv => PassesFitTogether
  BY DEF OptimizerInv, PassesFitTogether
<1> QED BY <1>1, OptimizerInvariant, PTL
================================================================================
