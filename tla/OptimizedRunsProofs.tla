------------------------- MODULE OptimizedRunsProofs --------------------------
(***************************************************************************)
(* A pass of the optimizer leaves a program that does what it did.         *)
(*                                                                         *)
(* First what a step of the two machines has in common where the code is   *)
(* left as it was, dropped or folded, then what each pass does to each     *)
(* code, then why a forwarded value is still the one that was assigned.    *)
(* At the end the machine by itself: its calls and its types.              *)
(***************************************************************************)
EXTENDS OptimizedRuns, OptimizingProofs

-----------------------------------------------------------------------------
(* What is executed next. *)

\* j is what is executed next from i on.
IsRest(codes, i, j) ==
  /\ j \in i .. Len(codes) + 1
  /\ \A k \in i .. j - 1 : k \in DOMAIN codes => Silent(codes[k])
  /\ j \in DOMAIN codes => ~Silent(codes[j])

\* There is one such place.
LEMMA RestIs ==
  ASSUME NEW S, NEW codes \in Seq(S), NEW i \in 1 .. Len(codes) + 1
  PROVE  IsRest(codes, i, Rest(codes, i))
<1>0. DOMAIN codes = 1 .. Len(codes) /\ Len(codes) \in Nat
  OBVIOUS
<1> DEFINE T == {j \in i .. Len(codes) + 1 : j \in DOMAIN codes => ~Silent(codes[j])}
<1>1. Len(codes) + 1 \in T
  BY <1>0
<1>2. T \in SUBSET (Nat \ {0}) /\ T # {}
  BY <1>0, <1>1
<1>3. PICK j \in T : \A x \in T : j <= x
  <2> HIDE DEF T
  <2> QED BY <1>2, SmallestElement
<1>4. IsRest(codes, i, j)
  <2>1. j \in i .. Len(codes) + 1 /\ (j \in DOMAIN codes => ~Silent(codes[j]))
    OBVIOUS
  <2>2. ASSUME NEW k \in i .. j - 1, k \in DOMAIN codes PROVE Silent(codes[k])
    <3>1. k \in i .. Len(codes) + 1 /\ ~(j <= k)
      BY <2>1, <1>0
    <3> QED BY <1>3, <2>2, <3>1
  <2> QED BY <2>1, <2>2 DEF IsRest
<1>5. \E x \in i .. Len(codes) + 1 : 
        /\ \A k \in i .. x - 1 : k \in DOMAIN codes => Silent(codes[k])
        /\ x \in DOMAIN codes => ~Silent(codes[x])
  BY <1>4 DEF IsRest
<1> QED BY <1>5 DEF Rest, IsRest

LEMMA RestUnique ==
  ASSUME NEW S, NEW codes \in Seq(S), NEW i \in 1 .. Len(codes) + 1,
         NEW j, IsRest(codes, i, j)
  PROVE  Rest(codes, i) = j
<1>1. PICK r : r = Rest(codes, i) /\ IsRest(codes, i, r)
  BY RestIs
<1>2. DOMAIN codes = 1 .. Len(codes) /\ Len(codes) \in Nat
  OBVIOUS
<1>3. ASSUME NEW x, NEW y, IsRest(codes, i, x), IsRest(codes, i, y) PROVE ~(x < y)
  <2> SUFFICES ASSUME x < y PROVE FALSE
    OBVIOUS
  <2>1. x \in i .. y - 1 /\ x \in DOMAIN codes
    BY <1>2, <1>3 DEF IsRest
  <2> QED BY <1>3, <2>1 DEF IsRest
<1>4. j \in Nat /\ r \in Nat
  BY <1>1 DEF IsRest
<1>5. ~(j < r) /\ ~(r < j)
  BY <1>1, <1>3
<1> QED BY <1>1, <1>4, <1>5

\* What is executed next in a program from which codes have gone is next to
\* what was next.
LEMMA RestOfRest ==
  ASSUME NEW S, NEW c \in Seq(S), NEW T, NEW d \in Seq(T), Len(d) = Len(c),
         \A k \in DOMAIN c : Silent(c[k]) => Silent(d[k]),
         NEW i \in 1 .. Len(c) + 1
  PROVE  Rest(d, Rest(c, i)) = Rest(d, i)
<1>0. /\ DOMAIN c = 1 .. Len(c) /\ Len(c) \in Nat /\ DOMAIN d = DOMAIN c
  OBVIOUS
<1>1. PICK j : j = Rest(c, i) /\ IsRest(c, i, j)
  BY RestIs
<1>2. j \in 1 .. Len(d) + 1
  BY <1>1 DEF IsRest
<1>3. PICK m : m = Rest(d, j) /\ IsRest(d, j, m)
  BY <1>2, RestIs
<1>4. IsRest(d, i, m)
  <2>1. m \in i .. Len(d) + 1
    BY <1>0, <1>1, <1>3 DEF IsRest
  <2>2. ASSUME NEW k \in i .. m - 1, k \in DOMAIN d PROVE Silent(d[k])
    <3>1. CASE k < j
      <4>1. k \in i .. j - 1
        BY <1>1, <3>1 DEF IsRest
      <4> QED BY <1>0, <1>1, <2>2, <4>1 DEF IsRest
    <3>2. CASE ~(k < j)
      <4>1. k \in j .. m - 1
        BY <1>1, <1>3, <3>2 DEF IsRest
      <4> QED BY <1>3, <2>2, <4>1 DEF IsRest
    <3> QED BY <3>1, <3>2
  <2> QED BY <1>3, <2>1, <2>2 DEF IsRest
<1> QED BY <1>0, <1>1, <1>3, <1>4, RestUnique

\* From two places that only silent codes separate the same is next.
LEMMA RestOverSilence ==
  ASSUME NEW S, NEW c \in Seq(S), NEW i \in 1 .. Len(c) + 1, NEW j \in i .. Len(c) + 1,
         \A k \in i .. j - 1 : Silent(c[k])
  PROVE  Rest(c, i) = Rest(c, j)
<1>1. PICK m : m = Rest(c, j) /\ IsRest(c, j, m)
  BY RestIs
<1>2. IsRest(c, i, m)
  <2>1. \A k \in i .. m - 1 : k \in i .. j - 1 \/ k \in j .. m - 1
    BY <1>1 DEF IsRest
  <2> QED BY <1>1, <2>1 DEF IsRest
<1> QED BY <1>1, <1>2, RestUnique

\* What is executed is next to itself.
LEMMA RestHere ==
  ASSUME NEW S, NEW c \in Seq(S), NEW i \in 1 .. Len(c) + 1, i \in DOMAIN c => ~Silent(c[i])
  PROVE  Rest(c, i) = i
<1>1. IsRest(c, i, i)
  BY DEF IsRest
<1> QED BY <1>1, RestUnique

\* The machine after the pass has the operators of the machine before it.
LEMMA AfterOperators ==
  /\ \A c : After!Silent(c) = Silent(c)
  /\ \A c, i : After!Rest(c, i) = Rest(c, i)
  /\ \A f, c : After!Entries(f, c) = Entries(f, c)
  /\ \A l, c : After!Places(l, c) = Places(l, c)
  /\ \A f, c : After!BodyOf(f, c) = BodyOf(f, c)
  /\ \A l, c : After!TargetOf(l, c) = TargetOf(l, c)
  /\ \A v, c : After!IsUsed(v, c) = IsUsed(v, c)
  /\ \A f, x, v : After!With(f, x, v) = With(f, x, v)
  /\ \A x, d, m : After!Value(x, d, m) = Value(x, d, m)
  /\ \A k, a, b : After!Arith(k, a, b) = Arith(k, a, b)
  /\ \A k, a, b : After!Relation(k, a, b) = Relation(k, a, b)
  /\ After!ArithKinds = ArithKinds
<1>1. \A c : After!Silent(c) = Silent(c)
  BY DEF Silent, After!Silent
<1>2. ASSUME NEW c, NEW i PROVE After!Rest(c, i) = Rest(c, i)
  BY <1>1 DEF Rest, After!Rest, Silent, After!Silent
<1>3. ASSUME NEW f, NEW c PROVE After!Entries(f, c) = Entries(f, c)
  BY DEF Entries, After!Entries, Func, After!Func
<1>4. ASSUME NEW l, NEW c PROVE After!Places(l, c) = Places(l, c)
  BY DEF Places, After!Places, Label, After!Label
<1>5. ASSUME NEW f, NEW c PROVE After!BodyOf(f, c) = BodyOf(f, c)
  BY <1>2, <1>3 DEF BodyOf, After!BodyOf
<1>6. ASSUME NEW l, NEW c PROVE After!TargetOf(l, c) = TargetOf(l, c)
  BY <1>2, <1>4 DEF TargetOf, After!TargetOf
<1>7. ASSUME NEW v, NEW c PROVE After!IsUsed(v, c) = IsUsed(v, c)
  BY DEF IsUsed, After!IsUsed, FieldsUsing, After!FieldsUsing, UsingFields, After!UsingFields,
         ArithKinds, After!ArithKinds
<1>8. ASSUME NEW f, NEW x, NEW v PROVE After!With(f, x, v) = With(f, x, v)
  BY DEF With, After!With
<1>9. ASSUME NEW x, NEW d, NEW m PROVE After!Value(x, d, m) = Value(x, d, m)
  BY DEF Value, After!Value
<1>10. ASSUME NEW a, NEW b PROVE After!Quotient(a, b) = Quotient(a, b)
  BY DEF Quotient, After!Quotient, Abs, After!Abs
<1>11. ASSUME NEW k, NEW a, NEW b PROVE After!Arith(k, a, b) = Arith(k, a, b)
  BY <1>10 DEF Arith, After!Arith
<1>12. ASSUME NEW k, NEW a, NEW b PROVE After!Relation(k, a, b) = Relation(k, a, b)
  BY DEF Relation, After!Relation
<1>13. After!ArithKinds = ArithKinds
  BY DEF ArithKinds, After!ArithKinds
<1> QED BY <1>1, <1>2, <1>3, <1>4, <1>5, <1>6, <1>7, <1>8, <1>9, <1>11, <1>12, <1>13
-----------------------------------------------------------------------------
(* A program with its codes marked. *)

Codes == TextCodes \cup {[op |-> "Nothing"]}

\* A code under a new label is the same code otherwise.
LEMMA NamedCode ==
  ASSUME NEW o, OptimizerType(o), NEW c \in TextCodes,
         c.op \in {"Label", "Goto", "Branch"} => c.label \in DOMAIN o.name
  PROVE  /\ Named(o, c) \in TextCodes /\ Named(o, c).op = c.op
         /\ c.op \notin {"Label", "Goto", "Branch"} => Named(o, c) = c
         /\ c.op \in {"Label", "Goto", "Branch"} => Named(o, c).label = o.name[c.label]
         /\ c.op = "Label" => Named(o, c) = Label(o.name[c.label])
         /\ c.op = "Branch" => /\ Named(o, c).relop = c.relop
                               /\ Named(o, c).op1 = c.op1 /\ Named(o, c).op2 = c.op2
         /\ UsingFields(Named(o, c)) = UsingFields(c)
         /\ \A f \in UsingFields(c) : Named(o, c)[f] = c[f]
<1>1. CASE c.op \notin {"Label", "Goto", "Branch"}
  BY <1>1 DEF Named
<1>2. CASE c.op \in {"Label", "Goto", "Branch"}
  <2> DEFINE d == Named(o, c)
  <2>0. d = [c EXCEPT !.label = o.name[c.label]] /\ o.name[c.label] \in Nat
    BY <1>2 DEF Named, OptimizerType
  <2> HIDE DEF d
  <2>1. d \in TextCodes /\ d.op = c.op /\ d.label = o.name[c.label]
    BY <2>0, <1>2, CodeFields DEF TextCodes, ArithKinds
  <2>2. c.op = "Label" => d = Label(o.name[c.label])
    BY <2>0, <1>2 DEF TextCodes, ArithKinds, Label
  <2>3. c.op = "Branch" => d.relop = c.relop /\ d.op1 = c.op1 /\ d.op2 = c.op2
    BY <2>0, <1>2 DEF TextCodes, ArithKinds
  <2>4. UsingFields(d) = UsingFields(c)
    BY <2>1, <1>2 DEF UsingFields, ArithKinds
  <2>5. \A f \in UsingFields(c) : d[f] = c[f]
    BY <2>3, <1>2 DEF UsingFields, ArithKinds
  <2> QED BY <1>2, <2>1, <2>2, <2>3, <2>4, <2>5 DEF d
<1> QED BY <1>1, <1>2

\* What a marked program has at each place.
IsMarked(o, m) ==
  /\ m \in Seq(Codes) /\ Len(m) = Len(o.code) /\ DOMAIN m = DOMAIN o.code
  /\ \A i \in DOMAIN m \ LiveCodes(o) : m[i] = [op |-> "Nothing"]
  /\ \A i \in LiveCodes(o) : /\ i \in DOMAIN m
                             /\ o.code[i] \in TextCodes
                             /\ m[i] = Named(o, o.code[i]) /\ m[i].op = o.code[i].op
                             /\ m[i].op # "Nothing"
                             /\ o.code[i].op \in {"Goto", "Branch", "Label"} =>
                                  o.code[i].label \in DOMAIN o.name
  /\ \A i \in DOMAIN m : Silent(m[i]) <=> (i \in LiveCodes(o) => o.code[i].op = "Label")
  /\ \A i \in DOMAIN m : \A v :
       FieldsUsing(m[i], v) = IF i \in LiveCodes(o) THEN FieldsUsing(o.code[i], v) ELSE {}

LEMMA MarkedIs ==
  ASSUME NEW o, WellFormed(o)
  PROVE  IsMarked(o, Marked(o))
<1> DEFINE m == Marked(o)
<1>1. OptimizerType(o)
  BY DEF WellFormed
<1>2. /\ DOMAIN o.code = 1 .. Len(o.code) /\ Len(o.code) \in Nat
      /\ \A i \in DOMAIN o.code : o.code[i] \in TextCodes
      /\ LiveCodes(o) \subseteq DOMAIN o.code
  BY <1>1 DEF OptimizerType, LiveCodes
<1>3. \A i \in DOMAIN o.code : o.code[i].op \in {"Goto", "Branch", "Label"} => o.code[i].label \in DOMAIN o.name
  BY <1>1 DEF WellFormed, JumpsHaveLabels, OptimizerType, LabelsOf
<1>4. /\ DOMAIN m = DOMAIN o.code
      /\ \A i \in DOMAIN m \ LiveCodes(o) : m[i] = [op |-> "Nothing"]
      /\ \A i \in LiveCodes(o) : m[i] = Named(o, o.code[i])
  BY DEF Marked, LiveCodes
<1> HIDE DEF m
<1>5. \A i \in LiveCodes(o) :
        /\ Named(o, o.code[i]) \in TextCodes /\ Named(o, o.code[i]).op = o.code[i].op
        /\ UsingFields(Named(o, o.code[i])) = UsingFields(o.code[i])
        /\ \A f \in UsingFields(o.code[i]) : Named(o, o.code[i])[f] = o.code[i][f]
  BY <1>1, <1>2, <1>3, NamedCode
<1>6. m \in Seq(Codes) /\ Len(m) = Len(o.code)
  <2>1. \A i \in DOMAIN m : m[i] \in Codes
    BY <1>4, <1>5 DEF Codes
  <2>2. m \in [1 .. Len(o.code) -> Codes]
    <3>1. m = [i \in DOMAIN o.code |-> m[i]]
      BY <1>4 DEF m, Marked
    <3> QED BY <1>2, <1>4, <2>1, <3>1
  <2> QED BY <1>2, <2>2
<1>7. \A i \in LiveCodes(o) : m[i].op = o.code[i].op /\ m[i].op # "Nothing"
  <2>1. \A c \in TextCodes : c.op # "Nothing"
    BY CodeFields DEF ArithKinds
  <2> QED BY <1>2, <1>4, <1>5, <2>1
<1>8. \A i \in DOMAIN m : Silent(m[i]) <=> (i \in LiveCodes(o) => o.code[i].op = "Label")
  BY <1>4, <1>7 DEF Silent
<1>9. ASSUME NEW i \in DOMAIN m, NEW v
      PROVE  FieldsUsing(m[i], v) = IF i \in LiveCodes(o) THEN FieldsUsing(o.code[i], v) ELSE {}
  <2>1. CASE i \in LiveCodes(o)
    BY <2>1, <1>4, <1>5 DEF FieldsUsing
  <2>2. CASE i \notin LiveCodes(o)
    <3>1. m[i].op = "Nothing"
      BY <2>2, <1>4
    <3>2. UsingFields(m[i]) = {}
      BY <3>1 DEF UsingFields, ArithKinds
    <3> QED BY <2>2, <3>2 DEF FieldsUsing
  <2> QED BY <2>1, <2>2
<1>10. IsMarked(o, m)
  BY <1>2, <1>3, <1>4, <1>6, <1>7, <1>8, <1>9 DEF IsMarked
<1> QED BY <1>10 DEF m

\* A label that a jump has is in one place.
LEMMA MarkedTarget ==
  ASSUME NEW o, WellFormed(o), NEW m, IsMarked(o, m),
         NEW j \in LiveLabels(o), NEW n, n = o.name[o.code[j].label]
  PROVE  Places(n, m) = {j} /\ TargetOf(n, m) = Rest(m, j)
<1>1. OptimizerType(o) /\ LabelsDiffer(o)
  BY DEF WellFormed
<1>2. \A i \in LiveLabels(o) : m[i] = Label(o.name[o.code[i].label])
  <2> SUFFICES ASSUME NEW i \in LiveLabels(o) PROVE m[i] = Label(o.name[o.code[i].label])
    OBVIOUS
  <2>1. i \in LiveCodes(o) /\ o.code[i].op = "Label"
    BY DEF LiveLabels
  <2>2. o.code[i] \in TextCodes /\ o.code[i].label \in DOMAIN o.name /\ m[i] = Named(o, o.code[i])
    BY <2>1 DEF IsMarked
  <2> QED BY <1>1, <2>1, <2>2, NamedCode
<1>3. \A i \in DOMAIN m : m[i].op = "Label" => i \in LiveLabels(o)
  <2> SUFFICES ASSUME NEW i \in DOMAIN m, m[i].op = "Label" PROVE i \in LiveLabels(o)
    OBVIOUS
  <2>1. i \in LiveCodes(o)
    BY DEF IsMarked
  <2> QED BY <2>1 DEF IsMarked, LiveLabels
<1>4. \A i \in DOMAIN m : m[i] = Label(n) => i = j
  <2> SUFFICES ASSUME NEW i \in DOMAIN m, m[i] = Label(n) PROVE i = j
    OBVIOUS
  <2>1. i \in LiveLabels(o)
    BY <1>3 DEF Label
  <2>2. o.name[o.code[i].label] = n
    <3>1. Label(o.name[o.code[i].label]) = Label(n)
      BY <1>2, <2>1
    <3>2. \A x : Label(x).label = x
      BY DEF Label
    <3>3. Label(o.name[o.code[i].label]).label = Label(n).label
      BY <3>1
    <3> HIDE DEF Label
    <3> QED BY <3>2, <3>3
  <2> QED BY <1>1, <2>1, <2>2 DEF LabelsDiffer, LiveLabels, LiveCodes
<1>5. j \in DOMAIN m /\ m[j] = Label(n)
  BY <1>2 DEF LiveLabels, IsMarked
<1>6. Places(n, m) = {j}
  BY <1>4, <1>5 DEF Places
<1>7. (CHOOSE i \in {j} : TRUE) = j
  OBVIOUS
<1> QED BY <1>6, <1>7 DEF TargetOf

\* Where a function begins.
LEMMA MarkedEntries ==
  ASSUME NEW o, WellFormed(o), NEW m, IsMarked(o, m), NEW f
  PROVE  Entries(f, m) = {i \in LiveCodes(o) : o.code[i] = Func(f)}
<1>1. OptimizerType(o)
  BY DEF WellFormed
<1>2. ASSUME NEW i \in DOMAIN m, m[i] = Func(f) PROVE i \in LiveCodes(o) /\ o.code[i] = Func(f)
  <2>1. m[i].op = "Func"
    BY <1>2 DEF Func
  <2>2. i \in LiveCodes(o) /\ o.code[i].op = "Func" /\ m[i] = Named(o, o.code[i])
    BY <2>1 DEF IsMarked
  <2> QED BY <1>2, <2>2 DEF Named
<1>3. ASSUME NEW i \in LiveCodes(o), o.code[i] = Func(f) PROVE i \in DOMAIN m /\ m[i] = Func(f)
  BY <1>3 DEF IsMarked, Named, Func
<1> QED BY <1>2, <1>3 DEF Entries

-----------------------------------------------------------------------------
(* Programs that a pass has shrunk. *)

\* The program d is c with codes dropped and changed.  The functions begin
\* where they did, the calls are the same and no variable is used that was not.
Shrinks(c, d) ==
  /\ c \in Seq(Codes) /\ d \in Seq(Codes) /\ Len(d) = Len(c) /\ DOMAIN d = DOMAIN c
  /\ \A k \in DOMAIN c : Silent(c[k]) => Silent(d[k])
  /\ \A f : Entries(f, d) = Entries(f, c)
  /\ \A k \in DOMAIN c : c[k].op = "Call" => d[k] = c[k]
  /\ \A k \in DOMAIN c : d[k].op = "Dec" => c[k] = d[k]
  /\ \A v : IsUsed(v, d) => IsUsed(v, c)

\* What that takes of a pass.
ShrinkingPass(o, p) ==
  /\ DOMAIN p.code = DOMAIN o.code /\ Len(p.code) = Len(o.code)
  /\ LiveCodes(p) \subseteq LiveCodes(o)
  /\ \A k \in LiveCodes(p) : p.code[k].op = "Label" <=> o.code[k].op = "Label"
  /\ \A k \in LiveCodes(o) : o.code[k].op \in {"Func", "Call"} =>
       k \in LiveCodes(p) /\ p.code[k] = o.code[k]
  /\ \A k \in LiveCodes(p) : p.code[k].op \in {"Func", "Dec"} => o.code[k] = p.code[k]
  /\ \A k \in LiveCodes(p) : \A v : FieldsUsing(p.code[k], v) # {} =>
       \E j \in LiveCodes(o) : FieldsUsing(o.code[j], v) # {}

LEMMA PassShrinks ==
  ASSUME NEW o, WellFormed(o), NEW p, WellFormed(p), ShrinkingPass(o, p)
  PROVE  Shrinks(Marked(o), Marked(p))
<1>1. PICK c, d : c = Marked(o) /\ d = Marked(p) /\ IsMarked(o, c) /\ IsMarked(p, d)
  BY MarkedIs
<1>2. /\ c \in Seq(Codes) /\ d \in Seq(Codes) /\ Len(d) = Len(c) /\ DOMAIN d = DOMAIN c
      /\ DOMAIN c = DOMAIN o.code
  BY <1>1 DEF IsMarked, ShrinkingPass
<1>3. \A k \in DOMAIN c : Silent(c[k]) => Silent(d[k])
  BY <1>1, <1>2 DEF IsMarked, ShrinkingPass
<1>4. ASSUME NEW f PROVE Entries(f, d) = Entries(f, c)
  <2>1. Entries(f, c) = {i \in LiveCodes(o) : o.code[i] = Func(f)}
    BY <1>1, MarkedEntries
  <2>2. Entries(f, d) = {i \in LiveCodes(p) : p.code[i] = Func(f)}
    BY <1>1, MarkedEntries
  <2>3. Func(f).op = "Func"
    BY DEF Func
  <2> QED BY <2>1, <2>2, <2>3 DEF ShrinkingPass
<1>5. ASSUME NEW k \in DOMAIN c, c[k].op = "Call" PROVE d[k] = c[k]
  <2>1. k \in LiveCodes(o)
    BY <1>1, <1>5 DEF IsMarked
  <2>2. c[k] = o.code[k] /\ o.code[k].op = "Call"
    BY <1>1, <1>5, <2>1 DEF IsMarked, Named
  <2>3. k \in LiveCodes(p) /\ p.code[k] = o.code[k]
    BY <2>1, <2>2 DEF ShrinkingPass
  <2> QED BY <1>1, <2>2, <2>3 DEF IsMarked, Named
<1>6. ASSUME NEW k \in DOMAIN c, d[k].op = "Dec" PROVE c[k] = d[k]
  <2>1. k \in LiveCodes(p)
    BY <1>1, <1>2, <1>6 DEF IsMarked
  <2>2. d[k] = p.code[k] /\ p.code[k].op = "Dec"
    BY <1>1, <1>6, <2>1 DEF IsMarked, Named
  <2>3. k \in LiveCodes(o) /\ p.code[k] = o.code[k]
    BY <2>1, <2>2 DEF ShrinkingPass
  <2> QED BY <1>1, <2>2, <2>3 DEF IsMarked, Named
<1>7. ASSUME NEW v, IsUsed(v, d) PROVE IsUsed(v, c)
  <2>1. PICK k \in DOMAIN d : FieldsUsing(d[k], v) # {}
    BY <1>7 DEF IsUsed
  <2>2. k \in LiveCodes(p) /\ FieldsUsing(p.code[k], v) # {}
    BY <1>1, <2>1 DEF IsMarked
  <2>3. PICK j \in LiveCodes(o) : FieldsUsing(o.code[j], v) # {}
    BY <2>2 DEF ShrinkingPass
  <2> QED BY <1>1, <2>3 DEF IsMarked, IsUsed
<1> QED BY <1>1, <1>2, <1>3, <1>4, <1>5, <1>6, <1>7 DEF Shrinks

-----------------------------------------------------------------------------
(* The machine that executes a program, and the one that executes what a pass *)
(* has left of it.                                                            *)

\* The machines are in step.
InStep ==
  /\ Shrinks(code, remains)
  /\ pc \in 1 .. Len(code) + 1 /\ (pc \in DOMAIN code => ~Silent(code[pc]))
  /\ frames \in Seq({frames[i] : i \in DOMAIN frames})
  /\ \A i \in DOMAIN frames : /\ frames[i] = [data |-> frames[i].data, pc |-> frames[i].pc]
                              /\ frames[i].pc \in DOMAIN code /\ code[frames[i].pc].op = "Call"
  /\ DOMAIN mem \subseteq Kept

\* The fields of the operands that a code reads.
ReadFields(c) == UsingFields(c) \ {"left"}

OperandAgrees(x, y) == HasValue(x) => After!HasValue(y) /\ After!Val(y) = Val(x)

JumpAgrees(l, m) == Places(m, remains) # {} /\ Rest(remains, TargetOf(l, code)) = TargetOf(m, remains)

\* The codes do the same as long as their operands have the same values.
SameShape(c, d) ==
  /\ d.op = c.op
  /\ c.op = "Assign" => d.left = c.left
  /\ c.op \in ArithKinds => d.target = c.target
  /\ c.op = "Branch" => d.relop = c.relop
  /\ c.op \in {"Func", "Call", "Dec", "Param", "Read"} => d = c

\* The code d does now what c does.
Agrees(c, d) ==
  /\ SameShape(c, d)
  /\ \A f \in ReadFields(c) : OperandAgrees(c[f], d[f])
  /\ c.op \in {"Goto", "Branch"} => JumpAgrees(c.label, d.label)

\* What is kept of the variables after an assignment.
LEMMA KeepAgrees ==
  ASSUME InStep, NEW env, NEW x, NEW v
  PROVE  KeptData(Keep(env, x, v)) = After!Keep(KeptData(env), x, v)
<1>1. IsUsed(x, remains) => IsUsed(x, code)
  BY DEF InStep, Shrinks
<1>2. CASE IsUsed(x, remains)
  <2>1. Keep(env, x, v) = With(env, x, v) /\ After!Keep(KeptData(env), x, v) = With(KeptData(env), x, v)
    BY <1>1, <1>2, AfterOperators DEF Keep, After!Keep
  <2> DEFINE W == {w \in DOMAIN env \cup {x} : IsUsed(w, remains)}
             g == [y \in DOMAIN env \cup {x} |-> IF y = x THEN v ELSE env[y]]
             k == [w \in {w \in DOMAIN env : IsUsed(w, remains)} |-> env[w]]
  <2>2. KeptData(With(env, x, v)) = [w \in W |-> g[w]]
    BY DEF KeptData, With
  <2>3. With(KeptData(env), x, v) = [y \in DOMAIN k \cup {x} |-> IF y = x THEN v ELSE k[y]]
    BY DEF KeptData, With
  <2>4. DOMAIN k \cup {x} = W
    BY <1>2
  <2>5. \A w \in W : g[w] = IF w = x THEN v ELSE k[w]
    OBVIOUS
  <2> HIDE DEF W, g, k
  <2> QED BY <2>1, <2>2, <2>3, <2>4, <2>5
<1>3. CASE ~IsUsed(x, remains)
  <2>1. After!Keep(KeptData(env), x, v) = KeptData(env)
    BY <1>3, AfterOperators DEF After!Keep
  <2>2. KeptData(With(env, x, v)) = KeptData(env)
    <3> DEFINE g == With(env, x, v)
               W == {w \in DOMAIN env : IsUsed(w, remains)}
    <3>1. {w \in DOMAIN g : IsUsed(w, remains)} = W
      BY <1>3 DEF With
    <3>2. \A w \in W : g[w] = env[w]
      BY <1>3 DEF With
    <3> HIDE DEF g
    <3> QED BY <3>1, <3>2 DEF KeptData, g
  <2> QED BY <2>1, <2>2 DEF Keep
<1> QED BY <1>2, <1>3

\* An assignment to a variable that the pass has left no use of.
LEMMA KeepDropped ==
  ASSUME InStep, NEW env, NEW x, NEW v, ~IsUsed(x, remains)
  PROVE  KeptData(Keep(env, x, v)) = KeptData(env)
BY KeepAgrees, AfterOperators DEF After!Keep

\* Where the machines are.
LEMMA PlacesAgree ==
  ASSUME InStep
  PROVE  /\ DOMAIN code = 1 .. Len(code) /\ Len(code) \in Nat /\ DOMAIN remains = DOMAIN code
         /\ \A i \in 1 .. Len(code) + 1 :
              /\ Rest(code, i) \in i .. Len(code) + 1
              /\ Rest(code, i) \in DOMAIN code => ~Silent(code[Rest(code, i)])
              /\ Rest(remains, Rest(code, i)) = Rest(remains, i)
         /\ pc \in DOMAIN code /\ ~Silent(remains[pc]) => Rest(remains, pc) = pc
         /\ pc \in DOMAIN code /\ Silent(remains[pc]) => Rest(remains, pc) = Rest(remains, pc + 1)
<1>1. /\ code \in Seq(Codes) /\ remains \in Seq(Codes) /\ Len(remains) = Len(code)
      /\ \A k \in DOMAIN code : Silent(code[k]) => Silent(remains[k])
      /\ pc \in 1 .. Len(code) + 1
  BY DEF InStep, Shrinks
<1>2. DOMAIN code = 1 .. Len(code) /\ Len(code) \in Nat /\ DOMAIN remains = DOMAIN code
  BY <1>1
<1>3. \A i \in 1 .. Len(code) + 1 : IsRest(code, i, Rest(code, i))
  BY <1>1, RestIs
<1>4. \A i \in 1 .. Len(code) + 1 : Rest(remains, Rest(code, i)) = Rest(remains, i)
  BY <1>1, RestOfRest
<1>5. ASSUME pc \in DOMAIN code, ~Silent(remains[pc]) PROVE Rest(remains, pc) = pc
  BY <1>1, <1>5, RestHere
<1>6. ASSUME pc \in DOMAIN code, Silent(remains[pc]) PROVE Rest(remains, pc) = Rest(remains, pc + 1)
  <2>1. pc + 1 \in pc .. Len(remains) + 1 /\ pc \in 1 .. Len(remains) + 1
    BY <1>1, <1>2, <1>6
  <2>2. \A k \in pc .. (pc + 1) - 1 : Silent(remains[k])
    BY <1>1, <1>6
  <2> QED BY <1>1, <2>1, <2>2, RestOverSilence
<1> QED BY <1>2, <1>3, <1>4, <1>5, <1>6 DEF IsRest

LEMMA HereAgrees ==
  ASSUME InStep, pc \in DOMAIN code
  PROVE  /\ Here = code[pc] /\ code[pc] \in TextCodes
         /\ ~Silent(remains[pc]) => After!Here = remains[pc] /\ remains[pc] \in TextCodes
<1>1. code[pc] \in Codes /\ remains[pc] \in Codes /\ pc \in DOMAIN remains /\ ~Silent(code[pc])
  BY DEF InStep, Shrinks
<1>2. code[pc] \in TextCodes /\ (~Silent(remains[pc]) => remains[pc] \in TextCodes)
  BY <1>1 DEF Codes, Silent
<1>3. ~Silent(remains[pc]) => Rest(remains, pc) = pc
  BY PlacesAgree
<1> QED BY <1>1, <1>2, <1>3 DEF Here, After!Here

\* An operand that a code of the program after the pass has.
LEMMA SameOperandAgrees ==
  ASSUME InStep, pc \in DOMAIN code, ~Silent(remains[pc]), NEW f \in UsingFields(remains[pc]),
         NEW x, x = remains[pc][f]
  PROVE  /\ OperandAgrees(x, x)
         /\ x.kind # "Constant" =>
              /\ x.var \in DOMAIN KeptData(data) <=> x.var \in DOMAIN data
              /\ x.var \in DOMAIN data => KeptData(data)[x.var] = data[x.var]
<1>1. ASSUME x.kind # "Constant" PROVE IsUsed(x.var, remains)
  <2>1. f \in FieldsUsing(remains[pc], x.var)
    BY <1>1 DEF FieldsUsing
  <2>2. pc \in DOMAIN remains
    BY PlacesAgree
  <2> QED BY <2>1, <2>2 DEF IsUsed
<1>2. ASSUME x.kind # "Constant"
      PROVE  /\ x.var \in DOMAIN KeptData(data) <=> x.var \in DOMAIN data
             /\ x.var \in DOMAIN data => KeptData(data)[x.var] = data[x.var]
  BY <1>1, <1>2 DEF KeptData
<1>3. OperandAgrees(x, x)
  BY <1>2, AfterOperators DEF OperandAgrees, HasValue, After!HasValue, Val, After!Val, Value
<1> QED BY <1>2, <1>3

\* What a code reads.
LEMMA ReadsAre ==
  ASSUME NEW c \in TextCodes
  PROVE  /\ Here = c => Reads = {c[f] : f \in ReadFields(c)}
         /\ After!Here = c => After!Reads = {c[f] : f \in ReadFields(c)}
<1>0. After!ArithKinds = ArithKinds
  BY AfterOperators
<1>1. CASE c.op = "Assign"
  <2>1. ReadFields(c) = {"right"}
    BY <1>1 DEF ReadFields, UsingFields, ArithKinds
  <2> QED BY <1>0, <1>1, <2>1 DEF Reads, After!Reads, ArithKinds
<1>2. CASE c.op \in ArithKinds \cup {"Branch"}
  <2>1. ReadFields(c) = {"op1", "op2"}
    BY <1>2 DEF ReadFields, UsingFields, ArithKinds
  <2>2. {c[f] : f \in ReadFields(c)} = {c.op1, c.op2}
    BY <2>1
  <2> QED BY <1>0, <1>2, <2>2 DEF Reads, After!Reads, ArithKinds
<1>3. CASE c.op = "Return"
  <2>1. ReadFields(c) = {"ret"}
    BY <1>3 DEF ReadFields, UsingFields, ArithKinds
  <2> QED BY <1>0, <1>3, <2>1 DEF Reads, After!Reads, ArithKinds
<1>4. CASE c.op = "Arg"
  <2>1. ReadFields(c) = {"arg"}
    BY <1>4 DEF ReadFields, UsingFields, ArithKinds
  <2> QED BY <1>0, <1>4, <2>1 DEF Reads, After!Reads, ArithKinds
<1>5. CASE c.op = "Write"
  <2>1. ReadFields(c) = {"write"}
    BY <1>5 DEF ReadFields, UsingFields, ArithKinds
  <2> QED BY <1>0, <1>5, <2>1 DEF Reads, After!Reads, ArithKinds
<1>6. CASE c.op \in {"Label", "Goto", "Func", "Dec", "Call", "Param", "Read"}
  <2>1. ReadFields(c) = {}
    BY <1>6 DEF ReadFields, UsingFields, ArithKinds
  <2> QED BY <1>0, <1>6, <2>1 DEF Reads, After!Reads, ArithKinds
<1> QED BY <1>1, <1>2, <1>3, <1>4, <1>5, <1>6, CodeFields

\* A code that does what it did can be executed when it could.
LEMMA ExecutableAgrees ==
  ASSUME InStep, pc \in DOMAIN code, ~Silent(remains[pc]), Agrees(code[pc], remains[pc]),
         Executable, StoresAreKept
  PROVE  /\ After!Executable
         /\ \A f \in ReadFields(code[pc]) : After!Val(remains[pc][f]) = Val(code[pc][f])
         /\ Here.op = "Assign" /\ Here.left.kind = "Deref" =>
              /\ Here.left.var \in DOMAIN data /\ data[Here.left.var] \in Kept
              /\ Here.left.var \in DOMAIN KeptData(data)
              /\ KeptData(data)[Here.left.var] = data[Here.left.var]
<1> DEFINE c == code[pc]
           d == remains[pc]
<1>1. Here = c /\ After!Here = d /\ c \in TextCodes /\ d \in TextCodes
  BY HereAgrees
<1>2. SameShape(c, d) /\ d.op = c.op
  BY DEF Agrees, SameShape
<1>3. Reads = {c[f] : f \in ReadFields(c)} /\ After!Reads = {d[f] : f \in ReadFields(d)}
  BY <1>1, ReadsAre
<1>4. ReadFields(d) = ReadFields(c)
  BY <1>2 DEF ReadFields, UsingFields, ArithKinds
<1>5. \A f \in ReadFields(c) : HasValue(c[f])
  BY <1>3 DEF Executable
<1>6. \A f \in ReadFields(c) : After!HasValue(d[f]) /\ After!Val(d[f]) = Val(c[f])
  BY <1>5 DEF Agrees, OperandAgrees
<1>7. \A op \in After!Reads : After!HasValue(op)
  BY <1>3, <1>4, <1>6
<1> HIDE DEF c, d
<1>8. ASSUME c.op = "Assign", c.left.kind = "Deref"
      PROVE  /\ c.left.var \in DOMAIN data /\ data[c.left.var] \in Kept
             /\ c.left.var \in DOMAIN KeptData(data)
             /\ KeptData(data)[c.left.var] = data[c.left.var]
             /\ After!CanTake(d.left)
  <2>1. c.left.var \in DOMAIN data /\ data[c.left.var] \in DOMAIN blocks
    BY <1>1, <1>8 DEF Executable, CanTake
  <2>2. data[c.left.var] \in Kept
    BY <1>1, <1>8, <2>1 DEF StoresAreKept
  <2>3. d.left = c.left /\ "left" \in UsingFields(d)
    BY <1>2, <1>8 DEF SameShape, UsingFields, ArithKinds
  <2>4. c.left.var \in DOMAIN KeptData(data) /\ KeptData(data)[c.left.var] = data[c.left.var]
    BY <1>8, <2>1, <2>3, SameOperandAgrees DEF d
  <2> QED BY <2>1, <2>2, <2>3, <2>4 DEF After!CanTake
<1>9. c.op = "Assign" => After!CanTake(d.left)
  <2>1. CASE c.op = "Assign" /\ c.left.kind # "Deref"
    BY <1>2, <2>1 DEF After!CanTake, SameShape
  <2> QED BY <1>8, <2>1
<1>10. c.op = "Div" => After!Val(d.op2) # 0
  <2>1. c.op = "Div" => "op2" \in ReadFields(c)
    BY DEF ReadFields, UsingFields, ArithKinds
  <2> QED BY <1>1, <1>6, <2>1 DEF Executable
<1>11. c.op = "Call" => After!Entries(d.func, remains) # {}
  BY <1>1, <1>2, AfterOperators DEF Executable, SameShape, InStep, Shrinks
<1>12. c.op \in {"Goto", "Branch"} => After!Places(d.label, remains) # {}
  BY AfterOperators DEF Agrees, JumpAgrees, c, d
<1>13. c.op \notin {"Func", "End"} /\ (c.op = "Param" => args # << >>) /\ (c.op = "Read" => inp # << >>)
  BY <1>1 DEF Executable
<1>14. After!Executable
  BY <1>1, <1>2, <1>7, <1>9, <1>10, <1>11, <1>12, <1>13 DEF After!Executable
<1> QED BY <1>1, <1>6, <1>8, <1>14 DEF c, d

\* The codes at pc do the same.
AgreesHere ==
  /\ InStep /\ StoresAreKept
  /\ pc \in DOMAIN code /\ ~Silent(remains[pc]) /\ Agrees(code[pc], remains[pc])

LEMMA AtAgrees ==
  ASSUME AgreesHere, NEW ops, At(ops)
  PROVE  /\ After!At(ops) /\ After!Here = remains[pc] /\ Here = code[pc] /\ Here.op \in ops
         /\ remains[pc].op = code[pc].op
BY HereAgrees, ExecutableAgrees DEF AgreesHere, At, After!At, Agrees, SameShape

\* Going on to the next code.
LEMMA AdvanceAgrees ==
  ASSUME AgreesHere, Advance, UNCHANGED remains
  PROVE  After!Advance
<1>1. Rest(remains, pc) = pc /\ Rest(remains, Rest(code, pc + 1)) = Rest(remains, pc + 1)
  BY PlacesAgree DEF AgreesHere
<1>2. Rest(remains', pc') = Rest(remains, pc + 1)
  BY <1>1 DEF Advance
<1>3. Rest(remains, pc)' = After!Rest(remains, Rest(remains, pc) + 1)
  BY <1>1, <1>2, AfterOperators
<1> QED BY <1>3 DEF Advance, After!Advance

\* The parts of the state that are seen in part.
AfterBlocks == [a \in Kept |-> blocks[a]]
AfterFrames == [i \in DOMAIN frames |-> [frames[i] EXCEPT !.data = KeptData(@)]]

LEMMA BlocksStay ==
  ASSUME UNCHANGED <<blocks, remains>>
  PROVE  AfterBlocks' = AfterBlocks
BY DEF AfterBlocks, Kept, DecVars

LEMMA FramesStay ==
  ASSUME UNCHANGED <<frames, remains>>
  PROVE  AfterFrames' = AfterFrames
BY DEF AfterFrames, KeptData

LEMMA DataAfter ==
  ASSUME UNCHANGED remains
  PROVE  /\ KeptData(data)' = KeptData(data')
         /\ \A env, x, v : (KeptData(env))' = KeptData(env)
BY DEF KeptData

LEMMA AssignAgrees ==
  ASSUME AgreesHere, RunAssign, UNCHANGED remains
  PROVE  After!RunAssign
<1> DEFINE c == code[pc]
           d == remains[pc]
<1>1. /\ After!At({"Assign"}) /\ After!Here = d /\ Here = c /\ c.op = "Assign" /\ d.op = "Assign"
      /\ After!Advance
  BY AtAgrees, AdvanceAgrees DEF RunAssign
<1>2. d.left = c.left
  BY <1>1 DEF AgreesHere, Agrees, SameShape
<1>3. "right" \in ReadFields(c)
  BY <1>1 DEF ReadFields, UsingFields, ArithKinds
<1>4. After!Val(d.right) = Val(c.right)
  BY <1>3, ExecutableAgrees DEF AgreesHere, RunAssign, At
<1>5. c.left.kind = "Deref" => KeptData(data)[c.left.var] = data[c.left.var]
  BY <1>1, ExecutableAgrees DEF AgreesHere, RunAssign, At
<1> HIDE DEF c, d
<1>6. UNCHANGED <<inp, AfterBlocks, AfterFrames, args, out>>
  BY BlocksStay, FramesStay DEF RunAssign
<1>7. CASE c.left.kind = "Deref"
  <2>1. mem' = With(mem, data[c.left.var], Val(c.right)) /\ data' = data
    BY <1>1, <1>7 DEF RunAssign
  <2>2. mem' = After!With(mem, KeptData(data)[d.left.var], After!Val(d.right))
    BY <1>2, <1>4, <1>5, <1>7, <2>1, AfterOperators
  <2>3. KeptData(data)' = KeptData(data)
    BY <2>1, DataAfter
  <2> QED BY <1>1, <1>2, <1>6, <1>7, <2>2, <2>3 DEF After!RunAssign, AfterBlocks, AfterFrames
<1>8. CASE c.left.kind # "Deref"
  <2>1. data' = Keep(data, c.left.var, Val(c.right)) /\ mem' = mem
    BY <1>1, <1>8 DEF RunAssign
  <2>2. KeptData(data)' = After!Keep(KeptData(data), d.left.var, After!Val(d.right))
    BY <1>2, <1>4, <2>1, KeepAgrees, DataAfter DEF AgreesHere
  <2> QED BY <1>1, <1>2, <1>6, <1>8, <2>1, <2>2 DEF After!RunAssign, AfterBlocks, AfterFrames
<1> QED BY <1>7, <1>8

\* Going on to the next code, without the rest of Advance.
LEMMA NextAgrees ==
  ASSUME AgreesHere, pc' = Rest(code, pc + 1), UNCHANGED remains
  PROVE  Rest(remains, pc)' = After!Rest(remains, Rest(remains, pc) + 1)
<1>1. Rest(remains, pc) = pc /\ Rest(remains, Rest(code, pc + 1)) = Rest(remains, pc + 1)
  BY PlacesAgree DEF AgreesHere
<1> QED BY <1>1, AfterOperators

LEMMA ArithAgrees ==
  ASSUME AgreesHere, RunArith, UNCHANGED remains
  PROVE  After!RunArith
<1> DEFINE c == code[pc]
           d == remains[pc]
<1>1. /\ After!At(After!ArithKinds) /\ After!Here = d /\ Here = c /\ c.op \in ArithKinds /\ d.op = c.op
  BY AtAgrees, AfterOperators DEF RunArith
<1>2. After!Advance
  BY AdvanceAgrees DEF RunArith
<1>3. d.target = c.target
  BY <1>1 DEF AgreesHere, Agrees, SameShape
<1>4. "op1" \in ReadFields(c) /\ "op2" \in ReadFields(c)
  BY <1>1 DEF ReadFields, UsingFields, ArithKinds
<1>5. After!Val(d.op1) = Val(c.op1) /\ After!Val(d.op2) = Val(c.op2)
  BY <1>4, ExecutableAgrees DEF AgreesHere, RunArith, At
<1> HIDE DEF c, d
<1>6. UNCHANGED <<inp, AfterBlocks, mem, AfterFrames, args, out>>
  BY BlocksStay, FramesStay DEF RunArith
<1>7. KeptData(data)' = KeptData(Keep(data, c.target, Arith(c.op, Val(c.op1), Val(c.op2))))
  BY <1>1, DataAfter DEF RunArith
<1>8. KeptData(data)' = After!Keep(KeptData(data), d.target, After!Arith(d.op, After!Val(d.op1), After!Val(d.op2)))
  BY <1>1, <1>3, <1>5, <1>7, KeepAgrees, AfterOperators DEF AgreesHere
<1> QED BY <1>1, <1>2, <1>6, <1>8 DEF After!RunArith, AfterBlocks, AfterFrames

\* Where a jump leads.
LEMMA JumpAgreesNext ==
  ASSUME AgreesHere, code[pc].op \in {"Goto", "Branch"}, UNCHANGED remains,
         pc' = TargetOf(code[pc].label, code)
  PROVE  Rest(remains, pc)' = After!TargetOf(remains[pc].label, remains)
<1>1. Rest(remains', pc') = TargetOf(remains[pc].label, remains)
  BY DEF AgreesHere, Agrees, JumpAgrees
<1> QED BY <1>1, AfterOperators

LEMMA GotoAgrees ==
  ASSUME AgreesHere, RunGoto, UNCHANGED remains
  PROVE  After!RunGoto
<1> DEFINE c == code[pc]
           d == remains[pc]
<1>1. /\ After!At({"Goto"}) /\ After!Here = d /\ Here = c /\ c.op \in {"Goto"} /\ d.op = c.op
  BY AtAgrees DEF RunGoto
<1> HIDE DEF c, d
<1>2. Rest(remains, pc)' = After!TargetOf(d.label, remains)
  BY <1>1, JumpAgreesNext DEF RunGoto, c, d
<1>3. UNCHANGED <<status, remains, inp, AfterBlocks, mem, AfterFrames, args, out, result>>
  BY BlocksStay, FramesStay DEF RunGoto
<1>4. KeptData(data)' = KeptData(data)
  BY DataAfter DEF RunGoto
<1> QED BY <1>1, <1>2, <1>3, <1>4 DEF After!RunGoto, AfterBlocks, AfterFrames

LEMMA BranchAgrees ==
  ASSUME AgreesHere, RunBranch, UNCHANGED remains
  PROVE  After!RunBranch
<1> DEFINE c == code[pc]
           d == remains[pc]
<1>1. /\ After!At({"Branch"}) /\ After!Here = d /\ Here = c /\ c.op \in {"Branch"} /\ d.op = c.op
  BY AtAgrees DEF RunBranch
<1>2. d.relop = c.relop
  BY <1>1 DEF AgreesHere, Agrees, SameShape
<1>3. "op1" \in ReadFields(c) /\ "op2" \in ReadFields(c)
  BY <1>1 DEF ReadFields, UsingFields, ArithKinds
<1>4. After!Val(d.op1) = Val(c.op1) /\ After!Val(d.op2) = Val(c.op2)
  BY <1>3, ExecutableAgrees DEF AgreesHere, RunBranch, At
<1> HIDE DEF c, d
<1>5. Relation(c.relop, Val(c.op1), Val(c.op2)) = After!Relation(d.relop, After!Val(d.op1), After!Val(d.op2))
  BY <1>2, <1>4, AfterOperators
<1>6. UNCHANGED <<status, remains, inp, AfterBlocks, mem, AfterFrames, args, out, result>>
  BY BlocksStay, FramesStay DEF RunBranch
<1>7. KeptData(data)' = KeptData(data)
  BY DataAfter DEF RunBranch
<1>8. CASE Relation(c.relop, Val(c.op1), Val(c.op2))
  <2>1. pc' = TargetOf(c.label, code)
    BY <1>1, <1>8 DEF RunBranch
  <2>2. Rest(remains, pc)' = After!TargetOf(d.label, remains)
    BY <1>1, <2>1, JumpAgreesNext DEF c, d
  <2> QED BY <1>1, <1>5, <1>8, <2>2, <1>6, <1>7 DEF After!RunBranch, AfterBlocks, AfterFrames
<1>9. CASE ~Relation(c.relop, Val(c.op1), Val(c.op2))
  <2>1. pc' = Rest(code, pc + 1)
    BY <1>1, <1>9 DEF RunBranch
  <2>2. Rest(remains, pc)' = After!Rest(remains, Rest(remains, pc) + 1)
    BY <2>1, NextAgrees
  <2> QED BY <1>1, <1>5, <1>9, <2>2, <1>6, <1>7 DEF After!RunBranch, AfterBlocks, AfterFrames
<1> QED BY <1>8, <1>9

LEMMA ReadAgrees ==
  ASSUME AgreesHere, RunRead, UNCHANGED remains
  PROVE  After!RunRead
<1> DEFINE c == code[pc]
           d == remains[pc]
<1>1. /\ After!At({"Read"}) /\ After!Here = d /\ Here = c /\ c.op \in {"Read"} /\ d.op = c.op
  BY AtAgrees DEF RunRead
<1>2. After!Advance
  BY AdvanceAgrees DEF RunRead
<1>3. d = c
  BY <1>1 DEF AgreesHere, Agrees, SameShape
<1> HIDE DEF c, d
<1>4. UNCHANGED <<AfterBlocks, mem, AfterFrames, args, out>>
  BY BlocksStay, FramesStay DEF RunRead
<1>5. KeptData(data)' = After!Keep(KeptData(data), d.read, Head(inp))
  BY <1>1, <1>3, DataAfter, KeepAgrees DEF AgreesHere, RunRead
<1>6. inp' = Tail(inp)
  BY DEF RunRead
<1> QED BY <1>1, <1>2, <1>4, <1>5, <1>6 DEF After!RunRead, AfterBlocks, AfterFrames

LEMMA WriteAgrees ==
  ASSUME AgreesHere, RunWrite, UNCHANGED remains
  PROVE  After!RunWrite
<1> DEFINE c == code[pc]
           d == remains[pc]
<1>1. /\ After!At({"Write"}) /\ After!Here = d /\ Here = c /\ c.op \in {"Write"} /\ d.op = c.op
  BY AtAgrees DEF RunWrite
<1>2. After!Advance
  BY AdvanceAgrees DEF RunWrite
<1>3. "write" \in ReadFields(c)
  BY <1>1 DEF ReadFields, UsingFields, ArithKinds
<1>4. After!Val(d.write) = Val(c.write)
  BY <1>3, ExecutableAgrees DEF AgreesHere, RunWrite, At
<1> HIDE DEF c, d
<1>5. UNCHANGED <<inp, AfterBlocks, mem, AfterFrames, args>>
  BY BlocksStay, FramesStay DEF RunWrite
<1>6. KeptData(data)' = KeptData(data)
  BY DataAfter DEF RunWrite
<1>7. out' = Append(out, After!Val(d.write))
  BY <1>1, <1>4 DEF RunWrite
<1> QED BY <1>1, <1>2, <1>5, <1>6, <1>7 DEF After!RunWrite, AfterBlocks, AfterFrames

LEMMA ArgAgrees ==
  ASSUME AgreesHere, RunArg, UNCHANGED remains
  PROVE  After!RunArg
<1> DEFINE c == code[pc]
           d == remains[pc]
<1>1. /\ After!At({"Arg"}) /\ After!Here = d /\ Here = c /\ c.op \in {"Arg"} /\ d.op = c.op
  BY AtAgrees DEF RunArg
<1>2. After!Advance
  BY AdvanceAgrees DEF RunArg
<1>3. "arg" \in ReadFields(c)
  BY <1>1 DEF ReadFields, UsingFields, ArithKinds
<1>4. After!Val(d.arg) = Val(c.arg)
  BY <1>3, ExecutableAgrees DEF AgreesHere, RunArg, At
<1> HIDE DEF c, d
<1>5. UNCHANGED <<inp, AfterBlocks, mem, AfterFrames, out>>
  BY BlocksStay, FramesStay DEF RunArg
<1>6. KeptData(data)' = KeptData(data)
  BY DataAfter DEF RunArg
<1>7. args' = Append(args, After!Val(d.arg))
  BY <1>1, <1>4 DEF RunArg
<1> QED BY <1>1, <1>2, <1>5, <1>6, <1>7 DEF After!RunArg, AfterBlocks, AfterFrames

LEMMA ParamAgrees ==
  ASSUME AgreesHere, RunParam, UNCHANGED remains
  PROVE  After!RunParam
<1> DEFINE c == code[pc]
           d == remains[pc]
<1>1. /\ After!At({"Param"}) /\ After!Here = d /\ Here = c /\ c.op \in {"Param"} /\ d.op = c.op
  BY AtAgrees DEF RunParam
<1>2. After!Advance
  BY AdvanceAgrees DEF RunParam
<1>3. d = c
  BY <1>1 DEF AgreesHere, Agrees, SameShape
<1> HIDE DEF c, d
<1>4. UNCHANGED <<inp, AfterBlocks, mem, AfterFrames, out>>
  BY BlocksStay, FramesStay DEF RunParam
<1>5. KeptData(data)' = After!Keep(KeptData(data), d.param, Last(args))
  BY <1>1, <1>3, DataAfter, KeepAgrees DEF AgreesHere, RunParam
<1>6. args' = Front(args)
  BY DEF RunParam
<1>7. After!Last(args) = Last(args) /\ After!Front(args) = Front(args)
  BY DEF After!Last, Last, After!Front, Front
<1> QED BY <1>1, <1>2, <1>4, <1>5, <1>6, <1>7 DEF After!RunParam, AfterBlocks, AfterFrames

LEMMA HaltAgrees ==
  ASSUME AgreesHere, Halt, UNCHANGED remains
  PROVE  After!Halt
<1> DEFINE c == code[pc]
           d == remains[pc]
<1>1. /\ After!At({"Return"}) /\ After!Here = d /\ Here = c /\ c.op \in {"Return"} /\ d.op = c.op
  BY AtAgrees DEF Halt
<1>2. "ret" \in ReadFields(c)
  BY <1>1 DEF ReadFields, UsingFields, ArithKinds
<1>3. After!Val(d.ret) = Val(c.ret)
  BY <1>2, ExecutableAgrees DEF AgreesHere, Halt, At
<1> HIDE DEF c, d
<1>4. UNCHANGED <<remains, inp, Rest(remains, pc), AfterBlocks, mem, AfterFrames, args, out>>
  BY BlocksStay, FramesStay DEF Halt
<1>5. KeptData(data)' = KeptData(data)
  BY DataAfter DEF Halt
<1>6. AfterFrames = << >>
  BY DEF Halt, AfterFrames
<1>7. result' = After!Val(d.ret) /\ status' = "halted"
  BY <1>1, <1>3 DEF Halt
<1> QED BY <1>1, <1>4, <1>5, <1>6, <1>7 DEF After!Halt, AfterBlocks, AfterFrames

\* A sequence is one over its own elements.
LEMMA OwnElements ==
  ASSUME NEW S, NEW s \in Seq(S)
  PROVE  s \in Seq({s[i] : i \in DOMAIN s})
OBVIOUS

\* The blocks after a DEC that the pass has left.
LEMMA DecBlocks ==
  ASSUME InStep, pc \in DOMAIN code, remains[pc] = code[pc], code[pc].op = "Dec",
         NEW base \in Int, RunDec(base), UNCHANGED remains,
         NEW new, new = base .. base + code[pc].size - 1
  PROVE  /\ Kept' = Kept \cup new
         /\ \A a \in Kept : a \notin new /\ blocks'[a] = blocks[a]
         /\ \A a \in new : blocks'[a] = [var |-> code[pc].var, depth |-> Len(frames)]
<1>1. Here = code[pc] /\ code[pc] \in TextCodes
  BY HereAgrees
<1>2. /\ blocks' = [a \in DOMAIN blocks \cup new |->
                      IF a \in new THEN [var |-> code[pc].var, depth |-> Len(frames)] ELSE blocks[a]]
      /\ \A a \in base - 1 .. base + code[pc].size : a \notin DOMAIN blocks
  BY <1>1 DEF RunDec, Free
<1>3. code[pc].size \in Nat
  BY <1>1, CodeFields DEF ArithKinds
<1>4. \A a \in DOMAIN blocks : a \notin new
  BY <1>2, <1>3
<1>5. code[pc].var \in DecVars /\ DecVars' = DecVars
  <2>1. pc \in DOMAIN remains
    BY PlacesAgree
  <2> QED BY <2>1 DEF DecVars
<1>6. Kept' = {a \in DOMAIN blocks' : blocks'[a].var \in DecVars}
  BY <1>5 DEF Kept
<1>7. \A a \in DOMAIN blocks \cup new :
        blocks'[a] = IF a \in new THEN [var |-> code[pc].var, depth |-> Len(frames)] ELSE blocks[a]
  BY <1>2
<1>8. DOMAIN blocks' = DOMAIN blocks \cup new
  BY <1>2
<1>9. Kept' = Kept \cup new
  BY <1>4, <1>5, <1>6, <1>7, <1>8 DEF Kept
<1> QED BY <1>4, <1>7, <1>9 DEF Kept

LEMMA DecAgrees ==
  ASSUME AgreesHere, NEW base \in Int, RunDec(base), UNCHANGED remains
  PROVE  After!RunDec(base)
<1> DEFINE c == code[pc]
           d == remains[pc]
           new == base .. base + c.size - 1
<1>1. /\ After!At({"Dec"}) /\ After!Here = d /\ Here = c /\ c.op = "Dec" /\ d.op = c.op
  BY AtAgrees DEF RunDec
<1>2. After!Advance
  BY AdvanceAgrees DEF RunDec
<1>3. d = c
  BY <1>1 DEF AgreesHere, Agrees, SameShape
<1>4. /\ Kept' = Kept \cup new
      /\ \A a \in Kept : a \notin new /\ blocks'[a] = blocks[a]
      /\ \A a \in new : blocks'[a] = [var |-> c.var, depth |-> Len(frames)]
  BY <1>1, <1>3, DecBlocks DEF AgreesHere
<1> HIDE DEF c, d
<1>5. After!Free(base, d.size)
  BY <1>1, <1>3 DEF RunDec, Free, After!Free, Kept
<1>6. UNCHANGED <<inp, mem, AfterFrames, args, out>>
  BY FramesStay DEF RunDec
<1>7. KeptData(data)' = After!Keep(KeptData(data), d.var, base)
  BY <1>1, <1>3, DataAfter, KeepAgrees DEF AgreesHere, RunDec
<1>8. Len(AfterFrames) = Len(frames)
  BY DEF AfterFrames, AgreesHere, InStep
<1>9. AfterBlocks' = [a \in DOMAIN AfterBlocks \cup new |->
                        IF a \in new THEN [var |-> d.var, depth |-> Len(AfterFrames)] ELSE AfterBlocks[a]]
  <2> HIDE DEF new
  <2>1. DOMAIN AfterBlocks = Kept /\ \A a \in Kept : AfterBlocks[a] = blocks[a]
    BY DEF AfterBlocks
  <2>2. AfterBlocks' = [a \in Kept \cup new |-> blocks'[a]]
    BY <1>4 DEF AfterBlocks
  <2> QED BY <1>3, <1>4, <1>8, <2>1, <2>2
<1> QED BY <1>1, <1>2, <1>3, <1>5, <1>6, <1>7, <1>9 DEF After!RunDec, AfterBlocks, AfterFrames

LEMMA CallAgrees ==
  ASSUME AgreesHere, RunCall, UNCHANGED remains
  PROVE  After!RunCall
<1> DEFINE c == code[pc]
           d == remains[pc]
<1>1. /\ After!At({"Call"}) /\ After!Here = d /\ Here = c /\ c.op = "Call" /\ d.op = c.op
  BY AtAgrees DEF RunCall
<1>2. d = c
  BY <1>1 DEF AgreesHere, Agrees, SameShape
<1>3. Rest(remains, pc) = pc
  BY PlacesAgree DEF AgreesHere
<1>4. Rest(remains, pc)' = After!BodyOf(d.func, remains)
  <2> DEFINE e == CHOOSE i \in Entries(c.func, code) : TRUE
  <2>1. Entries(c.func, code) # {} /\ Entries(c.func, remains) = Entries(c.func, code)
    BY <1>1 DEF RunCall, At, Executable, AgreesHere, InStep, Shrinks
  <2>2. e \in DOMAIN code
    <3>1. e \in Entries(c.func, code)
      BY <2>1
    <3> QED BY <3>1 DEF Entries
  <2> HIDE DEF e, c
  <2>3. Rest(remains, Rest(code, 1 + e)) = Rest(remains, 1 + e)
    BY <2>2, PlacesAgree DEF AgreesHere
  <2>4. pc' = Rest(code, 1 + e)
    BY <1>1 DEF RunCall, BodyOf, e
  <2>5. BodyOf(c.func, remains) = Rest(remains, 1 + e)
    BY <2>1 DEF BodyOf, e
  <2>6. Rest(remains', pc') = BodyOf(d.func, remains)
    BY <1>2, <2>3, <2>4, <2>5
  <2> QED BY <2>6, AfterOperators
<1>5. UNCHANGED <<status, remains, inp, AfterBlocks, mem, args, out, result>>
  BY BlocksStay DEF RunCall
<1>6. KeptData(data)' = << >>
  <2>1. data' = << >>
    BY DEF RunCall
  <2> QED BY <2>1, DataAfter DEF KeptData
<1>7. AfterFrames' = Append(AfterFrames, [data |-> KeptData(data), pc |-> Rest(remains, pc)])
  <2> DEFINE R == {frames[i] : i \in DOMAIN frames}
             new == [data |-> data, pc |-> pc]
             kept == [data |-> KeptData(data), pc |-> pc]
  <2>1. frames \in Seq(R) /\ frames' = Append(frames, new)
    BY DEF RunCall, AgreesHere, InStep
  <2>2. [new EXCEPT !.data = KeptData(@)] = kept
    OBVIOUS
  <2> HIDE DEF R, new, kept
  <2>3. /\ DOMAIN frames = 1 .. Len(frames) /\ Len(frames) \in Nat
        /\ DOMAIN frames' = 1 .. Len(frames) + 1
        /\ \A i \in 1 .. Len(frames) + 1 :
             frames'[i] = IF i <= Len(frames) THEN frames[i] ELSE new
    BY <2>1
  <2>4. /\ DOMAIN AfterFrames = 1 .. Len(frames)
        /\ \A i \in 1 .. Len(frames) : AfterFrames[i] = [frames[i] EXCEPT !.data = KeptData(@)]
    BY <2>3 DEF AfterFrames
  <2>5. AfterFrames' = [i \in 1 .. Len(frames) + 1 |-> [frames'[i] EXCEPT !.data = KeptData(@)]]
    <3>1. AfterFrames' = [i \in DOMAIN frames' |-> [frames'[i] EXCEPT !.data = KeptData(@)]]
      BY DEF AfterFrames, KeptData
    <3> QED BY <2>3, <3>1
  <2>6. AfterFrames' = [i \in 1 .. Len(frames) + 1 |->
                          IF i <= Len(frames) THEN AfterFrames[i] ELSE kept]
    BY <2>2, <2>3, <2>4, <2>5
  <2>7. Len(AfterFrames) = Len(frames) /\ AfterFrames \in Seq({AfterFrames[i] : i \in 1 .. Len(frames)})
    <3>1. AfterFrames = [i \in 1 .. Len(frames) |-> AfterFrames[i]]
      BY <2>3, <2>4 DEF AfterFrames
    <3> QED BY <2>3, <2>4, <3>1
  <2>8. Append(AfterFrames, kept) = [i \in 1 .. Len(frames) + 1 |->
                                       IF i <= Len(frames) THEN AfterFrames[i] ELSE kept]
    <3>1. PICK T : T = {AfterFrames[i] : i \in 1 .. Len(frames)} \cup {kept}
      OBVIOUS
    <3>2. AfterFrames \in Seq(T) /\ kept \in T
      BY <2>7, <3>1
    <3>3. PICK s : s = Append(AfterFrames, kept)
      OBVIOUS
    <3>4. /\ s \in Seq(T) /\ Len(s) = Len(frames) + 1
          /\ \A i \in 1 .. Len(frames) : s[i] = AfterFrames[i]
          /\ s[Len(frames) + 1] = kept
      BY <2>7, <3>2, <3>3, AppendProperties
    <3>5. s = [i \in 1 .. Len(frames) + 1 |-> s[i]]
      BY <3>4
    <3>6. \A i \in 1 .. Len(frames) + 1 : s[i] = IF i <= Len(frames) THEN AfterFrames[i] ELSE kept
      BY <2>3, <3>4
    <3> QED BY <3>3, <3>5, <3>6
  <2> QED BY <1>3, <2>6, <2>8 DEF kept
<1> HIDE DEF c, d
<1> QED BY <1>1, <1>4, <1>5, <1>6, <1>7 DEF After!RunCall, AfterBlocks, AfterFrames

\* The last of the suspended activations.
LEMMA LastFrame ==
  ASSUME InStep, frames # << >>
  PROVE  /\ Len(frames) \in Nat \ {0} /\ Len(frames) \in DOMAIN frames
         /\ Last(frames) = frames[Len(frames)]
         /\ Last(frames).pc \in DOMAIN code /\ code[Last(frames).pc].op = "Call"
         /\ remains[Last(frames).pc] = code[Last(frames).pc]
         /\ AfterFrames # << >> /\ Len(AfterFrames) = Len(frames)
         /\ After!Last(AfterFrames).data = KeptData(Last(frames).data)
         /\ After!Last(AfterFrames).pc = Last(frames).pc
<1>1. /\ frames \in Seq({frames[i] : i \in DOMAIN frames})
      /\ \A i \in DOMAIN frames : /\ frames[i] = [data |-> frames[i].data, pc |-> frames[i].pc]
                                  /\ frames[i].pc \in DOMAIN code /\ code[frames[i].pc].op = "Call"
  BY DEF InStep
<1>2. Len(frames) \in Nat \ {0} /\ DOMAIN frames = 1 .. Len(frames)
  BY <1>1
<1>3. Last(frames) = frames[Len(frames)]
  BY DEF Last
<1>4. DOMAIN AfterFrames = 1 .. Len(frames) /\ Len(AfterFrames) = Len(frames)
  BY <1>2 DEF AfterFrames
<1>5. Len(frames) \in DOMAIN frames
  BY <1>2
<1>6. PICK f : f = frames[Len(frames)] /\ f = [data |-> f.data, pc |-> f.pc]
  BY <1>1, <1>5
<1>7. After!Last(AfterFrames) = [f EXCEPT !.data = KeptData(@)]
  BY <1>2, <1>4, <1>5, <1>6 DEF AfterFrames, After!Last
<1>8. After!Last(AfterFrames).data = KeptData(f.data) /\ After!Last(AfterFrames).pc = f.pc
  BY <1>6, <1>7
<1>9. remains[f.pc] = code[f.pc]
  BY <1>1, <1>5, <1>6 DEF InStep, Shrinks
<1>10. AfterFrames # << >>
  BY <1>2, <1>4
<1> QED BY <1>1, <1>2, <1>3, <1>4, <1>5, <1>6, <1>8, <1>9, <1>10

\* The others.
LEMMA FrontFrames ==
  ASSUME InStep, frames # << >>, frames' = Front(frames), UNCHANGED remains
  PROVE  /\ DOMAIN frames' = 1 .. Len(frames) - 1
         /\ \A i \in DOMAIN frames' : i \in DOMAIN frames /\ frames'[i] = frames[i]
         /\ frames' \in Seq({frames'[i] : i \in DOMAIN frames'})
         /\ AfterFrames' = After!Front(AfterFrames)
<1> DEFINE n == Len(frames)
<1>1. n \in Nat \ {0} /\ frames \in Seq({frames[i] : i \in DOMAIN frames})
  BY LastFrame DEF InStep
<1>2. frames' = SubSeq(frames, 1, n - 1)
  BY DEF Front
<1>3. frames' = [i \in 1 .. n - 1 |-> frames[i]]
  BY <1>1, <1>2
<1>4. DOMAIN frames = 1 .. n
  BY <1>1
<1>5. AfterFrames = [i \in 1 .. n |-> [frames[i] EXCEPT !.data = KeptData(@)]]
  BY <1>4 DEF AfterFrames
<1>6. After!Front(AfterFrames) = SubSeq(AfterFrames, 1, n - 1)
  BY LastFrame DEF After!Front
<1>7. AfterFrames \in Seq({AfterFrames[i] : i \in 1 .. n}) /\ Len(AfterFrames) = n
  <2>1. AfterFrames = [i \in 1 .. n |-> AfterFrames[i]]
    BY <1>5
  <2> QED BY <1>1, <2>1
<1>8. SubSeq(AfterFrames, 1, n - 1) = [i \in 1 .. n - 1 |-> AfterFrames[i]]
  BY <1>1, <1>7
<1>9. AfterFrames' = [i \in 1 .. n - 1 |-> [frames[i] EXCEPT !.data = KeptData(@)]]
  <2>1. AfterFrames' = [i \in DOMAIN frames' |-> [frames'[i] EXCEPT !.data = KeptData(@)]]
    BY DEF AfterFrames, KeptData
  <2> QED BY <1>3, <2>1
<1>10. \A i \in 1 .. n - 1 : i \in 1 .. n
  BY <1>1
<1>11. AfterFrames' = After!Front(AfterFrames)
  BY <1>5, <1>6, <1>8, <1>9, <1>10
<1>12. frames' \in Seq({frames'[i] : i \in DOMAIN frames'})
  <2> DEFINE T == {frames'[i] : i \in DOMAIN frames'}
  <2>1. n - 1 \in Nat /\ DOMAIN frames' = 1 .. n - 1
    BY <1>1, <1>3
  <2>2. \A i \in 1 .. n - 1 : frames'[i] \in T
    BY <2>1
  <2>3. frames' = [i \in 1 .. n - 1 |-> frames'[i]]
    BY <1>3
  <2> HIDE DEF T
  <2>4. frames' \in Seq(T)
    BY <2>1, <2>2, <2>3
  <2> QED BY <2>4 DEF T
<1> QED BY <1>3, <1>4, <1>10, <1>11, <1>12

\* The blocks and the words that a RETURN leaves.
Mine == {a \in DOMAIN blocks : blocks[a].depth = Len(frames)}
AfterMine == {a \in DOMAIN AfterBlocks : AfterBlocks[a].depth = Len(AfterFrames)}

LEMMA ReturnBlocks ==
  ASSUME InStep, frames # << >>, UNCHANGED remains, Discard(Mine)
  PROVE  /\ AfterBlocks' = [a \in DOMAIN AfterBlocks \ AfterMine |-> AfterBlocks[a]]
         /\ mem' = [a \in DOMAIN mem \ AfterMine |-> mem[a]]
         /\ DOMAIN mem' \subseteq Kept'
<1> DEFINE all == Mine
           mine == AfterMine
<1>1. DOMAIN AfterBlocks = Kept /\ \A a \in Kept : AfterBlocks[a] = blocks[a]
  BY DEF AfterBlocks
<1>2. mine = all \cap Kept
  BY <1>1, LastFrame DEF Kept, Mine, AfterMine
<1>3. /\ blocks' = [a \in DOMAIN blocks \ all |-> blocks[a]]
      /\ mem' = [a \in DOMAIN mem \ all |-> mem[a]]
  BY DEF Discard
<1>4. DOMAIN mem \subseteq Kept /\ Kept \subseteq DOMAIN blocks
  BY DEF InStep, Kept
<1> HIDE DEF all, mine
<1>5. DOMAIN mem \ all = DOMAIN mem \ mine
  BY <1>2, <1>4
<1>6. Kept' = Kept \ mine
  <2>1. DecVars' = DecVars
    BY DEF DecVars
  <2>2. Kept' = {a \in DOMAIN blocks' : blocks'[a].var \in DecVars}
    BY <2>1 DEF Kept
  <2>3. DOMAIN blocks' = DOMAIN blocks \ all /\ \A a \in DOMAIN blocks' : blocks'[a] = blocks[a]
    BY <1>3
  <2> QED BY <1>2, <2>2, <2>3 DEF Kept
<1>7. AfterBlocks' = [a \in Kept' |-> blocks'[a]]
  BY DEF AfterBlocks
<1>8. AfterBlocks' = [a \in Kept \ mine |-> AfterBlocks[a]]
  BY <1>1, <1>2, <1>3, <1>4, <1>6, <1>7
<1> QED BY <1>1, <1>3, <1>4, <1>5, <1>6, <1>8 DEF mine

LEMMA ReturnAgrees ==
  ASSUME AgreesHere, RunReturn, UNCHANGED remains
  PROVE  After!RunReturn
<1> DEFINE c == code[pc]
           d == remains[pc]
           f == Last(frames)
           g == After!Last(AfterFrames)
<1>1. /\ After!At({"Return"}) /\ After!Here = d /\ Here = c /\ c.op = "Return" /\ d.op = c.op
  BY AtAgrees DEF RunReturn
<1>2. "ret" \in ReadFields(c)
  BY <1>1 DEF ReadFields, UsingFields, ArithKinds
<1>3. After!Val(d.ret) = Val(c.ret)
  BY <1>2, ExecutableAgrees DEF AgreesHere, RunReturn, At
<1> HIDE DEF c, d
<1>4. /\ f.pc \in DOMAIN code /\ remains[f.pc] = code[f.pc]
      /\ AfterFrames # << >> /\ Len(AfterFrames) = Len(frames)
      /\ g.data = KeptData(f.data) /\ g.pc = f.pc
  BY LastFrame DEF AgreesHere, RunReturn
<1>5. AfterFrames' = After!Front(AfterFrames)
  BY FrontFrames DEF AgreesHere, RunReturn
<1> HIDE DEF g
<1>6. KeptData(data)' = After!Keep(g.data, remains[g.pc].target, After!Val(d.ret))
  <2>1. data' = Keep(f.data, code[f.pc].target, Val(c.ret))
    BY <1>1 DEF RunReturn
  <2> HIDE DEF f
  <2>2. KeptData(data') = After!Keep(KeptData(f.data), code[f.pc].target, Val(c.ret))
    BY <2>1, KeepAgrees DEF AgreesHere
  <2> QED BY <1>3, <1>4, <2>2, DataAfter
<1>7. Rest(remains, pc)' = After!Rest(remains, g.pc + 1)
  <2>1. pc' = Rest(code, f.pc + 1)
    BY DEF RunReturn
  <2> HIDE DEF f
  <2>2. Rest(remains, Rest(code, f.pc + 1)) = Rest(remains, f.pc + 1)
    BY <1>4, PlacesAgree DEF AgreesHere
  <2> QED BY <1>4, <2>1, <2>2, AfterOperators
<1>8. After!Discard({a \in DOMAIN AfterBlocks : AfterBlocks[a].depth = Len(AfterFrames)})
  <2>1. /\ AfterBlocks' = [a \in DOMAIN AfterBlocks \ AfterMine |-> AfterBlocks[a]]
        /\ mem' = [a \in DOMAIN mem \ AfterMine |-> mem[a]]
    BY ReturnBlocks DEF RunReturn, AgreesHere, Mine
  <2> QED BY <2>1 DEF After!Discard, AfterBlocks, AfterMine
<1>9. UNCHANGED <<status, remains, inp, args, out, result>>
  BY DEF RunReturn
<1> QED BY <1>1, <1>4, <1>5, <1>6, <1>7, <1>8, <1>9 DEF After!RunReturn, AfterBlocks, AfterFrames, g

\* A step of the machine before is one of the machine after, where the codes
\* do the same.
LEMMA StepAgrees ==
  ASSUME AgreesHere, MachineNext, UNCHANGED remains
  PROVE  After!MachineNext
<1>1. CASE \E base \in Bases : RunDec(base)
  BY <1>1, DecAgrees, BasesAssumption DEF After!MachineNext
<1>2. CASE OtherStep
  <2>1. RunAssign => After!RunAssign
    BY AssignAgrees
  <2>2. RunArith => After!RunArith
    BY ArithAgrees
  <2>3. RunGoto => After!RunGoto
    BY GotoAgrees
  <2>4. RunBranch => After!RunBranch
    BY BranchAgrees
  <2>5. RunRead => After!RunRead
    BY ReadAgrees
  <2>6. RunWrite => After!RunWrite
    BY WriteAgrees
  <2>7. RunArg => After!RunArg
    BY ArgAgrees
  <2>8. RunCall => After!RunCall
    BY CallAgrees
  <2>9. RunParam => After!RunParam
    BY ParamAgrees
  <2>10. RunReturn => After!RunReturn
    BY ReturnAgrees
  <2>11. Halt => After!Halt
    BY HaltAgrees
  <2> QED BY <1>2, <2>1, <2>2, <2>3, <2>4, <2>5, <2>6, <2>7, <2>8, <2>9, <2>10, <2>11
          DEF OtherStep, After!MachineNext, After!OtherStep
<1> QED BY <1>1, <1>2 DEF MachineNext

\* The code at pc is dropped, and what it does is not missed.
Drops(c) ==
  \/ c.op = "Assign" /\ c.left.kind # "Deref" /\ ~IsUsed(c.left.var, remains)
  \/ c.op \in ArithKinds /\ ~IsUsed(c.target, remains)
  \/ c.op = "Dec" /\ ~IsUsed(c.var, remains) /\ c.var \notin DecVars
  \/ c.op = "Goto" /\ Rest(remains, TargetOf(c.label, code)) = Rest(remains, pc)

DropsHere == InStep /\ pc \in DOMAIN code /\ Silent(remains[pc]) /\ Drops(code[pc])

AfterState == <<status, remains, inp, Rest(remains, pc), KeptData(data), AfterBlocks, mem,
                AfterFrames, args, out, result>>

\* A step of the machine before is none of the machine after, where the code is
\* dropped.
LEMMA StepDropped ==
  ASSUME DropsHere, MachineNext, UNCHANGED remains
  PROVE  UNCHANGED AfterState
<1> DEFINE c == code[pc]
<1>1. Here = c
  BY HereAgrees DEF DropsHere
<1>2. Rest(remains, pc) = Rest(remains, pc + 1) /\ Rest(remains, Rest(code, pc + 1)) = Rest(remains, pc + 1)
  BY PlacesAgree DEF DropsHere
<1>3. pc' = Rest(code, pc + 1) => Rest(remains, pc)' = Rest(remains, pc)
  BY <1>2
<1> HIDE DEF c
<1>4. \A ops : At(ops) => c.op \in ops
  BY <1>1 DEF At
<1>5. CASE RunAssign
  <2>1. c.op = "Assign" /\ c.left.kind # "Deref" /\ ~IsUsed(c.left.var, remains)
    BY <1>4, <1>5 DEF RunAssign, DropsHere, Drops, ArithKinds, c
  <2>2. data' = Keep(data, c.left.var, Val(c.right)) /\ mem' = mem
    BY <1>1, <1>5, <2>1 DEF RunAssign
  <2>3. KeptData(data)' = KeptData(data)
    BY <2>1, <2>2, KeepDropped, DataAfter DEF DropsHere
  <2> QED BY <1>3, <1>5, <2>2, <2>3, BlocksStay, FramesStay DEF RunAssign, Advance, AfterState
<1>6. CASE RunArith
  <2>1. c.op \in ArithKinds /\ ~IsUsed(c.target, remains)
    BY <1>4, <1>6 DEF RunArith, DropsHere, Drops, ArithKinds, c
  <2>2. data' = Keep(data, c.target, Arith(c.op, Val(c.op1), Val(c.op2)))
    BY <1>1, <1>6 DEF RunArith
  <2>3. KeptData(data)' = KeptData(data)
    BY <2>1, <2>2, KeepDropped, DataAfter DEF DropsHere
  <2> QED BY <1>3, <1>6, <2>3, BlocksStay, FramesStay DEF RunArith, Advance, AfterState
<1>7. CASE RunGoto
  <2>1. c.op = "Goto" /\ Rest(remains, TargetOf(c.label, code)) = Rest(remains, pc)
    BY <1>4, <1>7 DEF RunGoto, DropsHere, Drops, ArithKinds, c
  <2>2. Rest(remains, pc)' = Rest(remains, pc)
    BY <1>1, <1>7, <2>1 DEF RunGoto
  <2>3. KeptData(data)' = KeptData(data)
    BY <1>7, DataAfter DEF RunGoto
  <2> QED BY <1>7, <2>2, <2>3, BlocksStay, FramesStay DEF RunGoto, AfterState
<1>8. ASSUME NEW base \in Bases, RunDec(base) PROVE UNCHANGED AfterState
  <2>1. c.op = "Dec" /\ ~IsUsed(c.var, remains) /\ c.var \notin DecVars
    BY <1>4, <1>8 DEF RunDec, DropsHere, Drops, ArithKinds, c
  <2>2. data' = Keep(data, c.var, base)
    BY <1>1, <1>8 DEF RunDec
  <2>3. KeptData(data)' = KeptData(data)
    BY <2>1, <2>2, KeepDropped, DataAfter DEF DropsHere
  <2> DEFINE new == base .. base + c.size - 1
  <2>4. /\ blocks' = [a \in DOMAIN blocks \cup new |->
                        IF a \in new THEN [var |-> c.var, depth |-> Len(frames)] ELSE blocks[a]]
        /\ \A a \in base - 1 .. base + c.size : a \notin DOMAIN blocks
    BY <1>1, <1>8 DEF RunDec, Free
  <2>5. base \in Int /\ c.size \in Nat
    BY <2>1, BasesAssumption, HereAgrees, CodeFields DEF ArithKinds, DropsHere, c
  <2>6. \A a \in new : a \notin DOMAIN blocks
    BY <2>4, <2>5
  <2> HIDE DEF new
  <2>7. /\ DOMAIN blocks' = DOMAIN blocks \cup new
        /\ \A a \in DOMAIN blocks : blocks'[a] = blocks[a]
        /\ \A a \in new : blocks'[a].var = c.var
    BY <2>4, <2>6
  <2>8. Kept' = {a \in DOMAIN blocks' : blocks'[a].var \in DecVars}
    BY DEF Kept, DecVars
  <2>9. Kept' = Kept
    BY <2>1, <2>7, <2>8 DEF Kept
  <2>10. AfterBlocks' = AfterBlocks
    BY <2>7, <2>9 DEF AfterBlocks, Kept
  <2> QED BY <1>3, <1>8, <2>3, <2>10, FramesStay DEF RunDec, Advance, AfterState
<1>9. ~RunBranch /\ ~RunRead /\ ~RunWrite /\ ~RunArg /\ ~RunCall /\ ~RunParam /\ ~RunReturn /\ ~Halt
  BY <1>4 DEF RunBranch, RunRead, RunWrite, RunArg, RunCall, RunParam, RunReturn, Halt,
              DropsHere, Drops, ArithKinds, c
<1> QED BY <1>5, <1>6, <1>7, <1>8, <1>9 DEF MachineNext, OtherStep

\* The code at pc has been folded.
Folds(c, d) ==
  /\ c.op \in ArithKinds \cup {"Branch"} /\ {c.op1.kind, c.op2.kind} = {"Constant"}
  /\ c.op \in ArithKinds =>
       d = Assign(Var(c.target), Const(ConstArith(c.op, c.op1.value, c.op2.value)))
  /\ c.op = "Branch" =>
       /\ ConstRelation(c.relop, c.op1.value, c.op2.value)
       /\ d.op = "Goto" /\ JumpAgrees(c.label, d.label)

FoldsHere == InStep /\ pc \in DOMAIN code /\ ~Silent(remains[pc]) /\ Folds(code[pc], remains[pc])

LEMMA StepFolded ==
  ASSUME FoldsHere, MachineNext, UNCHANGED remains
  PROVE  After!MachineNext
<1> DEFINE c == code[pc]
           d == remains[pc]
<1>1. Here = c /\ After!Here = d /\ c \in TextCodes
  BY HereAgrees DEF FoldsHere
<1>2. Rest(remains, pc) = pc /\ Rest(remains, Rest(code, pc + 1)) = Rest(remains, pc + 1)
  BY PlacesAgree DEF FoldsHere
<1> HIDE DEF c, d
<1>3. \A ops : At(ops) => c.op \in ops
  BY <1>1 DEF At
<1>4. /\ c.op \in ArithKinds \cup {"Branch"}
      /\ c.op1.kind = "Constant" /\ c.op2.kind = "Constant"
      /\ Val(c.op1) = c.op1.value /\ Val(c.op2) = c.op2.value
  BY DEF FoldsHere, Folds, Val, Value, c
<1>5. CASE RunArith
  <2>1. c.op \in ArithKinds /\ d = Assign(Var(c.target), Const(ConstArith(c.op, c.op1.value, c.op2.value)))
    BY <1>3, <1>5 DEF RunArith, FoldsHere, Folds, c, d
  <2>2. status = "running" /\ (c.op = "Div" => c.op2.value # 0)
    BY <1>1, <1>4, <1>5 DEF RunArith, At, Executable
  <2> DEFINE n == Arith(c.op, c.op1.value, c.op2.value)
  <2>3. ConstArith(c.op, c.op1.value, c.op2.value) = n
    BY <2>2 DEF ConstArith
  <2> HIDE DEF n
  <2>4. d = [op |-> "Assign", left |-> [kind |-> "Variable", var |-> c.target],
                               right |-> [kind |-> "Constant", value |-> n]]
    BY <2>1, <2>3 DEF Assign, Var, Const
  <2>5. /\ d.op = "Assign" /\ d.left.kind = "Variable" /\ d.left.var = c.target
        /\ d.right.kind = "Constant" /\ After!Val(d.right) = n
    BY <2>4 DEF After!Val, After!Value
  <2>6. After!At({"Assign"})
    <3>1. After!Reads = {d.right}
      BY <1>1, <2>5, AfterOperators DEF After!Reads, ArithKinds
    <3>2. After!HasValue(d.right) /\ After!CanTake(d.left)
      BY <2>5 DEF After!HasValue, After!CanTake
    <3> QED BY <1>1, <2>2, <2>5, <3>1, <3>2 DEF After!At, After!Executable
  <2>7. KeptData(data)' = After!Keep(KeptData(data), d.left.var, n)
    BY <1>1, <1>4, <1>5, <2>5, DataAfter, KeepAgrees DEF RunArith, FoldsHere, n
  <2>8. After!Advance
    BY <1>2, <1>5, AfterOperators DEF RunArith, Advance, After!Advance
  <2>9. UNCHANGED <<inp, AfterBlocks, mem, AfterFrames, args, out>>
    BY <1>5, BlocksStay, FramesStay DEF RunArith
  <2>10. After!RunAssign
    BY <1>1, <2>5, <2>6, <2>7, <2>8, <2>9 DEF After!RunAssign, AfterBlocks, AfterFrames
  <2> QED BY <2>10 DEF After!MachineNext, After!OtherStep
<1>6. CASE RunBranch
  <2>1. c.op = "Branch"
    BY <1>3, <1>6 DEF RunBranch
  <2>2. /\ ConstRelation(c.relop, c.op1.value, c.op2.value)
        /\ d.op = "Goto" /\ JumpAgrees(c.label, d.label)
    BY <2>1 DEF FoldsHere, Folds, c, d
  <2>3. Relation(c.relop, Val(c.op1), Val(c.op2))
    BY <1>4, <2>2 DEF Relation, ConstRelation
  <2>4. pc' = TargetOf(c.label, code) /\ status = "running"
    BY <1>1, <1>6, <2>3 DEF RunBranch, At
  <2>5. Rest(remains, pc)' = After!TargetOf(d.label, remains) /\ After!Places(d.label, remains) # {}
    <3>1. Rest(remains', pc') = TargetOf(d.label, remains) /\ Places(d.label, remains) # {}
      BY <2>2, <2>4 DEF JumpAgrees
    <3> QED BY <3>1, AfterOperators
  <2>6. After!At({"Goto"})
    <3>1. After!Reads = {}
      BY <1>1, <2>2, AfterOperators DEF After!Reads, ArithKinds
    <3> QED BY <1>1, <2>2, <2>4, <2>5, <3>1 DEF After!At, After!Executable
  <2>7. KeptData(data)' = KeptData(data)
    BY <1>6, DataAfter DEF RunBranch
  <2>8. UNCHANGED <<status, remains, inp, AfterBlocks, mem, AfterFrames, args, out, result>>
    BY <1>6, BlocksStay, FramesStay DEF RunBranch
  <2>9. After!RunGoto
    BY <1>1, <2>5, <2>6, <2>7, <2>8 DEF After!RunGoto, AfterBlocks, AfterFrames
  <2> QED BY <2>9 DEF After!MachineNext, After!OtherStep
<1>7. /\ ~RunAssign /\ ~RunGoto /\ ~RunRead /\ ~RunWrite /\ ~RunArg /\ ~RunCall /\ ~RunParam /\ ~RunReturn
      /\ ~Halt /\ \A base \in Bases : ~RunDec(base)
  BY <1>3, <1>4 DEF RunAssign, RunGoto, RunRead, RunWrite, RunArg, RunCall, RunParam, RunReturn, Halt,
                    RunDec, ArithKinds
<1> QED BY <1>5, <1>6, <1>7 DEF MachineNext, OtherStep

\* The words that have a value stay in blocks that the pass has left.
LEMMA WordsStayKept ==
  ASSUME InStep, StoresAreKept, MachineNext, UNCHANGED remains
  PROVE  DOMAIN mem' \subseteq Kept'
<1>1. DOMAIN mem \subseteq Kept
  BY DEF InStep
<1>2. UNCHANGED blocks => Kept' = Kept
  BY DEF Kept, DecVars
<1>3. UNCHANGED <<blocks, mem>> => DOMAIN mem' \subseteq Kept'
  BY <1>1, <1>2
<1>4. CASE RunAssign
  <2>1. CASE Here.left.kind = "Deref"
    <3>1. Here.op = "Assign" /\ Here.left.var \in DOMAIN data /\ data[Here.left.var] \in DOMAIN blocks
      BY <1>4, <2>1 DEF RunAssign, At, Executable, CanTake
    <3>2. data[Here.left.var] \in Kept
      BY <2>1, <3>1 DEF StoresAreKept
    <3>3. DOMAIN mem' = DOMAIN mem \cup {data[Here.left.var]}
      BY <1>4, <2>1 DEF RunAssign, With
    <3> QED BY <1>1, <1>2, <1>4, <3>2, <3>3 DEF RunAssign
  <2>2. CASE Here.left.kind # "Deref"
    BY <1>3, <1>4, <2>2 DEF RunAssign
  <2> QED BY <2>1, <2>2
<1>5. ASSUME NEW base \in Bases, RunDec(base) PROVE DOMAIN mem' \subseteq Kept'
  <2> DEFINE new == base .. base + Here.size - 1
  <2>1. /\ blocks' = [a \in DOMAIN blocks \cup new |->
                        IF a \in new THEN [var |-> Here.var, depth |-> Len(frames)] ELSE blocks[a]]
        /\ \A a \in base - 1 .. base + Here.size : a \notin DOMAIN blocks
        /\ mem' = mem /\ Here.op = "Dec"
    BY <1>5 DEF RunDec, Free, At
  <2>2. base \in Int /\ Here.size \in Nat
    <3>1. pc \in DOMAIN code
      BY <2>1 DEF Here
    <3>2. Here = code[pc] /\ code[pc] \in TextCodes
      BY <3>1, HereAgrees
    <3> QED BY <2>1, <3>2, BasesAssumption, CodeFields DEF ArithKinds
  <2>3. \A a \in new : a \notin DOMAIN blocks
    BY <2>1, <2>2
  <2> HIDE DEF new
  <2>4. DOMAIN blocks' = DOMAIN blocks \cup new /\ \A a \in DOMAIN blocks : blocks'[a] = blocks[a]
    BY <2>1, <2>3
  <2>5. Kept \subseteq Kept'
    <3>1. Kept' = {a \in DOMAIN blocks' : blocks'[a].var \in DecVars}
      BY DEF Kept, DecVars
    <3> QED BY <2>4, <3>1 DEF Kept
  <2> QED BY <1>1, <2>1, <2>5
<1>6. CASE RunReturn
  BY <1>6, ReturnBlocks DEF RunReturn, Mine
<1>7. RunArith \/ RunGoto \/ RunBranch \/ RunRead \/ RunWrite \/ RunArg \/ RunCall \/ RunParam \/ Halt
      => UNCHANGED <<blocks, mem>>
  BY DEF RunArith, RunGoto, RunBranch, RunRead, RunWrite, RunArg, RunCall, RunParam, Halt
<1> QED BY <1>3, <1>4, <1>5, <1>6, <1>7 DEF MachineNext, OtherStep

\* The next code is one that is executed, and in the program.
LEMMA PlaceStays ==
  ASSUME InStep, MachineNext
  PROVE  pc' \in 1 .. Len(code) + 1 /\ (pc' \in DOMAIN code => ~Silent(code[pc']))
<1>1. /\ DOMAIN code = 1 .. Len(code) /\ Len(code) \in Nat
      /\ \A i \in 1 .. Len(code) + 1 :
           /\ Rest(code, i) \in i .. Len(code) + 1
           /\ Rest(code, i) \in DOMAIN code => ~Silent(code[Rest(code, i)])
  BY PlacesAgree
<1> DEFINE Good(p) == p \in 1 .. Len(code) + 1 /\ (p \in DOMAIN code => ~Silent(code[p]))
<1>2. \A i \in 1 .. Len(code) + 1 : Good(Rest(code, i))
  BY <1>1
<1>3. Here.op # "End" => pc \in DOMAIN code
  BY DEF Here
<1>4. pc' = Rest(code, pc + 1) /\ Here.op # "End" => Good(pc')
  BY <1>1, <1>2, <1>3
<1>5. ASSUME NEW l, Places(l, code) # {} PROVE Good(TargetOf(l, code))
  <2> DEFINE e == CHOOSE i \in Places(l, code) : TRUE
  <2>1. e \in Places(l, code)
    BY <1>5
  <2>2. e \in 1 .. Len(code) + 1
    BY <1>1, <2>1 DEF Places
  <2> HIDE DEF e
  <2>3. Good(Rest(code, e))
    BY <1>2, <2>2
  <2> QED BY <2>3 DEF TargetOf, e
<1>6. ASSUME NEW f, Entries(f, code) # {} PROVE Good(BodyOf(f, code))
  <2> DEFINE e == CHOOSE i \in Entries(f, code) : TRUE
  <2>1. e \in Entries(f, code)
    BY <1>6
  <2>2. 1 + e \in 1 .. Len(code) + 1
    BY <1>1, <2>1 DEF Entries
  <2> HIDE DEF e
  <2>3. Good(Rest(code, 1 + e))
    BY <1>2, <2>2
  <2> QED BY <2>3 DEF BodyOf, e
<1> HIDE DEF Good
<1>7. \A ops : At(ops) => Here.op # "End" /\ Here.op \in ops
  BY DEF At, Executable
<1>8. ASSUME Advance, NEW ops, At(ops) PROVE Good(pc')
  BY <1>4, <1>7, <1>8 DEF Advance
<1>9. RunAssign \/ RunArith \/ RunRead \/ RunWrite \/ RunArg \/ RunParam \/ (\E base \in Bases : RunDec(base))
      => Good(pc')
  BY <1>8 DEF RunAssign, RunArith, RunRead, RunWrite, RunArg, RunParam, RunDec
<1>10. CASE RunGoto \/ RunBranch
  <2>1. Here.op \in {"Goto", "Branch"} /\ Places(Here.label, code) # {} /\ Here.op # "End"
    BY <1>10 DEF RunGoto, RunBranch, At, Executable
  <2>2. pc' = TargetOf(Here.label, code) \/ pc' = Rest(code, pc + 1)
    BY <1>10 DEF RunGoto, RunBranch
  <2>3. Good(TargetOf(Here.label, code))
    BY <1>5, <2>1
  <2>4. Good(pc')
    BY <1>4, <2>1, <2>2, <2>3
  <2> QED BY <2>4 DEF Good
<1>11. CASE RunCall
  <2>1. Entries(Here.func, code) # {} /\ pc' = BodyOf(Here.func, code)
    BY <1>11 DEF RunCall, At, Executable
  <2>2. Good(BodyOf(Here.func, code))
    BY <1>6, <2>1
  <2> QED BY <2>1, <2>2 DEF Good
<1>12. CASE RunReturn
  <2>1. pc' = Rest(code, Last(frames).pc + 1) /\ frames # << >>
    BY <1>12 DEF RunReturn
  <2>2. Last(frames).pc \in DOMAIN code
    BY <2>1, LastFrame
  <2> QED BY <1>1, <1>2, <2>1, <2>2
<1>13. CASE Halt
  BY <1>13 DEF Halt, Good, InStep
<1> QED BY <1>9, <1>10, <1>11, <1>12, <1>13 DEF MachineNext, OtherStep, Good

\* The machines stay in step.
LEMMA InStepStays ==
  ASSUME InStep, StoresAreKept, MachineNext, UNCHANGED remains
  PROVE  InStep'
<1>1. code' = code
  BY DEF MachineNext, OtherStep, RunAssign, RunArith, RunGoto, RunBranch, RunRead, RunWrite, RunArg, RunCall,
         RunParam, RunReturn, Halt, RunDec, Advance
<1>2. Shrinks(code, remains)'
  BY <1>1 DEF InStep, Shrinks
<1>3. pc' \in 1 .. Len(code') + 1 /\ (pc' \in DOMAIN code' => ~Silent(code'[pc']))
  BY <1>1, PlaceStays
<1>4. DOMAIN mem' \subseteq Kept'
  BY WordsStayKept
<1> DEFINE Fine == /\ frames' \in Seq({frames'[i] : i \in DOMAIN frames'})
                   /\ \A i \in DOMAIN frames' :
                        /\ frames'[i] = [data |-> frames'[i].data, pc |-> frames'[i].pc]
                        /\ frames'[i].pc \in DOMAIN code /\ code[frames'[i].pc].op = "Call"
<1>5. Fine
  <2>1. CASE RunCall
    <3> DEFINE R == {frames[i] : i \in DOMAIN frames}
               new == [data |-> data, pc |-> pc]
    <3>1. frames \in Seq(R) /\ frames' = Append(frames, new)
      BY <2>1 DEF RunCall, InStep
    <3>2. pc \in DOMAIN code /\ code[pc].op = "Call"
      BY <2>1 DEF RunCall, At, Executable, Here
    <3>3. new = [data |-> new.data, pc |-> new.pc] /\ new.pc = pc
      OBVIOUS
    <3> HIDE DEF new
    <3>4. /\ DOMAIN frames = 1 .. Len(frames) /\ Len(frames) \in Nat
          /\ frames' \in Seq(R \cup {new}) /\ DOMAIN frames' = 1 .. Len(frames) + 1
          /\ \A i \in 1 .. Len(frames) + 1 :
               frames'[i] = IF i <= Len(frames) THEN frames[i] ELSE new
      <4> HIDE DEF R
      <4> QED BY <3>1
    <3>5. frames' \in Seq({frames'[i] : i \in DOMAIN frames'})
      <4> HIDE DEF R
      <4> QED BY <3>4, OwnElements
    <3>6. ASSUME NEW i \in DOMAIN frames'
          PROVE  /\ frames'[i] = [data |-> frames'[i].data, pc |-> frames'[i].pc]
                 /\ frames'[i].pc \in DOMAIN code /\ code[frames'[i].pc].op = "Call"
      <4>1. CASE i \in DOMAIN frames
        BY <3>4, <4>1 DEF InStep
      <4>2. CASE i \notin DOMAIN frames
        BY <3>2, <3>3, <3>4, <4>2
      <4> QED BY <4>1, <4>2
    <3> QED BY <3>5, <3>6
  <2>2. CASE RunReturn
    <3>1. /\ \A i \in DOMAIN frames' : i \in DOMAIN frames /\ frames'[i] = frames[i]
          /\ frames' \in Seq({frames'[i] : i \in DOMAIN frames'})
      BY <2>2, FrontFrames DEF RunReturn
    <3> QED BY <3>1 DEF InStep
  <2>3. UNCHANGED frames => Fine
    BY DEF InStep
  <2>4. ~RunCall /\ ~RunReturn => UNCHANGED frames
    BY DEF MachineNext, OtherStep, RunAssign, RunArith, RunGoto, RunBranch, RunRead, RunWrite, RunArg,
           RunParam, Halt, RunDec
  <2> QED BY <2>1, <2>2, <2>3, <2>4
<1> QED BY <1>1, <1>2, <1>3, <1>4, <1>5 DEF InStep

-----------------------------------------------------------------------------
(* What each pass does to each code. *)

\* A jump to the label l leads where it did.
JumpSame(o, p, l) ==
  /\ Places(p.name[l], Marked(p)) # {}
  /\ Rest(Marked(p), TargetOf(o.name[l], Marked(o))) = TargetOf(p.name[l], Marked(p))

\* From i to j nothing is executed in the program that the pass has left.
QuietTo(o, p, i, j) ==
  \A k \in LiveCodes(o) : i <= k /\ k <= j => o.code[k].op = "Label" \/ k \notin LiveCodes(p)

\* Where a jump to l goes on in the program that the pass has left.
LEMMA OldTarget ==
  ASSUME NEW o, WellFormed(o), NEW p, WellFormed(p), ShrinkingPass(o, p),
         NEW l, NEW j \in LiveLabels(o), o.name[o.code[j].label] = o.name[l],
         NEW i \in 1 .. j, QuietTo(o, p, i, j)
  PROVE  Rest(Marked(p), TargetOf(o.name[l], Marked(o))) = Rest(Marked(p), i)
<1> DEFINE c == Marked(o)
           d == Marked(p)
<1>1. IsMarked(o, c) /\ IsMarked(p, d) /\ Shrinks(c, d)
  BY MarkedIs, PassShrinks
<1> HIDE DEF c, d
<1>2. TargetOf(o.name[l], c) = Rest(c, j)
  BY <1>1, MarkedTarget
<1>3. /\ c \in Seq(Codes) /\ d \in Seq(Codes) /\ Len(d) = Len(c) /\ DOMAIN d = DOMAIN c
      /\ \A k \in DOMAIN c : Silent(c[k]) => Silent(d[k])
  BY <1>1 DEF Shrinks
<1>4. DOMAIN c = 1 .. Len(c) /\ Len(c) \in Nat
  BY <1>3
<1>5. j \in 1 .. Len(c) /\ i \in 1 .. Len(c)
  <2>1. j \in DOMAIN c
    BY <1>1 DEF LiveLabels, IsMarked
  <2> QED BY <1>4, <2>1
<1>6. Rest(d, Rest(c, j)) = Rest(d, j)
  BY <1>3, <1>4, <1>5, RestOfRest
<1>7. \A k \in i .. j - 1 : Silent(d[k])
  <2> SUFFICES ASSUME NEW k \in i .. j - 1 PROVE Silent(d[k])
    OBVIOUS
  <2>1. k \in DOMAIN c /\ i <= k /\ k <= j
    BY <1>4, <1>5
  <2>2. CASE k \in LiveCodes(o) /\ o.code[k].op # "Label"
    <3>1. k \notin LiveCodes(p)
      BY <2>1, <2>2 DEF QuietTo
    <3> QED BY <1>1, <1>3, <2>1, <3>1 DEF IsMarked
  <2>3. CASE ~(k \in LiveCodes(o) /\ o.code[k].op # "Label")
    <3>1. Silent(c[k])
      BY <1>1, <2>1, <2>3 DEF IsMarked
    <3> QED BY <1>3, <2>1, <3>1
  <2> QED BY <2>2, <2>3
<1>8. Rest(d, i) = Rest(d, j)
  <2>1. i \in 1 .. Len(d) + 1 /\ j \in i .. Len(d) + 1
    BY <1>3, <1>4, <1>5
  <2> QED BY <1>3, <1>7, <2>1, RestOverSilence
<1>9. Rest(d, TargetOf(o.name[l], c)) = Rest(d, i)
  BY <1>2, <1>6, <1>8
<1> QED BY <1>9 DEF c, d

LEMMA JumpKept ==
  ASSUME NEW o, WellFormed(o), NEW p, WellFormed(p), ShrinkingPass(o, p),
         NEW l, NEW j \in LiveLabels(o), o.name[o.code[j].label] = o.name[l],
         NEW j2 \in LiveLabels(p), j2 <= j,
         \A k \in LiveCodes(o) : j2 <= k /\ k <= j => o.code[k].op = "Label",
         p.name[p.code[j2].label] = p.name[l]
  PROVE  JumpSame(o, p, l)
<1> DEFINE c == Marked(o)
           d == Marked(p)
<1>1. IsMarked(p, d)
  BY MarkedIs
<1>2. j2 \in 1 .. j
  <2>1. \A x \in {o, p} : \A k \in LiveLabels(x) : k \in Nat \ {0}
    BY DEF LiveLabels, LiveCodes, WellFormed, OptimizerType
  <2> QED BY <2>1
<1>3. Rest(d, TargetOf(o.name[l], c)) = Rest(d, j2)
  <2>1. QuietTo(o, p, j2, j)
    BY DEF QuietTo
  <2> QED BY <1>2, <2>1, OldTarget
<1> HIDE DEF c, d
<1>4. Places(p.name[l], d) = {j2} /\ TargetOf(p.name[l], d) = Rest(d, j2)
  BY <1>1, MarkedTarget
<1>5. Places(p.name[l], d) # {} /\ Rest(d, TargetOf(o.name[l], c)) = TargetOf(p.name[l], d)
  BY <1>3, <1>4
<1> QED BY <1>5 DEF JumpSame, c, d

\* The labels keep their places and their names.
LabelsStay(o, p) ==
  /\ p.name = o.name /\ LiveLabels(p) = LiveLabels(o)
  /\ \A j \in LiveLabels(o) : p.code[j].label = o.code[j].label

LEMMA JumpsKept ==
  ASSUME NEW o, WellFormed(o), NEW p, WellFormed(p), ShrinkingPass(o, p), LabelsStay(o, p),
         NEW i \in LiveCodes(o), o.code[i].op \in {"Goto", "Branch"}
  PROVE  JumpSame(o, p, o.code[i].label)
<1>1. PICK j \in LiveCodes(o) :
        o.code[j].op = "Label" /\ o.name[o.code[j].label] = o.name[o.code[i].label]
  BY DEF WellFormed, JumpsHaveLabels
<1>2. j \in LiveLabels(o) /\ j \in Nat
  BY <1>1 DEF LiveLabels, LiveCodes, WellFormed, OptimizerType
<1>3. \A k \in LiveCodes(o) : j <= k /\ k <= j => o.code[k].op = "Label"
  <2>1. \A k \in LiveCodes(o) : k \in Nat
    BY DEF LiveCodes, WellFormed, OptimizerType
  <2>2. ASSUME NEW k \in LiveCodes(o), j <= k, k <= j PROVE k = j
    <3>1. k \in Nat /\ j \in Nat
      BY <1>2, <2>1
    <3> QED BY <2>2, <3>1
  <2> QED BY <1>1, <2>2
<1>4. j \in LiveLabels(p) /\ j <= j /\ p.name[p.code[j].label] = p.name[o.code[i].label]
  BY <1>1, <1>2 DEF LabelsStay
<1> DEFINE l == o.code[i].label
<1>5. o.name[o.code[j].label] = o.name[l] /\ p.name[p.code[j].label] = p.name[l]
  BY <1>1, <1>4
<1> HIDE DEF l
<1>6. JumpSame(o, p, l)
  BY <1>2, <1>3, <1>4, <1>5, JumpKept
<1> QED BY <1>6 DEF l

\* The code k is as it was, and leads where it led.
Alike(o, p, k) ==
  /\ k \in LiveCodes(p) /\ p.code[k] = o.code[k]
  /\ o.code[k].op \in {"Goto", "Branch"} => JumpSame(o, p, o.code[k].label)

UsedIn(o, v) == \E k \in LiveCodes(o) : FieldsUsing(o.code[k], v) # {}

\* The code k is dropped, and is not missed.
Dropped(o, p, k) ==
  /\ k \notin LiveCodes(p)
  /\ LET c == o.code[k]
     IN \/ c.op = "Assign" /\ c.left.kind # "Deref" /\ ~UsedIn(p, c.left.var)
        \/ c.op \in ArithKinds /\ ~UsedIn(p, c.target)
        \/ /\ c.op = "Dec" /\ ~UsedIn(p, c.var)
           /\ \A j \in LiveCodes(p) : p.code[j].op = "Dec" => p.code[j].var # c.var
        \/ /\ c.op = "Goto"
           /\ Rest(Marked(p), TargetOf(o.name[c.label], Marked(o))) = Rest(Marked(p), k)

\* The code k is folded.
IsFolded(o, p, k) ==
  /\ k \in LiveCodes(p) /\ p.code[k] = Folded(o.code[k]) /\ p.code[k] # o.code[k]
  /\ o.code[k].op = "Branch" => JumpSame(o, p, o.code[k].label)

\* A pass of which each code is left, dropped or folded.
PassIsLocal(o, p) ==
  /\ ShrinkingPass(o, p)
  /\ \A k \in LiveCodes(o) :
       o.code[k].op = "Label" \/ Alike(o, p, k) \/ Dropped(o, p, k) \/ IsFolded(o, p, k)

\* optimizeDeadAssign drops what computes into a variable that is not used.
LEMMA DeadAssignIsLocal ==
  ASSUME NEW o, WellFormed(o), NEW p, p = optimizeDeadAssign(o)
  PROVE  PassIsLocal(o, p)
<1> DEFINE q == Counted(o)
           D == {i \in DOMAIN o.code : \E v \in OnlyComputes(o.code[i]) : q.usedTime[v] = 0}
<1>1. q.code = o.code /\ q.ignore = o.ignore /\ q.name = o.name /\ q.vars = o.vars
  BY DEF Counted, WellFormed, OptimizerType
<1>2. p.code = o.code /\ p.name = o.name /\ p.ignore = o.ignore \cup D
  BY DEF optimizeDeadAssign, WithoutDead, Counted, WellFormed, OptimizerType
<1>3. \A v \in o.vars : q.usedTime[v] = 0 =>
        \A i \in LiveCodes(o) : FieldsUsing(o.code[i], v) = {}
  BY CountedHolds
<1>4. \A i \in DOMAIN o.code : o.code[i] \in TextCodes /\ OnlyComputes(o.code[i]) \subseteq o.vars
  BY DEF WellFormed, VariablesAreCounted, OptimizerType
<1> HIDE DEF q
<1>5. LiveCodes(p) = LiveCodes(o) \ D /\ LiveCodes(o) \subseteq DOMAIN o.code
  BY <1>2 DEF LiveCodes
<1>6. \A i \in D : \E v \in o.vars :
        OnlyComputes(o.code[i]) = {v} /\ ~UsedIn(p, v)
  <2> SUFFICES ASSUME NEW i \in D
               PROVE \E v \in o.vars : OnlyComputes(o.code[i]) = {v} /\ ~UsedIn(p, v)
    OBVIOUS
  <2>1. PICK v \in OnlyComputes(o.code[i]) : q.usedTime[v] = 0
    OBVIOUS
  <2>2. v \in o.vars
    BY <1>4
  <2>3. OnlyComputes(o.code[i]) = {v}
    BY DEF OnlyComputes
  <2>4. ~UsedIn(p, v)
    BY <1>2, <1>3, <1>5, <2>1, <2>2 DEF UsedIn
  <2> QED BY <2>2, <2>3, <2>4
<1>7. \A i \in D : o.code[i].op \in ArithKinds \cup {"Assign", "Dec"}
  BY <1>6 DEF OnlyComputes
<1>8. WellFormed(p)
  BY DeadAssignKeeps
<1>9. ShrinkingPass(o, p)
  BY <1>2, <1>5, <1>7 DEF ShrinkingPass, ArithKinds
<1>10. LabelsStay(o, p)
  BY <1>2, <1>5, <1>7 DEF LabelsStay, LiveLabels, ArithKinds
<1>11. ASSUME NEW k \in LiveCodes(o), k \notin D PROVE Alike(o, p, k)
  <2>1. k \in LiveCodes(p) /\ p.code[k] = o.code[k]
    BY <1>2, <1>5, <1>11
  <2>2. o.code[k].op \in {"Goto", "Branch"} => JumpSame(o, p, o.code[k].label)
    BY <1>8, <1>9, <1>10, JumpsKept
  <2> QED BY <2>1, <2>2 DEF Alike
<1>12. ASSUME NEW k \in LiveCodes(o), k \in D PROVE Dropped(o, p, k)
  <2>1. k \notin LiveCodes(p)
    BY <1>5, <1>12
  <2>2. PICK v \in o.vars : OnlyComputes(o.code[k]) = {v} /\ ~UsedIn(p, v)
    BY <1>6, <1>12
  <2>3. CASE o.code[k].op = "Assign"
    <3>1. o.code[k].left \in Targets
      BY <1>4, <1>5, <2>3, CodeFields DEF ArithKinds
    <3>2. o.code[k].left.var = v
      BY <2>2, <2>3 DEF OnlyComputes, ArithKinds
    <3>3. o.code[k].left.kind # "Deref"
      <4> SUFFICES ASSUME o.code[k].left.kind = "Deref" PROVE FALSE
        OBVIOUS
      <4>1. "left" \in FieldsUsing(o.code[k], v)
        BY <2>3, <3>2 DEF FieldsUsing, UsingFields, ArithKinds
      <4>2. PICK w \in OnlyComputes(o.code[k]) : q.usedTime[w] = 0
        BY <1>12
      <4>3. w = v
        BY <2>2
      <4> QED BY <1>3, <4>1, <4>2, <4>3
    <3> QED BY <2>1, <2>2, <2>3, <3>2, <3>3 DEF Dropped
  <2>4. CASE o.code[k].op \in ArithKinds
    BY <2>1, <2>2, <2>4 DEF Dropped, OnlyComputes, ArithKinds
  <2>5. CASE o.code[k].op = "Dec"
    <3>1. o.code[k].var = v
      BY <2>2, <2>5 DEF OnlyComputes, ArithKinds
    <3>2. PICK w \in OnlyComputes(o.code[k]) : q.usedTime[w] = 0
      BY <1>12
    <3>3. q.usedTime[v] = 0
      BY <2>2, <3>2
    <3>4. ASSUME NEW j \in LiveCodes(p), p.code[j].op = "Dec", p.code[j].var = v PROVE FALSE
      <4>1. v \in OnlyComputes(o.code[j])
        BY <1>2, <3>4 DEF OnlyComputes, ArithKinds
      <4>2. j \in D
        BY <1>5, <3>3, <4>1
      <4> QED BY <1>5, <4>2
    <3> QED BY <2>1, <2>2, <2>5, <3>1, <3>4 DEF Dropped
  <2> QED BY <1>7, <1>12, <2>3, <2>4, <2>5
<1> QED BY <1>9, <1>11, <1>12 DEF PassIsLocal

\* optimizeDupGoto drops the jumps to where the program goes on anyway.
LEMMA DupGotoIsLocal ==
  ASSUME NEW o, WellFormed(o), NEW p, p = optimizeDupGoto(o)
  PROVE  PassIsLocal(o, p)
<1> DEFINE D == {i \in LiveCodes(o) : JumpsNowhere(o, i)}
<1>1. p.code = o.code /\ p.name = o.name /\ p.ignore = o.ignore \cup D
  BY DEF optimizeDupGoto, WellFormed, OptimizerType
<1>2. LiveCodes(p) = LiveCodes(o) \ D /\ LiveCodes(o) \subseteq DOMAIN o.code
  BY <1>1 DEF LiveCodes
<1>3. \A i \in D : o.code[i].op = "Goto"
  BY DEF JumpsNowhere
<1>4. WellFormed(p)
  BY DupGotoKeeps
<1>5. ShrinkingPass(o, p)
  BY <1>1, <1>2, <1>3 DEF ShrinkingPass
<1>6. LabelsStay(o, p)
  BY <1>1, <1>2, <1>3 DEF LabelsStay, LiveLabels
<1>7. ASSUME NEW k \in LiveCodes(o), k \notin D PROVE Alike(o, p, k)
  <2>1. k \in LiveCodes(p) /\ p.code[k] = o.code[k]
    BY <1>1, <1>2, <1>7
  <2>2. o.code[k].op \in {"Goto", "Branch"} => JumpSame(o, p, o.code[k].label)
    BY <1>4, <1>5, <1>6, JumpsKept
  <2> QED BY <2>1, <2>2 DEF Alike
<1>8. ASSUME NEW k \in LiveCodes(o), k \in D PROVE Dropped(o, p, k)
  <2>1. PICK j \in LiveCodes(o) :
          /\ k < j
          /\ \A i \in LiveCodes(o) : k < i /\ i <= j => o.code[i].op = "Label"
          /\ o.name[o.code[j].label] = o.name[o.code[k].label]
    BY <1>8 DEF JumpsNowhere
  <2>2. \A i \in LiveCodes(o) : i \in Nat \ {0}
    BY DEF LiveCodes, WellFormed, OptimizerType
  <2>3. j \in LiveLabels(o) /\ k \in 1 .. j
    BY <2>1, <2>2 DEF LiveLabels
  <2>4. k \notin LiveCodes(p)
    BY <1>2, <1>8
  <2>5. QuietTo(o, p, k, j)
    BY <2>1, <2>2, <2>4 DEF QuietTo
  <2> DEFINE l == o.code[k].label
  <2>6. o.name[o.code[j].label] = o.name[l]
    BY <2>1
  <2> HIDE DEF l
  <2>7. Rest(Marked(p), TargetOf(o.name[l], Marked(o))) = Rest(Marked(p), k)
    BY <1>4, <1>5, <2>3, <2>5, <2>6, OldTarget
  <2> QED BY <1>3, <1>8, <2>4, <2>7 DEF Dropped, l
<1> QED BY <1>5, <1>7, <1>8 DEF PassIsLocal

\* optimizeConstExp folds codes, and leaves the others.
LEMMA ConstExpIsLocal ==
  ASSUME NEW o, WellFormed(o), NEW p, p = optimizeConstExp(o)
  PROVE  PassIsLocal(o, p)
<1>1. p.code = [i \in DOMAIN o.code |-> Folded(o.code[i])] /\ p.name = o.name /\ p.ignore = o.ignore
  BY DEF optimizeConstExp, WellFormed, OptimizerType
<1>2. /\ DOMAIN o.code = 1 .. Len(o.code) /\ Len(o.code) \in Nat
      /\ \A i \in DOMAIN o.code : o.code[i] \in TextCodes
  BY DEF WellFormed, OptimizerType
<1>3. DOMAIN p.code = DOMAIN o.code /\ Len(p.code) = Len(o.code) /\ LiveCodes(p) = LiveCodes(o)
  BY <1>1, <1>2 DEF LiveCodes
<1>4. \A i \in LiveCodes(o) : i \in DOMAIN o.code /\ p.code[i] = Folded(o.code[i])
  BY <1>1 DEF LiveCodes
<1>5. WellFormed(p)
  BY ConstExpKeeps
<1>6. \A c : c.op \in {"Func", "Call", "Dec", "Label"} => Folded(c) = c
  BY DEF Folded, ArithKinds
<1>7. \A c \in TextCodes : Folded(c).op \in {"Func", "Dec"} => Folded(c) = c
  BY DEF Folded, ArithKinds, Goto, Assign
<1>8. ShrinkingPass(o, p)
  <2>1. \A k \in LiveCodes(p) : p.code[k].op = "Label" <=> o.code[k].op = "Label"
    BY <1>2, <1>3, <1>4, FoldedCode
  <2>2. \A k \in LiveCodes(p) : \A v : FieldsUsing(p.code[k], v) \subseteq FieldsUsing(o.code[k], v)
    BY <1>2, <1>3, <1>4, FoldedCode
  <2>3. \A k \in LiveCodes(o) : o.code[k].op \in {"Func", "Call"} =>
          k \in LiveCodes(p) /\ p.code[k] = o.code[k]
    BY <1>3, <1>4, <1>6
  <2>4. \A k \in LiveCodes(p) : p.code[k].op \in {"Func", "Dec"} => o.code[k] = p.code[k]
    BY <1>2, <1>3, <1>4, <1>7
  <2>5. \A k \in LiveCodes(p) : \A v : FieldsUsing(p.code[k], v) # {} =>
          \E j \in LiveCodes(o) : FieldsUsing(o.code[j], v) # {}
    BY <1>3, <2>2
  <2> QED BY <1>3, <2>1, <2>3, <2>4, <2>5 DEF ShrinkingPass
<1>9. LabelsStay(o, p)
  <2>1. \A k \in LiveCodes(o) : p.code[k].op = "Label" <=> o.code[k].op = "Label"
    BY <1>2, <1>4, FoldedCode
  <2> QED BY <1>1, <1>3, <1>4, <1>6, <2>1 DEF LabelsStay, LiveLabels
<1>10. ASSUME NEW k \in LiveCodes(o) PROVE Alike(o, p, k) \/ IsFolded(o, p, k)
  <2>1. o.code[k].op \in {"Goto", "Branch"} => JumpSame(o, p, o.code[k].label)
    BY <1>5, <1>8, <1>9, JumpsKept
  <2> QED BY <1>3, <1>4, <2>1 DEF Alike, IsFolded
<1> QED BY <1>8, <1>10 DEF PassIsLocal

\* optimizeDupLabel drops labels, and takes the jumps to them along.
LEMMA DupLabelIsLocal ==
  ASSUME NEW o, WellFormed(o), NEW p, p = optimizeDupLabel(o), p.sound
  PROVE  PassIsLocal(o, p)
<1> DEFINE D == DupLabels(o)
<1>1. Relabelled(o, p) /\ WellFormed(p)
  BY DupLabelFacts, DupLabelKeeps
<1>2. p.code = o.code /\ p.ignore = o.ignore \cup D
  BY <1>1 DEF Relabelled, WellFormed, OptimizerType
<1>3. LiveCodes(p) = LiveCodes(o) \ D /\ LiveCodes(o) \subseteq DOMAIN o.code
  BY <1>2 DEF LiveCodes
<1>4. \A i \in D : o.code[i].op = "Label"
  BY DEF DupLabels, LiveLabels
<1>5. ShrinkingPass(o, p)
  <2>1. \A k \in LiveCodes(o) : \A v : FieldsUsing(o.code[k], v) # {} => k \notin D
    BY <1>4 DEF FieldsUsing, UsingFields, ArithKinds
  <2> QED BY <1>2, <1>3, <1>4, <2>1 DEF ShrinkingPass
<1>6. ASSUME NEW k \in LiveCodes(o), o.code[k].op \in {"Goto", "Branch"}
      PROVE  JumpSame(o, p, o.code[k].label)
  <2> DEFINE l == o.code[k].label
  <2>1. PICK j \in LiveCodes(o) : o.code[j].op = "Label" /\ o.name[o.code[j].label] = o.name[l]
    BY <1>6 DEF WellFormed, JumpsHaveLabels
  <2>2. j \in LiveLabels(o)
    BY <2>1 DEF LiveLabels
  <2>3. PICK j2 : Moves(o, p, l, j, j2)
    BY <1>1, <1>6, <2>1, <2>2 DEF Relabelled
  <2>4. j2 \in LiveLabels(p)
    BY <1>2, <1>3, <2>3 DEF Moves, LiveLabels
  <2>5. p.name[p.code[j2].label] = p.name[l]
    BY <1>2, <2>3 DEF Moves
  <2> HIDE DEF l
  <2>6. JumpSame(o, p, l)
    BY <1>1, <1>5, <2>1, <2>2, <2>3, <2>4, <2>5, JumpKept DEF Moves
  <2> QED BY <2>6 DEF l
<1>7. ASSUME NEW k \in LiveCodes(o), o.code[k].op # "Label" PROVE Alike(o, p, k)
  BY <1>2, <1>3, <1>4, <1>6, <1>7 DEF Alike
<1> QED BY <1>5, <1>7 DEF PassIsLocal

-----------------------------------------------------------------------------
(* Forwarding. *)

\* A code with another operand in one of its receivers has the same shape.
LEMMA PutShape ==
  ASSUME NEW c \in TextCodes, NEW k \in DOMAIN Receivers(c), NEW x \in Operands
  PROVE  /\ Receivers(c)[k] \in ReadFields(c)
         /\ SameShape(c, [c EXCEPT ![Receivers(c)[k]] = x])
<1>1. CASE c.op = "Assign"
  <2>1. Receivers(c) = <<"right">>
    BY <1>1 DEF Receivers, ArithKinds
  <2>2. k = 1 /\ Receivers(c)[k] = "right"
    BY <2>1
  <2>3. c = [op |-> "Assign", left |-> c.left, right |-> c.right]
    BY <1>1 DEF TextCodes, ArithKinds
  <2>4. \A h \in {"right"} : SameShape(c, [c EXCEPT ![h] = x])
    BY <1>1, <2>3 DEF SameShape, ArithKinds
  <2> QED BY <1>1, <2>2, <2>4 DEF ReadFields, UsingFields, ArithKinds
<1>2. CASE c.op \in ArithKinds
  <2>1. Receivers(c) = <<"op1", "op2">>
    BY <1>2 DEF Receivers, ArithKinds
  <2>2. Receivers(c)[k] \in {"op1", "op2"}
    BY <2>1
  <2>3. c = [op |-> c.op, target |-> c.target, op1 |-> c.op1, op2 |-> c.op2]
    BY <1>2 DEF TextCodes, ArithKinds
  <2>4. \A h \in {"op1", "op2"} : SameShape(c, [c EXCEPT ![h] = x])
    BY <1>2, <2>3 DEF SameShape, ArithKinds
  <2>5. UsingFields(c) = {"op1", "op2"}
    BY <1>2 DEF UsingFields, ArithKinds
  <2> QED BY <2>2, <2>4, <2>5 DEF ReadFields
<1>3. CASE c.op = "Branch"
  <2>1. Receivers(c) = <<"op1", "op2">>
    BY <1>3 DEF Receivers, ArithKinds
  <2>2. Receivers(c)[k] \in {"op1", "op2"}
    BY <2>1
  <2>3. c = [op |-> "Branch", relop |-> c.relop, op1 |-> c.op1, op2 |-> c.op2, label |-> c.label]
    BY <1>3 DEF TextCodes, ArithKinds
  <2>4. \A h \in {"op1", "op2"} : SameShape(c, [c EXCEPT ![h] = x])
    BY <1>3, <2>3 DEF SameShape, ArithKinds
  <2>5. UsingFields(c) = {"op1", "op2"}
    BY <1>3 DEF UsingFields, ArithKinds
  <2> QED BY <2>2, <2>4, <2>5 DEF ReadFields
<1>4. CASE c.op \in {"Return", "Arg", "Write"}
  <2> DEFINE h == IF c.op = "Return" THEN "ret" ELSE IF c.op = "Arg" THEN "arg" ELSE "write"
  <2>1. Receivers(c) = <<h>>
    BY <1>4 DEF Receivers, ArithKinds
  <2>2. UsingFields(c) = {h}
    BY <1>4 DEF UsingFields, ArithKinds
  <2>3. Receivers(c)[k] = h
    <3> HIDE DEF h
    <3> QED BY <2>1
  <2>4. [c EXCEPT ![h] = x].op = c.op
    BY <1>4 DEF TextCodes, ArithKinds
  <2>5. SameShape(c, [c EXCEPT ![h] = x])
    BY <1>4, <2>4 DEF SameShape, ArithKinds
  <2> QED BY <2>2, <2>3, <2>5 DEF ReadFields
<1>5. CASE c.op \notin ArithKinds \cup {"Assign", "Branch", "Return", "Arg", "Write"}
  <2>1. Receivers(c) = << >>
    BY <1>5 DEF Receivers, ArithKinds
  <2> QED BY <2>1
<1> QED BY <1>1, <1>2, <1>3, <1>4, <1>5

\* The value x of the assignment i is put into the operand h of u, which was v.
IsForward(o, p, i, v, u, x, h) ==
  /\ GoesInto(o, i, v, u) /\ u # i /\ x = o.code[i].right
  /\ h \in ReadFields(o.code[u]) /\ o.code[u][h] = Var(v)
  /\ IsPut(o.code[u], h, x, p.code[u]) /\ SameShape(o.code[u], p.code[u])
  /\ \A k \in DOMAIN o.code : k # u => p.code[k] = o.code[k]
  /\ DOMAIN p.code = DOMAIN o.code /\ Len(p.code) = Len(o.code)
  /\ LiveCodes(p) = LiveCodes(o) \ {i} /\ p.name = o.name
  /\ Justified(o, i, u, v, x)

\* Forwarding that is sound puts a value in, or does nothing.
LEMMA ForwardIs ==
  ASSUME NEW o, WellFormed(o), NEW i \in DOMAIN o.code, NEW p, p = Forward(o, i), p.sound, p # o
  PROVE  \E h : IsForward(o, p, i, o.code[i].left.var, o.usedCode[o.code[i].left.var],
                          o.code[i].right, h)
<1> DEFINE v == o.code[i].left.var
           u == o.usedCode[v]
           x == o.code[i].right
<1>1. OptimizerType(o)
  BY DEF WellFormed
<1>2. /\ DOMAIN o.code = 1 .. Len(o.code) /\ Len(o.code) \in Nat
      /\ \A k \in DOMAIN o.code : o.code[k] \in TextCodes
  BY <1>1 DEF OptimizerType
<1>3. CanForward(o, i) /\ \E k \in DOMAIN Receivers(o.code[u]) :
        /\ o.code[u][Receivers(o.code[u])[k]] = Var(v)
        /\ p = PutInto(o, i, u, Receivers(o.code[u])[k])
  BY ForwardChanges
<1>4. GoesInto(o, i, v, u)
  <2>1. i \in Nat \ {0} /\ i <= Len(o.code)
    BY <1>2
  <2> QED BY <1>3, <2>1, ForwardFacts
<1> HIDE DEF v, u, x
<1>5. PICK k \in DOMAIN Receivers(o.code[u]) :
        /\ o.code[u][Receivers(o.code[u])[k]] = Var(v)
        /\ p = PutInto(o, i, u, Receivers(o.code[u])[k])
  BY <1>3
<1> DEFINE h == Receivers(o.code[u])[k]
<1>6. u \in DOMAIN o.code /\ u \in LiveCodes(o) /\ o.code[u] \in TextCodes /\ x \in Operands
  BY <1>4 DEF GoesInto, LiveCodes, x
<1>7. /\ IsPut(o.code[u], h, x, [o.code[u] EXCEPT ![h] = x])
      /\ h \in ReadFields(o.code[u]) /\ SameShape(o.code[u], [o.code[u] EXCEPT ![h] = x])
  BY <1>6, PutField, PutShape
<1> HIDE DEF h
<1>8. /\ p.code = [o.code EXCEPT ![u] = [@ EXCEPT ![h] = x]]
      /\ p.ignore = o.ignore \cup {i} /\ p.name = o.name
      /\ p.sound = (o.sound /\ Justified(o, i, u, v, x))
  <2>1. p = PutInto(o, i, u, h)
    BY <1>5 DEF h
  <2> QED BY <1>1, <2>1 DEF PutInto, OptimizerType, v, x
<1>9. /\ p.code[u] = [o.code[u] EXCEPT ![h] = x]
      /\ \A j \in DOMAIN o.code : j # u => p.code[j] = o.code[j]
      /\ DOMAIN p.code = DOMAIN o.code
  BY <1>6, <1>8
<1>10. Len(p.code) = Len(o.code)
  BY <1>1, <1>2, <1>8, <1>9 DEF OptimizerType
<1>11. LiveCodes(p) = LiveCodes(o) \ {i}
  BY <1>8, <1>9 DEF LiveCodes
<1>12. Justified(o, i, u, v, x) /\ o.code[u][h] = Var(v)
  BY <1>5, <1>8 DEF h
<1>13. u # i
  <2> SUFFICES ASSUME u = i PROVE FALSE
    OBVIOUS
  <2>1. o.code[u].op = "Assign"
    BY <1>4 DEF GoesInto
  <2>2. h = "right"
    BY <1>7, <2>1 DEF ReadFields, UsingFields, ArithKinds
  <2>3. x.kind = "Variable"
    BY <1>12, <2>2 DEF x, Var
  <2>4. ~(i < i)
    BY <1>2
  <2> QED BY <1>12, <2>3, <2>4 DEF Justified, IsConstant, IsNewBlock, IsStraight
<1>14. IsForward(o, p, i, v, u, x, h)
  <2>1. x = o.code[i].right
    BY DEF x
  <2> QED BY <1>4, <1>7, <1>8, <1>9, <1>10, <1>11, <1>12, <1>13, <2>1 DEF IsForward
<1> QED BY <1>14 DEF v, u, x

\* What forwarding leaves.
LEMMA ForwardParts ==
  ASSUME NEW o, WellFormed(o), NEW p, WellFormed(p),
         NEW i, NEW v, NEW u, NEW x, NEW h, IsForward(o, p, i, v, u, x, h)
  PROVE  /\ ShrinkingPass(o, p) /\ Dropped(o, p, i)
         /\ \A k \in LiveCodes(o) : k \notin {i, u} /\ o.code[k].op # "Label" => Alike(o, p, k)
         /\ o.code[u].op = "Branch" => JumpSame(o, p, o.code[u].label)
<1>1. /\ i \in LiveCodes(o) /\ o.code[i] \in TextCodes /\ o.code[i].op = "Assign"
      /\ o.code[i].left = Var(v) /\ x = o.code[i].right /\ x \in Operands /\ x.kind # "Deref"
      /\ u \in LiveCodes(o) /\ o.code[u] \in TextCodes /\ u # i
      /\ \A k \in LiveCodes(o) : \A f, g \in FieldsUsing(o.code[k], v) : k = u /\ f = g
  BY DEF IsForward, GoesInto
<1>2. /\ \A k \in LiveCodes(o) : k # u => p.code[k] = o.code[k]
      /\ DOMAIN p.code = DOMAIN o.code /\ Len(p.code) = Len(o.code)
      /\ LiveCodes(p) = LiveCodes(o) \ {i} /\ p.name = o.name
  BY DEF IsForward, LiveCodes
<1>3. /\ h \in UsingFields(o.code[u]) /\ o.code[u][h] = Var(v)
      /\ p.code[u].op = o.code[u].op
      /\ UsingFields(p.code[u]) = UsingFields(o.code[u])
      /\ \A f \in UsingFields(o.code[u]) : p.code[u][f] = IF f = h THEN x ELSE o.code[u][f]
      /\ o.code[u].op \in {"Label", "Goto", "Branch"} => p.code[u].label = o.code[u].label
  BY DEF IsForward, IsPut
<1>4. o.code[u].op \notin {"Label", "Goto", "Func", "Call", "Dec"}
  BY <1>3 DEF UsingFields, ArithKinds
<1>5. h \in FieldsUsing(o.code[u], v)
  BY <1>3 DEF FieldsUsing, Var
<1>6. x.kind # "Constant" => "right" \in FieldsUsing(o.code[i], x.var)
  BY <1>1 DEF FieldsUsing, UsingFields, ArithKinds
<1>7. ~UsedIn(p, v)
  <2> SUFFICES ASSUME NEW k \in LiveCodes(p), NEW f \in FieldsUsing(p.code[k], v) PROVE FALSE
    BY DEF UsedIn
  <2>1. k \in LiveCodes(o) /\ k # i
    BY <1>2
  <2>2. CASE k # u
    BY <1>1, <1>2, <2>1, <2>2
  <2>3. CASE k = u
    <3>1. f \in UsingFields(o.code[u]) /\ p.code[u][f].kind # "Constant" /\ p.code[u][f].var = v
      BY <1>3, <2>3 DEF FieldsUsing
    <3>2. CASE f = h
      <4>1. x.kind # "Constant" /\ x.var = v
        BY <1>3, <3>1, <3>2
      <4>2. i = u
        BY <1>1, <1>6, <4>1
      <4> QED BY <1>1, <4>2
    <3>3. CASE f # h
      <4>1. f \in FieldsUsing(o.code[u], v)
        BY <1>3, <3>1, <3>3 DEF FieldsUsing
      <4> QED BY <1>1, <1>5, <3>3, <4>1
    <3> QED BY <3>2, <3>3
  <2> QED BY <2>2, <2>3
<1>8. ShrinkingPass(o, p)
  <2>1. ASSUME NEW k \in LiveCodes(p), NEW w, FieldsUsing(p.code[k], w) # {}
        PROVE  \E j \in LiveCodes(o) : FieldsUsing(o.code[j], w) # {}
    <3>1. CASE k # u
      BY <1>2, <2>1, <3>1
    <3>2. CASE k = u
      <4>1. PICK f \in FieldsUsing(p.code[u], w) : TRUE
        BY <2>1, <3>2
      <4>2. f \in UsingFields(o.code[u]) /\ p.code[u][f].kind # "Constant" /\ p.code[u][f].var = w
        BY <1>3, <4>1 DEF FieldsUsing
      <4>3. CASE f = h
        BY <1>1, <1>3, <1>6, <4>2, <4>3
      <4>4. CASE f # h
        <5>1. f \in FieldsUsing(o.code[u], w)
          BY <1>3, <4>2, <4>4 DEF FieldsUsing
        <5> QED BY <1>1, <5>1
      <4> QED BY <4>3, <4>4
    <3> QED BY <3>1, <3>2
  <2>2. \A k \in LiveCodes(p) : p.code[k].op = o.code[k].op
    BY <1>2, <1>3
  <2>3. \A k \in LiveCodes(o) : o.code[k].op \in {"Func", "Call", "Dec"} =>
          k \in LiveCodes(p) /\ p.code[k] = o.code[k]
    BY <1>1, <1>2, <1>4
  <2> QED BY <1>2, <2>1, <2>2, <2>3 DEF ShrinkingPass
<1>9. LabelsStay(o, p)
  BY <1>1, <1>2, <1>3, <1>4 DEF LabelsStay, LiveLabels
<1>10. \A k \in LiveCodes(o) : o.code[k].op \in {"Goto", "Branch"} => JumpSame(o, p, o.code[k].label)
  BY <1>8, <1>9, JumpsKept
<1>11. Dropped(o, p, i)
  <2>1. o.code[i].left.kind # "Deref" /\ o.code[i].left.var = v /\ i \notin LiveCodes(p)
    BY <1>1, <1>2 DEF Var
  <2> QED BY <1>1, <1>7, <2>1 DEF Dropped
<1> QED BY <1>1, <1>2, <1>8, <1>10, <1>11 DEF Alike

-----------------------------------------------------------------------------
(* Steps of the machines, for the codes that a pass leaves, drops or folds. *)

\* The programs before and after a pass.
TwoPrograms ==
  /\ WellFormed(before) /\ WellFormed(after) /\ ShrinkingPass(before, after)
  /\ code = Marked(before) /\ remains = Marked(after)

\* What is at pc.
LEMMA CodesHere ==
  ASSUME TwoPrograms, InStep, pc \in DOMAIN code
  PROVE  /\ pc \in LiveCodes(before) /\ before.code[pc] \in TextCodes
         /\ before.code[pc].op # "Label"
         /\ code[pc] = Named(before, before.code[pc])
         /\ before.code[pc].op \in {"Label", "Goto", "Branch"} =>
              before.code[pc].label \in DOMAIN before.name
         /\ pc \in LiveCodes(after) =>
              /\ after.code[pc] \in TextCodes /\ after.code[pc].op # "Label"
              /\ remains[pc] = Named(after, after.code[pc])
              /\ after.code[pc].op \in {"Label", "Goto", "Branch"} =>
                   after.code[pc].label \in DOMAIN after.name
         /\ Silent(remains[pc]) <=> pc \notin LiveCodes(after)
         /\ OptimizerType(before) /\ OptimizerType(after)
<1>1. IsMarked(before, code) /\ IsMarked(after, remains)
  BY MarkedIs DEF TwoPrograms
<1>2. ~Silent(code[pc]) /\ pc \in DOMAIN remains
  BY DEF InStep, Shrinks
<1>3. pc \in LiveCodes(before) /\ before.code[pc].op # "Label"
  BY <1>1, <1>2 DEF IsMarked
<1>4. pc \in LiveCodes(after) => after.code[pc].op # "Label"
  BY <1>3 DEF TwoPrograms, ShrinkingPass
<1>5. Silent(remains[pc]) <=> pc \notin LiveCodes(after)
  BY <1>1, <1>2, <1>4 DEF IsMarked
<1> QED BY <1>1, <1>3, <1>4, <1>5 DEF IsMarked, TwoPrograms, WellFormed

\* Where jumps lead.
LEMMA JumpSameAgrees ==
  ASSUME TwoPrograms, NEW l, JumpSame(before, after, l)
  PROVE  JumpAgrees(before.name[l], after.name[l])
BY DEF TwoPrograms, JumpSame, JumpAgrees

\* The variables that are used.
LEMMA UsedInIs ==
  ASSUME TwoPrograms
  PROVE  /\ \A v : IsUsed(v, remains) <=> UsedIn(after, v)
         /\ \A v : IsUsed(v, code) <=> UsedIn(before, v)
         /\ DecVars = {after.code[j].var : j \in {k \in LiveCodes(after) : after.code[k].op = "Dec"}}
<1>1. IsMarked(before, code) /\ IsMarked(after, remains)
  BY MarkedIs DEF TwoPrograms
<1>2. \A v : IsUsed(v, remains) <=> UsedIn(after, v)
  BY <1>1 DEF IsUsed, UsedIn, IsMarked
<1>3. \A v : IsUsed(v, code) <=> UsedIn(before, v)
  BY <1>1 DEF IsUsed, UsedIn, IsMarked
<1>4. {j \in DOMAIN remains : remains[j].op = "Dec"} = {k \in LiveCodes(after) : after.code[k].op = "Dec"}
  BY <1>1 DEF IsMarked
<1>5. \A k \in LiveCodes(after) : after.code[k].op = "Dec" => remains[k] = after.code[k]
  BY <1>1 DEF IsMarked, Named
<1> QED BY <1>2, <1>3, <1>4, <1>5 DEF DecVars

\* The operands that both have.
LEMMA OperandsAgree ==
  ASSUME TwoPrograms, InStep, pc \in DOMAIN code, pc \in LiveCodes(after),
         NEW f \in UsingFields(after.code[pc])
  PROVE  OperandAgrees(after.code[pc][f], after.code[pc][f])
<1>1. f \in UsingFields(remains[pc]) /\ remains[pc][f] = after.code[pc][f] /\ ~Silent(remains[pc])
  BY CodesHere, NamedCode
<1> QED BY <1>1, SameOperandAgrees

LEMMA AlikeAgrees ==
  ASSUME TwoPrograms, InStep, pc \in DOMAIN code, Alike(before, after, pc)
  PROVE  ~Silent(remains[pc]) /\ Agrees(code[pc], remains[pc])
<1> DEFINE c == before.code[pc]
<1>1. /\ pc \in LiveCodes(after) /\ after.code[pc] = c /\ c \in TextCodes /\ c.op # "Label"
      /\ code[pc] = Named(before, c) /\ remains[pc] = Named(after, c) /\ ~Silent(remains[pc])
  BY CodesHere DEF Alike
<1>2. c.op \in {"Label", "Goto", "Branch"} => c.label \in DOMAIN before.name /\ c.label \in DOMAIN after.name
  BY <1>1, CodesHere
<1>3. \A f \in UsingFields(c) : OperandAgrees(c[f], c[f])
  BY <1>1, OperandsAgree
<1>4. c.op \in {"Goto", "Branch"} => JumpSame(before, after, c.label)
  BY DEF Alike
<1> HIDE DEF c
<1>5. c.op \in {"Goto", "Branch"} => JumpAgrees(before.name[c.label], after.name[c.label])
  BY <1>4, JumpSameAgrees
<1>6. /\ Named(before, c).op = c.op /\ Named(after, c).op = c.op
      /\ c.op \notin {"Label", "Goto", "Branch"} => Named(before, c) = c /\ Named(after, c) = c
      /\ c.op \in {"Goto", "Branch"} => /\ Named(before, c).label = before.name[c.label]
                                        /\ Named(after, c).label = after.name[c.label]
      /\ c.op = "Branch" => Named(before, c).relop = c.relop /\ Named(after, c).relop = c.relop
      /\ UsingFields(Named(before, c)) = UsingFields(c)
      /\ \A f \in UsingFields(c) : Named(before, c)[f] = c[f] /\ Named(after, c)[f] = c[f]
  BY <1>1, <1>2, NamedCode, CodesHere
<1>7. SameShape(code[pc], remains[pc])
  BY <1>1, <1>6 DEF SameShape, ArithKinds
<1>8. \A f \in ReadFields(code[pc]) : OperandAgrees(code[pc][f], remains[pc][f])
  BY <1>1, <1>3, <1>6 DEF ReadFields
<1> QED BY <1>1, <1>5, <1>6, <1>7, <1>8 DEF Agrees

LEMMA DroppedDrops ==
  ASSUME TwoPrograms, InStep, pc \in DOMAIN code, Dropped(before, after, pc)
  PROVE  DropsHere
<1> DEFINE c == before.code[pc]
<1>1. /\ c \in TextCodes /\ code[pc] = Named(before, c) /\ Silent(remains[pc])
      /\ c.op \in {"Label", "Goto", "Branch"} => c.label \in DOMAIN before.name
      /\ OptimizerType(before)
  BY CodesHere DEF Dropped
<1>2. /\ Named(before, c).op = c.op
      /\ c.op \notin {"Label", "Goto", "Branch"} => Named(before, c) = c
      /\ c.op \in {"Label", "Goto", "Branch"} => Named(before, c).label = before.name[c.label]
  <2> HIDE DEF c
  <2> QED BY <1>1, NamedCode
<1>3. CASE c.op = "Goto"
  <2>1. Rest(remains, TargetOf(code[pc].label, code)) = Rest(remains, pc)
    BY <1>1, <1>2, <1>3 DEF Dropped, TwoPrograms, ArithKinds
  <2> QED BY <1>1, <1>2, <1>3, <2>1 DEF DropsHere, Drops
<1>4. CASE c.op # "Goto"
  <2>1. code[pc] = c
    BY <1>1, <1>2, <1>4 DEF Dropped, ArithKinds
  <2>2. \/ c.op = "Assign" /\ c.left.kind # "Deref" /\ ~IsUsed(c.left.var, remains)
        \/ c.op \in ArithKinds /\ ~IsUsed(c.target, remains)
        \/ c.op = "Dec" /\ ~IsUsed(c.var, remains) /\ c.var \notin DecVars
    BY <1>4, UsedInIs DEF Dropped
  <2> QED BY <1>1, <2>1, <2>2 DEF DropsHere, Drops
<1> QED BY <1>3, <1>4

LEMMA FoldedFolds ==
  ASSUME TwoPrograms, InStep, pc \in DOMAIN code, IsFolded(before, after, pc)
  PROVE  FoldsHere
<1> DEFINE c == before.code[pc]
           d == after.code[pc]
<1>1. /\ pc \in LiveCodes(after) /\ d = Folded(c) /\ d # c /\ c \in TextCodes /\ d \in TextCodes
      /\ code[pc] = Named(before, c) /\ remains[pc] = Named(after, d) /\ ~Silent(remains[pc])
      /\ c.op \in {"Label", "Goto", "Branch"} => c.label \in DOMAIN before.name
      /\ d.op \in {"Label", "Goto", "Branch"} => d.label \in DOMAIN after.name
      /\ OptimizerType(before) /\ OptimizerType(after)
  BY CodesHere DEF IsFolded
<1>2. c.op = "Branch" => JumpSame(before, after, c.label)
  BY DEF IsFolded
<1> HIDE DEF c, d
<1>3. c.op \in ArithKinds \cup {"Branch"} /\ {c.op1.kind, c.op2.kind} = {"Constant"}
  BY <1>1 DEF Folded
<1>4. CASE c.op \in ArithKinds
  <2>1. code[pc] = c
    BY <1>1, <1>4 DEF Named, ArithKinds
  <2>2. d = Assign(Var(c.target), Const(ConstArith(c.op, c.op1.value, c.op2.value)))
    BY <1>1, <1>3, <1>4 DEF Folded, ArithKinds
  <2>3. remains[pc] = d
    BY <1>1, <2>2 DEF Named, Assign
  <2> QED BY <1>1, <1>3, <1>4, <2>1, <2>2, <2>3 DEF FoldsHere, Folds, ArithKinds
<1>5. CASE c.op = "Branch"
  <2>1. d = Goto(c.label) /\ ConstRelation(c.relop, c.op1.value, c.op2.value)
    BY <1>1, <1>3, <1>5 DEF Folded, ArithKinds
  <2>2. d.op = "Goto" /\ d.label = c.label
    BY <2>1 DEF Goto
  <2>3. /\ code[pc].op = "Branch" /\ code[pc].label = before.name[c.label]
        /\ code[pc].relop = c.relop /\ code[pc].op1 = c.op1 /\ code[pc].op2 = c.op2
    BY <1>1, <1>5, NamedCode
  <2>4. remains[pc].op = "Goto" /\ remains[pc].label = after.name[c.label]
    BY <1>1, <2>2, NamedCode
  <2>5. JumpAgrees(code[pc].label, remains[pc].label)
    BY <1>2, <1>5, <2>3, <2>4, JumpSameAgrees
  <2> QED BY <1>1, <1>3, <1>5, <2>1, <2>3, <2>4, <2>5 DEF FoldsHere, Folds, ArithKinds
<1> QED BY <1>3, <1>4, <1>5

\* Where there is no code there is no step.
LEMMA StepInside ==
  ASSUME MachineNext
  PROVE  pc \in DOMAIN code
<1>1. \A ops : At(ops) => pc \in DOMAIN code
  BY DEF At, Executable, Here
<1> QED BY <1>1 DEF MachineNext, OtherStep, RunAssign, RunArith, RunGoto, RunBranch, RunRead, RunWrite,
                    RunArg, RunCall, RunParam, RunReturn, Halt, RunDec

\* A step of the machine before is one of the machine after, or none.
LEMMA LocalStep ==
  ASSUME TwoPrograms, InStep, StoresAreKept, MachineNext, UNCHANGED remains,
         Alike(before, after, pc) \/ Dropped(before, after, pc) \/ IsFolded(before, after, pc)
  PROVE  After!MachineNext \/ UNCHANGED AfterState
<1>1. pc \in DOMAIN code
  BY StepInside
<1>2. CASE Alike(before, after, pc)
  <2>1. AgreesHere
    BY <1>1, <1>2, AlikeAgrees DEF AgreesHere
  <2> QED BY <2>1, StepAgrees
<1>3. CASE Dropped(before, after, pc)
  BY <1>1, <1>3, DroppedDrops, StepDropped
<1>4. CASE IsFolded(before, after, pc)
  BY <1>1, <1>4, FoldedFolds, StepFolded
<1> QED BY <1>2, <1>3, <1>4

-----------------------------------------------------------------------------
(* The variable whose value has been forwarded. *)

\* Whoever is at q has the value x of the assignment i in v.
Claim(o, i, u, v, x, q) ==
  \/ IsConstant(o, i, v, x)
  \/ IsNewBlock(o, i, v, x) /\ q # i
  \/ IsStraight(o, i, u, v, x) /\ i < q /\ q <= u

Stored(v, x, env) ==
  v \in DOMAIN env => IF x.kind = "Constant" THEN env[v] = x.value
                      ELSE x.var \in DOMAIN env /\ env[v] = env[x.var]

HoldsAt(o, p, q, env) ==
  \A i, v, u, x, h : IsForward(o, p, i, v, u, x, h) /\ Claim(o, i, u, v, x, q) => Stored(v, x, env)

\* The same for the program in which the code at q is executed.
LEMMA CodeAt ==
  ASSUME TwoPrograms, InStep, NEW q \in DOMAIN code, ~Silent(code[q])
  PROVE  /\ q \in LiveCodes(before) /\ q \in 1 .. Len(code) /\ Len(code) \in Nat
         /\ before.code[q] \in TextCodes
         /\ code[q].op = before.code[q].op
         /\ code[q].op \notin {"Goto", "Branch"} => code[q] = before.code[q]
         /\ IsRest(code, q + 1, Rest(code, q + 1))
<1>1. IsMarked(before, code) /\ OptimizerType(before)
  BY MarkedIs DEF TwoPrograms, WellFormed
<1>2. q \in LiveCodes(before) /\ before.code[q].op # "Label" /\ before.code[q] \in TextCodes
      /\ code[q] = Named(before, before.code[q]) /\ code[q].op = before.code[q].op
  BY <1>1 DEF IsMarked
<1>3. DOMAIN code = 1 .. Len(code) /\ Len(code) \in Nat /\ code \in Seq(Codes)
  BY PlacesAgree DEF InStep, Shrinks
<1>4. q + 1 \in 1 .. Len(code) + 1
  BY <1>3
<1> QED BY <1>2, <1>3, <1>4, RestIs DEF Named

\* Before the code after q there was q.
LEMMA ClaimBefore ==
  ASSUME TwoPrograms, InStep, NEW q \in DOMAIN code, ~Silent(code[q]),
         NEW i, NEW v, NEW u, NEW x, NEW h, IsForward(before, after, i, v, u, x, h), q # i,
         Claim(before, i, u, v, x, Rest(code, q + 1))
  PROVE  /\ Claim(before, i, u, v, x, q) /\ v \notin Defines(before.code[q])
         /\ x.kind # "Constant" => x.var \notin Defines(before.code[q])
<1> DEFINE n == Rest(code, q + 1)
<1>1. /\ q \in LiveCodes(before) /\ q \in 1 .. Len(code) /\ Len(code) \in Nat
      /\ IsRest(code, q + 1, n)
  BY CodeAt
<1> HIDE DEF n
<1>2. i \in LiveCodes(before) /\ before.code[i].op = "Assign"
  BY DEF IsForward, GoesInto
<1>3. i \in DOMAIN code /\ ~Silent(code[i])
  BY <1>2, MarkedIs DEF TwoPrograms, IsMarked
<1>4. \A k \in DOMAIN code : k \notin LiveCodes(before) => Silent(code[k])
  BY MarkedIs DEF TwoPrograms, IsMarked
<1>5. DOMAIN code = 1 .. Len(code) /\ code \in Seq(Codes)
  BY PlacesAgree DEF InStep, Shrinks
<1>6. CASE IsConstant(before, i, v, x)
  BY <1>1, <1>6 DEF IsConstant, OnlyDefinedBy, Claim
<1>7. CASE IsNewBlock(before, i, v, x) /\ n # i
  <2>1. Claim(before, i, u, v, x, q) /\ v \notin Defines(before.code[q])
    BY <1>1, <1>7 DEF IsNewBlock, OnlyDefinedBy, Claim
  <2>2. ASSUME x.var \in Defines(before.code[q]) PROVE FALSE
    <3>1. q < i /\ \A k \in LiveCodes(before) : ~(q < k /\ k < i)
      BY <1>1, <1>7, <2>2 DEF IsNewBlock, OnlyDefinedBy
    <3>2. \A k \in q + 1 .. i - 1 : k \in DOMAIN code => Silent(code[k])
      BY <1>1, <1>3, <1>4, <1>5, <3>1
    <3>3. IsRest(code, q + 1, i)
      BY <1>1, <1>3, <1>5, <3>1, <3>2 DEF IsRest
    <3>4. q + 1 \in 1 .. Len(code) + 1
      BY <1>1
    <3>5. Rest(code, q + 1) = i
      BY <1>5, <3>3, <3>4, RestUnique
    <3> QED BY <1>7, <3>5 DEF n
  <2> QED BY <2>1, <2>2
<1>8. CASE IsStraight(before, i, u, v, x) /\ i < n /\ n <= u
  <2>1. i < q
    <3> SUFFICES ASSUME ~(i < q) PROVE FALSE
      OBVIOUS
    <3>1. i \in q + 1 .. n - 1
      BY <1>1, <1>3, <1>5, <1>8 DEF IsRest
    <3> QED BY <1>1, <1>3, <3>1 DEF IsRest
  <2>2. u \in Nat
    BY DEF IsForward, GoesInto, LiveCodes, TwoPrograms, WellFormed, OptimizerType
  <2>3. q < u /\ q <= u
    BY <1>1, <1>8, <2>2 DEF IsRest
  <2> QED BY <1>1, <1>8, <2>1, <2>3 DEF IsStraight, Claim
<1> QED BY <1>6, <1>7, <1>8 DEF Claim, n

\* A jump does not come from elsewhere into the line between i and u.
LEMMA ClaimBeforeJump ==
  ASSUME TwoPrograms, InStep, NEW q \in DOMAIN code, code[q].op \in {"Goto", "Branch"},
         NEW i, NEW v, NEW u, NEW x, NEW h, IsForward(before, after, i, v, u, x, h),
         NEW l, Places(l, code) # {}, Claim(before, i, u, v, x, TargetOf(l, code))
  PROVE  Claim(before, i, u, v, x, q)
<1> DEFINE n == TargetOf(l, code)
           e == CHOOSE k \in Places(l, code) : TRUE
<1>1. e \in DOMAIN code /\ code[e] = Label(l)
  BY DEF Places
<1>2. n = Rest(code, e)
  BY DEF TargetOf
<1>3. DOMAIN code = 1 .. Len(code) /\ Len(code) \in Nat /\ code \in Seq(Codes)
  BY PlacesAgree DEF InStep, Shrinks
<1> HIDE DEF e
<1>4. IsRest(code, e, n)
  <2>1. e \in 1 .. Len(code) + 1
    BY <1>1, <1>3
  <2> QED BY <1>2, <1>3, <2>1, RestIs
<1> HIDE DEF n
<1>5. i \in LiveCodes(before) /\ before.code[i].op = "Assign" /\ u \in LiveCodes(before)
      /\ h \in ReadFields(before.code[u])
  BY DEF IsForward, GoesInto
<1>6. IsMarked(before, code)
  BY MarkedIs DEF TwoPrograms
<1>7. i \in DOMAIN code /\ ~Silent(code[i]) /\ u \in DOMAIN code /\ code[i].op = "Assign"
  BY <1>5, <1>6 DEF IsMarked
<1>8. q # i
  BY <1>7
<1>9. e \in LiveCodes(before) /\ before.code[e].op = "Label"
  <2>1. code[e].op = "Label"
    BY <1>1 DEF Label
  <2> QED BY <1>1, <1>6, <2>1 DEF IsMarked
<1>10. before.code[u].op # "Label"
  BY <1>5 DEF ReadFields, UsingFields, ArithKinds
<1>11. ASSUME IsStraight(before, i, u, v, x), i < n, n <= u PROVE FALSE
  <2>1. i < e
    <3> SUFFICES ASSUME ~(i < e) PROVE FALSE
      OBVIOUS
    <3>1. i # e
      BY <1>5, <1>9
    <3>2. i \in e .. n - 1
      BY <1>1, <1>3, <1>4, <1>7, <1>11, <3>1 DEF IsRest
    <3> QED BY <1>4, <1>7, <3>2 DEF IsRest
  <2>2. e <= u /\ e # u /\ e \in Int /\ u \in Int
    BY <1>1, <1>3, <1>4, <1>7, <1>9, <1>10, <1>11 DEF IsRest
  <2>3. e < u
    BY <2>2
  <2> QED BY <1>9, <1>11, <2>1, <2>3 DEF IsStraight
<1> QED BY <1>8, <1>11 DEF Claim, n

\* Another variable does not matter.
LEMMA StoredKept ==
  ASSUME NEW v, NEW x, NEW env, Stored(v, x, env),
         NEW w, w # v, x.kind # "Constant" => w # x.var, NEW val
  PROVE  Stored(v, x, Keep(env, w, val))
<1>1. CASE IsUsed(w, code)
  <2>1. Keep(env, w, val) = With(env, w, val)
    BY <1>1 DEF Keep
  <2> QED BY <2>1 DEF Stored, With
<1>2. CASE ~IsUsed(w, code)
  BY <1>2 DEF Keep
<1> QED BY <1>1, <1>2

\* Going on, with the variable that the code at q gives a value.
LEMMA HoldsOn ==
  ASSUME TwoPrograms, InStep, NEW q \in DOMAIN code, ~Silent(code[q]),
         NEW env, HoldsAt(before, after, q, env),
         NEW i, NEW v, NEW u, NEW x, NEW h, IsForward(before, after, i, v, u, x, h), q # i,
         Claim(before, i, u, v, x, Rest(code, q + 1))
  PROVE  /\ Stored(v, x, env)
         /\ \A w \in Defines(before.code[q]) : \A val : Stored(v, x, Keep(env, w, val))
<1>1. /\ Claim(before, i, u, v, x, q) /\ v \notin Defines(before.code[q])
      /\ x.kind # "Constant" => x.var \notin Defines(before.code[q])
  BY ClaimBefore
<1>2. Stored(v, x, env)
  BY <1>1 DEF HoldsAt
<1>3. ASSUME NEW w \in Defines(before.code[q]), NEW val PROVE Stored(v, x, Keep(env, w, val))
  <2>1. w # v /\ (x.kind # "Constant" => w # x.var)
    BY <1>1
  <2> QED BY <1>2, <2>1, StoredKept
<1> QED BY <1>2, <1>3

\* The assignment itself.
LEMMA HoldsAfterIt ==
  ASSUME TwoPrograms, InStep, RunAssign,
         NEW v, NEW u, NEW x, NEW h, IsForward(before, after, pc, v, u, x, h)
  PROVE  Stored(v, x, data')
<1>1. pc \in DOMAIN code
  BY StepInside DEF MachineNext, OtherStep
<1>2. Here = code[pc] /\ code[pc] = before.code[pc] /\ code[pc] \in TextCodes
  <2>1. before.code[pc].op = "Assign"
    BY DEF IsForward, GoesInto
  <2> QED BY <1>1, <2>1, HereAgrees, CodesHere DEF Named
<1>3. Here.op = "Assign" /\ Here.left = Var(v) /\ Here.right = x /\ x.kind # "Deref" /\ x \in Operands
  BY <1>2 DEF IsForward, GoesInto
<1>4. IsUsed(v, code)
  <2>1. u \in LiveCodes(before) /\ h \in FieldsUsing(before.code[u], v)
    BY DEF IsForward, GoesInto, FieldsUsing, ReadFields, Var
  <2> QED BY <2>1, UsedInIs DEF UsedIn
<1>5. data' = With(data, v, Val(x))
  BY <1>3, <1>4 DEF RunAssign, Keep, Var
<1>6. x.kind # "Constant" => x.var \in DOMAIN data
  <2>1. Reads = {x}
    BY <1>3 DEF Reads, ArithKinds
  <2>2. HasValue(x)
    BY <2>1 DEF RunAssign, At, Executable
  <2> QED BY <2>2 DEF HasValue
<1>7. x.kind = "Constant" => Val(x) = x.value
  BY DEF Val, Value
<1>8. x.kind # "Constant" => Val(x) = data[x.var]
  BY <1>3 DEF Val, Value
<1> QED BY <1>5, <1>6, <1>7, <1>8 DEF Stored, With

-----------------------------------------------------------------------------
(* It stays so. *)

ValuesHold ==
  /\ HoldsAt(before, after, pc, data)
  /\ \A k \in DOMAIN frames : HoldsAt(before, after, frames[k].pc, frames[k].data)

\* What is running when the machine is in step.
LEMMA DataHolds ==
  ASSUME TwoPrograms, InStep, MachineNext, ValuesHold
  PROVE  HoldsAt(before, after, pc', data')
<1> SUFFICES ASSUME NEW i, NEW v, NEW u, NEW x, NEW h, IsForward(before, after, i, v, u, x, h),
                    Claim(before, i, u, v, x, pc')
             PROVE  Stored(v, x, data')
  BY DEF HoldsAt
<1>1. pc \in DOMAIN code /\ ~Silent(code[pc]) /\ Here = code[pc]
  BY StepInside, HereAgrees DEF InStep
<1> DEFINE c == before.code[pc]
<1>2. c \in TextCodes /\ Here.op = c.op /\ (c.op \notin {"Goto", "Branch"} => Here = c)
  BY <1>1, CodeAt
<1>3. HoldsAt(before, after, pc, data)
  BY DEF ValuesHold
<1>4. before.code[i].op = "Assign"
  BY DEF IsForward, GoesInto
<1>5. ASSUME Here.op # "Assign", pc' = Rest(code, pc + 1)
      PROVE  /\ Stored(v, x, data)
             /\ \A w \in Defines(c) : \A val : Stored(v, x, Keep(data, w, val))
  <2>1. pc # i
    BY <1>2, <1>4, <1>5
  <2> QED BY <1>1, <1>3, <1>5, <2>1, HoldsOn
<1>6. ASSUME Here.op = "Assign", pc' = Rest(code, pc + 1), pc # i
      PROVE  /\ Stored(v, x, data)
             /\ \A w \in Defines(c) : \A val : Stored(v, x, Keep(data, w, val))
  BY <1>1, <1>3, <1>6, HoldsOn
<1> HIDE DEF c
<1>7. \A ops : At(ops) => Here.op \in ops
  BY DEF At
<1>8. CASE RunAssign
  <2>1. Here.op = "Assign" /\ Here = c /\ pc' = Rest(code, pc + 1)
    BY <1>2, <1>7, <1>8 DEF RunAssign, Advance
  <2>2. CASE pc = i
    BY <1>8, <2>2, HoldsAfterIt
  <2>3. CASE pc # i /\ Here.left.kind = "Deref"
    BY <1>6, <1>8, <2>1, <2>3 DEF RunAssign
  <2>4. CASE pc # i /\ Here.left.kind # "Deref"
    <3>1. Here.left.var \in Defines(c)
      BY <2>1, <2>4 DEF Defines, ArithKinds
    <3>2. data' = Keep(data, Here.left.var, Val(Here.right))
      BY <1>8, <2>4 DEF RunAssign
    <3> QED BY <1>6, <2>1, <2>4, <3>1, <3>2
  <2> QED BY <2>2, <2>3, <2>4
<1>9. CASE RunArith
  <2>1. Here.op \in ArithKinds /\ pc' = Rest(code, pc + 1) /\ Here.op # "Assign"
    BY <1>7, <1>9 DEF RunArith, Advance, ArithKinds
  <2>2. Here = c
    BY <1>2, <2>1 DEF ArithKinds
  <2>3. Here.target \in Defines(c)
    BY <2>1, <2>2 DEF Defines, ArithKinds
  <2>4. data' = Keep(data, Here.target, Arith(Here.op, Val(Here.op1), Val(Here.op2)))
    BY <1>9 DEF RunArith
  <2> QED BY <1>5, <2>1, <2>3, <2>4
<1>10. CASE RunGoto \/ RunBranch
  <2>1. /\ Here.op \in {"Goto", "Branch"} /\ Places(Here.label, code) # {} /\ data' = data
        /\ pc' = TargetOf(Here.label, code) \/ pc' = Rest(code, pc + 1)
    BY <1>10 DEF RunGoto, RunBranch, At, Executable
  <2>2. CASE pc' = TargetOf(Here.label, code)
    <3>1. Claim(before, i, u, v, x, TargetOf(Here.label, code))
      BY <2>2
    <3>2. code[pc].op \in {"Goto", "Branch"}
      BY <1>1, <2>1
    <3>3. Claim(before, i, u, v, x, pc)
      BY <1>1, <2>1, <3>1, <3>2, ClaimBeforeJump
    <3> QED BY <1>3, <2>1, <3>3 DEF HoldsAt
  <2>3. CASE pc' = Rest(code, pc + 1)
    BY <1>5, <2>1, <2>3
  <2> QED BY <2>1, <2>2, <2>3
<1>11. ASSUME NEW base \in Bases, RunDec(base) PROVE Stored(v, x, data')
  <2>1. Here.op = "Dec" /\ pc' = Rest(code, pc + 1) /\ Here = c
    BY <1>2, <1>7, <1>11 DEF RunDec, Advance
  <2>2. Here.var \in Defines(c)
    BY <2>1 DEF Defines, CountedAssigns, ArithKinds
  <2> QED BY <1>5, <1>11, <2>1, <2>2 DEF RunDec
<1>12. CASE RunRead
  <2>1. Here.op = "Read" /\ pc' = Rest(code, pc + 1) /\ Here = c
    BY <1>2, <1>7, <1>12 DEF RunRead, Advance
  <2>2. Here.read \in Defines(c)
    BY <2>1 DEF Defines, CountedAssigns, ArithKinds
  <2> QED BY <1>5, <1>12, <2>1, <2>2 DEF RunRead
<1>13. CASE RunParam
  <2>1. Here.op = "Param" /\ pc' = Rest(code, pc + 1) /\ Here = c
    BY <1>2, <1>7, <1>13 DEF RunParam, Advance
  <2>2. Here.param \in Defines(c)
    BY <2>1 DEF Defines, ArithKinds
  <2> QED BY <1>5, <1>13, <2>1, <2>2 DEF RunParam
<1>14. CASE RunWrite \/ RunArg
  <2>1. Here.op \in {"Write", "Arg"} /\ pc' = Rest(code, pc + 1) /\ data' = data
    BY <1>7, <1>14 DEF RunWrite, RunArg, Advance
  <2> QED BY <1>5, <2>1
<1>15. CASE RunCall
  BY <1>15 DEF RunCall, Stored
<1>16. CASE RunReturn
  <2> DEFINE f == Last(frames)
  <2>1. /\ frames # << >> /\ pc' = Rest(code, f.pc + 1)
        /\ data' = Keep(f.data, code[f.pc].target, Val(Here.ret))
    BY <1>16 DEF RunReturn
  <2>2. Len(frames) \in DOMAIN frames /\ f = frames[Len(frames)]
        /\ f.pc \in DOMAIN code /\ code[f.pc].op = "Call"
    BY <2>1, LastFrame
  <2>3. HoldsAt(before, after, f.pc, f.data)
    BY <2>2 DEF ValuesHold
  <2> HIDE DEF f
  <2>4. ~Silent(code[f.pc])
    BY <2>2 DEF Silent
  <2>5. code[f.pc] = before.code[f.pc]
    BY <2>2, <2>4, CodeAt
  <2>6. f.pc # i
    BY <1>4, <2>2, <2>5
  <2>7. code[f.pc].target \in Defines(before.code[f.pc])
    BY <2>2, <2>5 DEF Defines, CountedAssigns, ArithKinds
  <2> QED BY <2>1, <2>2, <2>3, <2>4, <2>6, <2>7, HoldsOn
<1>17. CASE Halt
  BY <1>3, <1>17 DEF Halt, HoldsAt
<1> QED BY <1>8, <1>9, <1>10, <1>11, <1>12, <1>13, <1>14, <1>15, <1>16, <1>17 DEF MachineNext, OtherStep

LEMMA ValuesStay ==
  ASSUME TwoPrograms, InStep, MachineNext, ValuesHold, UNCHANGED <<before, after, remains>>
  PROVE  ValuesHold'
<1>1. HoldsAt(before, after, pc', data')
  BY DataHolds
<1>2. \A k \in DOMAIN frames' : HoldsAt(before, after, frames'[k].pc, frames'[k].data)
  <2>1. CASE RunCall
    <3>1. frames' = Append(frames, [data |-> data, pc |-> pc]) /\ frames \in Seq({frames[j] : j \in DOMAIN frames})
      BY <2>1 DEF RunCall, InStep
    <3> DEFINE new == [data |-> data, pc |-> pc]
    <3>2. \A k \in DOMAIN frames' : frames'[k] = new \/ (k \in DOMAIN frames /\ frames'[k] = frames[k])
      <4> DEFINE S == {frames[j] : j \in DOMAIN frames}
      <4>1. frames' = Append(frames, new) /\ frames \in Seq(S)
        BY <3>1
      <4> HIDE DEF S, new
      <4> QED BY <4>1
    <3> QED BY <3>2 DEF ValuesHold
  <2>2. CASE RunReturn
    <3>1. \A k \in DOMAIN frames' : k \in DOMAIN frames /\ frames'[k] = frames[k]
      BY <2>2, FrontFrames DEF RunReturn
    <3> QED BY <3>1 DEF ValuesHold
  <2>3. ~RunCall /\ ~RunReturn => UNCHANGED frames
    BY DEF MachineNext, OtherStep, RunAssign, RunArith, RunGoto, RunBranch, RunRead, RunWrite, RunArg,
           RunParam, Halt, RunDec
  <2>4. UNCHANGED frames => \A k \in DOMAIN frames' : HoldsAt(before, after, frames'[k].pc, frames'[k].data)
    BY DEF ValuesHold
  <2> QED BY <2>1, <2>2, <2>3, <2>4
<1> QED BY <1>1, <1>2 DEF ValuesHold

\* The code into which the value has been put does what it did.
LEMMA ForwardAgrees ==
  ASSUME TwoPrograms, InStep, ValuesHold, pc \in DOMAIN code,
         NEW i, NEW v, NEW u, NEW x, NEW h, IsForward(before, after, i, v, u, x, h), pc = u
  PROVE  ~Silent(remains[pc]) /\ Agrees(code[pc], remains[pc])
<1> DEFINE c == before.code[pc]
           d == after.code[pc]
<1>1. /\ pc \in LiveCodes(after) /\ c \in TextCodes /\ d \in TextCodes
      /\ code[pc] = Named(before, c) /\ remains[pc] = Named(after, d) /\ ~Silent(remains[pc])
      /\ c.op \in {"Label", "Goto", "Branch"} => c.label \in DOMAIN before.name
      /\ d.op \in {"Label", "Goto", "Branch"} => d.label \in DOMAIN after.name
      /\ OptimizerType(before) /\ OptimizerType(after)
  BY CodesHere DEF IsForward
<1>2. /\ h \in ReadFields(c) /\ c[h] = Var(v) /\ d.op = c.op /\ UsingFields(d) = UsingFields(c)
      /\ \A f \in UsingFields(c) : d[f] = IF f = h THEN x ELSE c[f]
      /\ c.op \in {"Label", "Goto", "Branch"} => d.label = c.label
      /\ SameShape(c, d) /\ x \in Operands /\ x.kind # "Deref"
  BY DEF IsForward, IsPut, GoesInto
<1>3. c.op # "Goto" /\ (c.op = "Branch" => JumpSame(before, after, c.label))
  <2>1. c.op # "Goto"
    BY <1>2 DEF ReadFields, UsingFields, ArithKinds
  <2> QED BY <2>1, ForwardParts DEF TwoPrograms
<1>4. \A f \in UsingFields(d) : OperandAgrees(d[f], d[f])
  BY <1>1, OperandsAgree
<1>5. Stored(v, x, data)
  <2>1. Claim(before, i, u, v, x, pc)
    <3>1. u # i /\ Justified(before, i, u, v, x)
      BY DEF IsForward
    <3>2. u <= u
      BY DEF IsForward, GoesInto, LiveCodes, TwoPrograms, WellFormed, OptimizerType
    <3> QED BY <3>1, <3>2 DEF Justified, Claim, IsStraight
  <2> QED BY <2>1 DEF ValuesHold, HoldsAt
<1> HIDE DEF c, d
<1>6. OperandAgrees(Var(v), x)
  <2>1. OperandAgrees(x, x)
    BY <1>2, <1>4 DEF ReadFields
  <2>2. HasValue(Var(v)) => HasValue(x) /\ Val(x) = Val(Var(v))
    BY <1>2, <1>5 DEF HasValue, Val, Value, Var, Stored
  <2> QED BY <2>1, <2>2 DEF OperandAgrees
<1>7. \A f \in ReadFields(c) : OperandAgrees(c[f], d[f])
  BY <1>2, <1>4, <1>6 DEF ReadFields
<1>8. c.op = "Branch" => JumpAgrees(before.name[c.label], after.name[c.label])
  BY <1>3, JumpSameAgrees
<1>9. /\ code[pc].op = c.op /\ remains[pc].op = c.op
      /\ c.op \notin {"Label", "Goto", "Branch"} => code[pc] = c /\ remains[pc] = d
      /\ c.op = "Branch" => /\ code[pc].label = before.name[c.label] /\ code[pc].relop = c.relop
                            /\ remains[pc].label = after.name[c.label] /\ remains[pc].relop = d.relop
      /\ UsingFields(code[pc]) = UsingFields(c)
      /\ \A f \in UsingFields(c) : code[pc][f] = c[f] /\ remains[pc][f] = d[f]
  BY <1>1, <1>2, NamedCode
<1>10. SameShape(code[pc], remains[pc])
  BY <1>2, <1>3, <1>9 DEF SameShape, ArithKinds, ReadFields, UsingFields
<1>11. \A f \in ReadFields(code[pc]) : OperandAgrees(code[pc][f], remains[pc][f])
  BY <1>7, <1>9 DEF ReadFields
<1> QED BY <1>1, <1>3, <1>8, <1>9, <1>10, <1>11 DEF Agrees

-----------------------------------------------------------------------------
(* Every pass. *)

\* A pass that is sound is one of those above.
LEMMA PassIs ==
  ASSUME NEW o, WellFormed(o), NEW p \in OnePass(o), p.sound
  PROVE  /\ WellFormed(p) /\ ShrinkingPass(o, p)
         /\ PassIsLocal(o, p) \/ \E i, v, u, x, h : IsForward(o, p, i, v, u, x, h)
<1>1. CASE p = optimizeDeadAssign(o)
  BY <1>1, DeadAssignKeeps, DeadAssignIsLocal DEF PassIsLocal
<1>2. CASE p = optimizeDupLabel(o)
  BY <1>2, DupLabelKeeps, DupLabelIsLocal DEF PassIsLocal
<1>3. CASE p = optimizeConstExp(o)
  BY <1>3, ConstExpKeeps, ConstExpIsLocal DEF PassIsLocal
<1>4. CASE p = optimizeDupGoto(o)
  BY <1>4, DupGotoKeeps, DupGotoIsLocal DEF PassIsLocal
<1>5. CASE p = o
  <2>1. ShrinkingPass(o, o)
    BY DEF ShrinkingPass
  <2>2. LabelsStay(o, o)
    BY DEF LabelsStay
  <2>3. \A k \in LiveCodes(o) : Alike(o, o, k)
    BY <2>1, <2>2, JumpsKept DEF Alike
  <2> QED BY <1>5, <2>1, <2>3 DEF PassIsLocal
<1>6. ASSUME NEW i \in DOMAIN o.code, p = Forward(o, i), p # o
      PROVE  /\ WellFormed(p) /\ ShrinkingPass(o, p)
             /\ \E v, u, x, h : IsForward(o, p, i, v, u, x, h)
  <2>1. i \in Nat \ {0} /\ i <= Len(o.code)
    BY DEF WellFormed, OptimizerType
  <2>2. WellFormed(p)
    BY <1>6, <2>1, ForwardKeeps
  <2>3. \E v, u, x, h : IsForward(o, p, i, v, u, x, h)
    BY <1>6, ForwardIs
  <2> QED BY <2>2, <2>3, ForwardParts
<1> QED BY <1>1, <1>2, <1>3, <1>4, <1>5, <1>6 DEF OnePass

\* What holds as long as the program stays inside its objects.
RunsInv ==
  /\ after \in OnePass(before) /\ after.sound
  /\ TwoPrograms /\ InStep /\ ValuesHold

LEMMA InitRuns ==
  ASSUME Init
  PROVE  RunsInv /\ After!MachineInit
<1>1. /\ before \in Texts /\ after \in OnePass(before) /\ after.sound
      /\ code = Marked(before) /\ remains = Marked(after) /\ MachineInit
  BY DEF Init
<1>2. WellFormed(before)
  BY <1>1, TextsAssumption
<1>3. TwoPrograms
  BY <1>1, <1>2, PassIs DEF TwoPrograms
<1>4. Shrinks(code, remains)
  BY <1>3, PassShrinks DEF TwoPrograms
<1>5. /\ Entries("main", code) # {} /\ pc = BodyOf("main", code)
      /\ data = << >> /\ blocks = << >> /\ mem = << >> /\ frames = << >>
      /\ args = << >> /\ out = << >> /\ result = 0 /\ status = "running" /\ inp \in Seq(Int)
  BY <1>1 DEF MachineInit
<1> DEFINE e == CHOOSE i \in Entries("main", code) : TRUE
<1>6. /\ code \in Seq(Codes) /\ remains \in Seq(Codes) /\ Len(remains) = Len(code)
      /\ DOMAIN code = 1 .. Len(code) /\ Len(code) \in Nat
      /\ \A k \in DOMAIN code : Silent(code[k]) => Silent(remains[k])
      /\ Entries("main", remains) = Entries("main", code)
  BY <1>4 DEF Shrinks
<1>7. 1 + e \in 1 .. Len(code) + 1
  <2>1. e \in Entries("main", code)
    BY <1>5
  <2>2. e \in DOMAIN code
    BY <2>1 DEF Entries
  <2> HIDE DEF e
  <2> QED BY <1>6, <2>2
<1>8. pc = Rest(code, 1 + e) /\ BodyOf("main", remains) = Rest(remains, 1 + e)
  BY <1>5, <1>6 DEF BodyOf
<1> HIDE DEF e
<1>9. IsRest(code, 1 + e, pc) /\ Rest(remains, pc) = Rest(remains, 1 + e)
  <2>1. IsRest(code, 1 + e, pc)
    BY <1>6, <1>7, <1>8, RestIs
  <2>2. Rest(remains, Rest(code, 1 + e)) = Rest(remains, 1 + e)
    BY <1>6, <1>7, RestOfRest
  <2> QED BY <1>8, <2>1, <2>2
<1>10. InStep
  <2>1. pc \in 1 .. Len(code) + 1 /\ (pc \in DOMAIN code => ~Silent(code[pc]))
    BY <1>6, <1>7, <1>9 DEF IsRest
  <2>2. frames \in Seq({frames[i] : i \in DOMAIN frames}) /\ DOMAIN frames = {} /\ DOMAIN mem = {}
    BY <1>5
  <2> QED BY <1>4, <2>1, <2>2 DEF InStep
<1>11. ValuesHold
  <2>1. DOMAIN frames = {} /\ DOMAIN data = {}
    BY <1>5
  <2> QED BY <2>1 DEF ValuesHold, HoldsAt, Stored
<1>12. KeptData(data) = << >>
  <2>1. DOMAIN data = {}
    BY <1>5
  <2> QED BY <2>1 DEF KeptData
<1>13. AfterBlocks = << >>
  <2>1. Kept = {}
    BY <1>5 DEF Kept
  <2> QED BY <2>1 DEF AfterBlocks
<1>14. AfterFrames = << >>
  <2>1. DOMAIN frames = {}
    BY <1>5
  <2> QED BY <2>1 DEF AfterFrames
<1>15. After!MachineInit
  <2>1. After!Entries("main", remains) # {} /\ Rest(remains, pc) = After!BodyOf("main", remains)
    BY <1>5, <1>6, <1>8, <1>9, AfterOperators
  <2> QED BY <1>5, <1>12, <1>13, <1>14, <2>1 DEF After!MachineInit, AfterBlocks, AfterFrames
<1> QED BY <1>1, <1>3, <1>10, <1>11, <1>15 DEF RunsInv

LEMMA RunImplements ==
  ASSUME RunsInv, StoresAreKept, Run
  PROVE  RunsInv' /\ (After!MachineNext \/ UNCHANGED AfterState)
<1>1. MachineNext /\ UNCHANGED <<before, after, remains>> /\ TwoPrograms /\ InStep /\ ValuesHold
  BY DEF Run, RunsInv
<1>2. InStep'
  BY <1>1, InStepStays
<1>3. ValuesHold'
  BY <1>1, ValuesStay
<1>4. TwoPrograms'
  <2>1. code' = code
    BY <1>1 DEF MachineNext, OtherStep, RunAssign, RunArith, RunGoto, RunBranch, RunRead, RunWrite, RunArg,
           RunCall, RunParam, RunReturn, Halt, RunDec, Advance
  <2> QED BY <1>1, <2>1 DEF TwoPrograms
<1>5. pc \in DOMAIN code
  BY <1>1, StepInside
<1>6. pc \in LiveCodes(before) /\ before.code[pc].op # "Label"
  BY <1>1, <1>5, CodesHere
<1>7. CASE PassIsLocal(before, after)
  <2>1. Alike(before, after, pc) \/ Dropped(before, after, pc) \/ IsFolded(before, after, pc)
    BY <1>6, <1>7 DEF PassIsLocal
  <2> QED BY <1>1, <1>2, <1>3, <1>4, <2>1, LocalStep DEF RunsInv
<1>8. CASE \E i, v, u, x, h : IsForward(before, after, i, v, u, x, h)
  <2>1. PICK i, v, u, x, h : IsForward(before, after, i, v, u, x, h)
    BY <1>8
  <2>2. CASE pc = u
    <3>1. AgreesHere
      BY <1>1, <1>5, <2>1, <2>2, ForwardAgrees DEF AgreesHere
    <3> QED BY <1>1, <1>2, <1>3, <1>4, <3>1, StepAgrees DEF RunsInv
  <2>3. CASE pc # u
    <3>1. Alike(before, after, pc) \/ Dropped(before, after, pc)
      BY <1>1, <1>6, <2>1, <2>3, ForwardParts DEF TwoPrograms
    <3> QED BY <1>1, <1>2, <1>3, <1>4, <3>1, LocalStep DEF RunsInv
  <2> QED BY <2>2, <2>3
<1> QED BY <1>1, <1>7, <1>8, PassIs DEF RunsInv, TwoPrograms

\* Nothing of what the machine after the pass has changes.
LEMMA NothingChanges ==
  ASSUME UNCHANGED AfterState
  PROVE  UNCHANGED After!machineVars
BY DEF AfterState, After!machineVars, After!registers, AfterBlocks, AfterFrames

\* Whatever sound pass is run over whatever program the optimizer is in the
\* middle of, the program does after it what it did before: each step of the
\* machine before is one of the machine after, or none, for as long as the
\* program stays inside its objects (optimize.c 402-413).
THEOREM EachPassImplements == Spec => ([]StoresAreKept => ImplementsAfter)
<1>1. Init => RunsInv /\ After!MachineInit
  BY InitRuns
<1>2. RunsInv /\ StoresAreKept /\ [Next]_vars => RunsInv' /\ [After!MachineNext]_After!machineVars
  <2> SUFFICES ASSUME RunsInv, StoresAreKept, [Next]_vars
               PROVE  RunsInv' /\ [After!MachineNext]_After!machineVars
    OBVIOUS
  <2>1. CASE Run
    BY <2>1, RunImplements, NothingChanges
  <2>2. CASE UNCHANGED vars
    <3>1. UNCHANGED <<before, after, remains, status, code, inp, pc, data, blocks, mem, frames, args, out, result>>
      BY <2>2 DEF vars, machineVars, registers
    <3>2. UNCHANGED AfterState
      BY <3>1, BlocksStay, FramesStay, DataAfter DEF AfterState
    <3>3. RunsInv'
      BY <3>1 DEF RunsInv, TwoPrograms, InStep, Kept, DecVars, ValuesHold
    <3> QED BY <3>2, <3>3, NothingChanges
  <2> QED BY <2>1, <2>2 DEF Next, Stop
<1> QED BY <1>1, <1>2, PTL DEF Spec, ImplementsAfter, After!MachineSpec

-----------------------------------------------------------------------------
(* Every step of the optimizer is such a pass. *)

\* Whatever optimize() does to a program and whenever it does it, the program
\* before and the one after are a pair that EachPassImplements compares, as
\* long as the optimizer is sound (optimize.c 402-413).
THEOREM EveryStepIsAPass ==
  OptimizerSpec =>
    [][opt'.sound => WellFormed(opt) /\ opt.sound /\ opt' \in OnePass(opt) \cup {opt}]_optimizerVars
<1> DEFINE Compared == opt'.sound => WellFormed(opt) /\ opt.sound /\ opt' \in OnePass(opt) \cup {opt}
<1>1. OptimizerInv /\ [OptimizerNext]_optimizerVars => [Compared]_optimizerVars
  <2> SUFFICES ASSUME OptimizerInv, OptimizerNext PROVE Compared
    OBVIOUS
  <2>1. \E i : opt' \in {optimizeDeadAssign(opt), optimizeDupLabel(opt), optimizeConstExp(opt),
                         optimizeDupGoto(opt), Forward(opt, i)} \cup {opt}
    BY DEF OptimizerNext, DeadAssign, DupLabel, DupVar, ConstExp, DupGoto, RunPass
  <2>2. opt'.sound => opt.sound
    BY <2>1, PassSound DEF OptimizerInv
  <2>3. ASSUME opt.sound PROVE opt' \in OnePass(opt) \cup {opt}
    <3>1. CASE DupVar /\ at <= Len(opt.code)
      <4>1. opt.code \in Seq(TextCodes)
        BY <2>3 DEF OptimizerInv, WellFormed, OptimizerType
      <4>2. at \in DOMAIN opt.code /\ opt' = Forward(opt, at)
        BY <3>1, <4>1 DEF DupVar, OptimizerInv
      <4> QED BY <4>2 DEF OnePass
    <3>2. CASE ~(DupVar /\ at <= Len(opt.code))
      BY <3>2 DEF OptimizerNext, DeadAssign, DupLabel, DupVar, ConstExp, DupGoto, RunPass, OnePass
    <3> QED BY <3>1, <3>2
  <2> QED BY <2>2, <2>3 DEF OptimizerInv
<1> QED BY <1>1, OptimizerInvariant, PTL DEF OptimizerSpec

-----------------------------------------------------------------------------
(* Calls. *)

IsSequence(s) == \E S : s \in Seq(S)

LEMMA AppendFront ==
  ASSUME NEW s, IsSequence(s)
  PROVE  /\ Len(s) \in Nat /\ DOMAIN s = 1 .. Len(s) /\ (s = << >> <=> Len(s) = 0)
         /\ \A v : /\ IsSequence(Append(s, v)) /\ Len(Append(s, v)) = Len(s) + 1
                   /\ Append(s, v)[Len(s) + 1] = v
                   /\ \A i \in DOMAIN s : Append(s, v)[i] = s[i]
         /\ s # << >> => /\ IsSequence(Front(s)) /\ Len(Front(s)) = Len(s) - 1
                         /\ \A i \in 1 .. Len(s) - 1 : Front(s)[i] = s[i]
                         /\ Last(s) = s[Len(s)]
<1>1. PICK S : s \in Seq(S)
  BY DEF IsSequence
<1>2. Len(s) \in Nat /\ DOMAIN s = 1 .. Len(s) /\ (s = << >> <=> Len(s) = 0)
  BY <1>1
<1>3. ASSUME NEW v
      PROVE  /\ IsSequence(Append(s, v)) /\ Len(Append(s, v)) = Len(s) + 1
             /\ Append(s, v)[Len(s) + 1] = v
             /\ \A i \in DOMAIN s : Append(s, v)[i] = s[i]
  <2>1. PICK T : T = S \cup {v}
    OBVIOUS
  <2>2. s \in Seq(T) /\ v \in T
    BY <1>1, <2>1
  <2>3. Append(s, v) \in Seq(T)
    BY <2>2
  <2> QED BY <2>2, <2>3 DEF IsSequence
<1>4. ASSUME s # << >>
      PROVE  /\ IsSequence(Front(s)) /\ Len(Front(s)) = Len(s) - 1
             /\ \A i \in 1 .. Len(s) - 1 : Front(s)[i] = s[i]
             /\ Last(s) = s[Len(s)]
  <2>1. Front(s) = [i \in 1 .. Len(s) - 1 |-> s[i]]
    BY <1>1, <1>2, <1>4 DEF Front
  <2>2. Front(s) \in Seq(S) /\ Len(Front(s)) = Len(s) - 1
    BY <1>1, <1>2, <1>4, <2>1
  <2> QED BY <2>1, <2>2 DEF IsSequence, Last
<1> QED BY <1>2, <1>3, <1>4

\* The next code with n arguments waiting for it.
Waiting(codes, i, n) ==
  /\ i \in 1 .. Len(codes) + 1
  /\ i \in DOMAIN codes => ~Silent(codes[i])
  /\ IF i \in DOMAIN codes /\ codes[i].op = "Param"
     THEN ParamsAfter(codes, i - 1, n) ELSE ArgsBefore(codes, i, n)

\* Where no argument has just been passed and no parameter comes next nobody
\* waits.
LEMMA NobodyWaits ==
  ASSUME NEW S, NEW codes \in Seq(S), CallsAreWhole(codes),
         NEW i \in 1 .. Len(codes) + 1,
         i > 1 => codes[i - 1].op # "Arg",
         i \in DOMAIN codes => codes[i].op # "Param"
  PROVE  Waiting(codes, Rest(codes, i), 0)
<1>1. DOMAIN codes = 1 .. Len(codes) /\ Len(codes) \in Nat
  OBVIOUS
<1>2. PICK j : j = Rest(codes, i) /\ IsRest(codes, i, j)
  BY RestIs
<1>3. j \in 1 .. Len(codes) + 1 /\ j >= i /\ (j \in DOMAIN codes => ~Silent(codes[j]))
  BY <1>2 DEF IsRest
<1>4. ASSUME j > i PROVE Silent(codes[j - 1])
  <2>1. j - 1 \in i .. j - 1 /\ j - 1 \in DOMAIN codes
    BY <1>1, <1>3, <1>4
  <2> QED BY <1>2, <2>1 DEF IsRest
<1>5. ASSUME j \in DOMAIN codes, codes[j].op = "Param" PROVE FALSE
  <2>1. j > 1 /\ codes[j - 1].op \in {"Func", "Param"}
    BY <1>5 DEF CallsAreWhole
  <2>2. j > i
    BY <1>3, <1>5
  <2> QED BY <1>4, <2>1, <2>2 DEF Silent
<1>6. j > 1 => codes[j - 1].op # "Arg"
  BY <1>3, <1>4 DEF Silent
<1>7. ArgsBefore(codes, j, 0)
  BY <1>3, <1>6 DEF ArgsBefore
<1> QED BY <1>2, <1>3, <1>5, <1>7 DEF Waiting

\* Behind what neither passes nor takes an argument.
LEMMA WaitsBehind ==
  ASSUME NEW S, NEW codes \in Seq(S), CallsAreWhole(codes),
         NEW i \in DOMAIN codes, codes[i].op \notin {"Arg", "Func", "Param"}
  PROVE  Waiting(codes, Rest(codes, i + 1), 0)
<1>1. DOMAIN codes = 1 .. Len(codes) /\ Len(codes) \in Nat
  OBVIOUS
<1>2. ASSUME i + 1 \in DOMAIN codes PROVE codes[i + 1].op # "Param"
  BY <1>1, <1>2 DEF CallsAreWhole
<1>3. i + 1 \in 1 .. Len(codes) + 1 /\ i + 1 > 1 /\ (i + 1) - 1 = i
  BY <1>1
<1> QED BY <1>2, <1>3, NobodyWaits

\* At a label.
LEMMA WaitsAtTarget ==
  ASSUME NEW S, NEW codes \in Seq(S), CallsAreWhole(codes), NEW l, Places(l, codes) # {}
  PROVE  Waiting(codes, TargetOf(l, codes), 0)
<1>1. DOMAIN codes = 1 .. Len(codes) /\ Len(codes) \in Nat
  OBVIOUS
<1>2. PICK i \in Places(l, codes) : TargetOf(l, codes) = Rest(codes, i)
  BY DEF TargetOf
<1>3. i \in DOMAIN codes /\ codes[i].op = "Label"
  BY DEF Places, Label
<1>4. ASSUME i > 1 PROVE codes[i - 1].op # "Arg"
  <2>1. i - 1 \in DOMAIN codes /\ (i - 1) + 1 = i
    BY <1>1, <1>3, <1>4
  <2> QED BY <1>3, <2>1 DEF CallsAreWhole
<1> QED BY <1>1, <1>2, <1>3, <1>4, NobodyWaits

\* At the beginning of a function all its parameters are waited for.
LEMMA WaitsAtEntry ==
  ASSUME NEW S, NEW codes \in Seq(S), CallsAreWhole(codes), NEW f, Entries(f, codes) # {},
         NEW n \in Nat, \A e \in Entries(f, codes) : ParamsAfter(codes, e, n)
  PROVE  Waiting(codes, BodyOf(f, codes), n)
<1>1. DOMAIN codes = 1 .. Len(codes) /\ Len(codes) \in Nat
  OBVIOUS
<1>2. PICK e \in Entries(f, codes) : BodyOf(f, codes) = Rest(codes, 1 + e)
  BY DEF BodyOf
<1>3. e \in DOMAIN codes /\ codes[e].op = "Func" /\ ParamsAfter(codes, e, n) /\ 1 + e = e + 1
  BY <1>1 DEF Entries, Func
<1>4. CASE n = 0
  <2>1. e + 1 \in DOMAIN codes => codes[e + 1].op # "Param"
    BY <1>1, <1>3, <1>4 DEF ParamsAfter
  <2> QED BY <1>1, <1>2, <1>3, <1>4, <2>1, NobodyWaits
<1>5. CASE n > 0
  <2>1. e + 1 \in DOMAIN codes /\ codes[e + 1].op = "Param"
    BY <1>1, <1>3, <1>5 DEF ParamsAfter
  <2>2. ~Silent(codes[e + 1])
    BY <2>1 DEF Silent
  <2>3. Rest(codes, e + 1) = e + 1
    BY <1>1, <1>3, <2>2, RestHere
  <2>4. (e + 1) - 1 = e /\ e + 1 \in 1 .. Len(codes) + 1
    BY <1>1, <1>3
  <2> QED BY <1>2, <1>3, <2>1, <2>2, <2>3, <2>4 DEF Waiting
<1> QED BY <1>4, <1>5

\* An argument more.
LEMMA WaitsBehindArg ==
  ASSUME NEW S, NEW codes \in Seq(S), CallsAreWhole(codes), NEW i \in DOMAIN codes,
         codes[i].op = "Arg", NEW n \in Nat, Waiting(codes, i, n)
  PROVE  Waiting(codes, Rest(codes, i + 1), n + 1)
<1>1. DOMAIN codes = 1 .. Len(codes) /\ Len(codes) \in Nat
  OBVIOUS
<1>2. i + 1 \in DOMAIN codes /\ codes[i + 1].op \in {"Arg", "Call"}
  BY <1>1 DEF CallsAreWhole
<1>3. Rest(codes, i + 1) = i + 1
  BY <1>1, <1>2, RestHere DEF Silent
<1>4. ArgsBefore(codes, i, n)
  BY DEF Waiting
<1>5. ArgsBefore(codes, i + 1, n + 1)
  <2>1. (i + 1) - (n + 1) = i - n /\ (i + 1) - 1 = i /\ (i + 1) - (n + 1) - 1 = i - n - 1
    BY <1>1
  <2>2. \A k \in i - n .. i : k \in i - n .. i - 1 \/ k = i
    BY <1>1
  <2> QED BY <1>4, <2>1, <2>2 DEF ArgsBefore
<1> QED BY <1>1, <1>2, <1>3, <1>5 DEF Waiting, Silent

\* A parameter less.
LEMMA WaitsBehindParam ==
  ASSUME NEW S, NEW codes \in Seq(S), CallsAreWhole(codes), NEW i \in DOMAIN codes,
         codes[i].op = "Param", NEW n \in Nat, Waiting(codes, i, n)
  PROVE  n > 0 /\ Waiting(codes, Rest(codes, i + 1), n - 1)
<1>1. DOMAIN codes = 1 .. Len(codes) /\ Len(codes) \in Nat
  OBVIOUS
<1>2. ParamsAfter(codes, i - 1, n)
  BY DEF Waiting
<1>3. n > 0
  <2> SUFFICES ASSUME n = 0 PROVE FALSE
    OBVIOUS
  <2>1. (i - 1) + n < Len(codes) /\ (i - 1) + n + 1 = i
    BY <1>1
  <2> QED BY <1>2, <2>1 DEF ParamsAfter
<1>4. ParamsAfter(codes, i, n - 1)
  <2>1. i + (n - 1) = (i - 1) + n /\ i + (n - 1) + 1 = (i - 1) + n + 1
    BY <1>1
  <2>2. \A k \in i + 1 .. i + (n - 1) : k \in (i - 1) + 1 .. (i - 1) + n
    BY <1>1
  <2> QED BY <1>2, <2>1, <2>2 DEF ParamsAfter
<1>5. CASE n = 1
  <2>1. ASSUME i + 1 \in DOMAIN codes PROVE codes[i + 1].op # "Param"
    BY <1>1, <1>4, <1>5, <2>1 DEF ParamsAfter
  <2>2. i + 1 \in 1 .. Len(codes) + 1 /\ (i + 1) - 1 = i
    BY <1>1
  <2> QED BY <1>3, <1>5, <2>1, <2>2, NobodyWaits
<1>6. CASE n > 1
  <2>1. i + 1 \in DOMAIN codes /\ codes[i + 1].op = "Param"
    BY <1>1, <1>4, <1>6 DEF ParamsAfter
  <2>2. Rest(codes, i + 1) = i + 1
    BY <1>1, <2>1, RestHere DEF Silent
  <2>3. (i + 1) - 1 = i
    BY <1>1
  <2> QED BY <1>1, <1>3, <1>4, <2>1, <2>2, <2>3 DEF Waiting, Silent
<1> QED BY <1>3, <1>5, <1>6

\* Only ARG, CALL and PARAM are come to with arguments waiting, a CALL with as
\* many as the function takes.
LEMMA WaitsHere ==
  ASSUME NEW S, NEW codes \in Seq(S), CallsAreWhole(codes), NEW i, NEW n \in Nat,
         Waiting(codes, i, n)
  PROVE  /\ n > 0 => i \in DOMAIN codes /\ codes[i].op \in {"Arg", "Call", "Param"}
         /\ i \in DOMAIN codes /\ codes[i].op = "Call" =>
              \A e \in Entries(codes[i].func, codes) : ParamsAfter(codes, e, n)
<1>1. DOMAIN codes = 1 .. Len(codes) /\ Len(codes) \in Nat
  OBVIOUS
<1>2. ASSUME n > 0, ~(i \in DOMAIN codes /\ codes[i].op = "Param")
      PROVE  i \in DOMAIN codes /\ codes[i].op \in {"Arg", "Call"}
  <2>1. i \in 1 .. Len(codes) + 1 /\ ArgsBefore(codes, i, n)
    BY <1>2 DEF Waiting
  <2>2. i - 1 \in DOMAIN codes /\ i - 1 \in i - n .. i - 1 /\ (i - 1) + 1 = i
    BY <1>1, <1>2, <2>1 DEF ArgsBefore
  <2>3. codes[i - 1].op = "Arg"
    BY <2>1, <2>2 DEF ArgsBefore
  <2>4. i - 1 < Len(codes) /\ codes[i].op \in {"Arg", "Call"}
    BY <2>2, <2>3 DEF CallsAreWhole
  <2> QED BY <1>1, <2>1, <2>4
<1>3. ASSUME i \in DOMAIN codes, codes[i].op = "Call"
      PROVE  \A e \in Entries(codes[i].func, codes) : ParamsAfter(codes, e, n)
  <2>1. ArgsBefore(codes, i, n)
    BY <1>3 DEF Waiting
  <2>2. PICK m \in 0 .. i : /\ ArgsBefore(codes, i, m)
                            /\ \A e \in Entries(codes[i].func, codes) : ParamsAfter(codes, e, m)
    BY <1>3 DEF CallsAreWhole
  <2>3. ASSUME NEW x \in Nat, NEW y \in Nat, ArgsBefore(codes, i, x), ArgsBefore(codes, i, y)
        PROVE  ~(x < y)
    <3> SUFFICES ASSUME x < y PROVE FALSE
      OBVIOUS
    <3>1. i - x - 1 \in i - y .. i - 1 /\ i - x > 1
      BY <1>1, <1>3, <2>3 DEF ArgsBefore
    <3> QED BY <2>3, <3>1 DEF ArgsBefore
  <2>4. m = n
    BY <1>1, <2>1, <2>2, <2>3
  <2> QED BY <2>2, <2>4
<1> QED BY <1>2, <1>3

\* Len(args) is what the next code waits for, and every suspended activation
\* is at its CALL.
CallsInv ==
  /\ code \in Seq(Codes) /\ CallsAreWhole(code)
  /\ IsSequence(args) /\ Waiting(code, pc, Len(args))
  /\ IsSequence(frames)
  /\ \A i \in DOMAIN frames : frames[i].pc \in DOMAIN code /\ code[frames[i].pc].op = "Call"

\* The machine between calls.
LEMMA CallsInvStays ==
  ASSUME CallsInv, UNCHANGED <<code, args, frames>>, Waiting(code, pc', Len(args))
  PROVE  CallsInv'
BY DEF CallsInv

LEMMA InitCalls == MachineInit /\ code \in Seq(Codes) /\ CallsAreWhole(code) => CallsInv
<1> SUFFICES ASSUME MachineInit, code \in Seq(Codes), CallsAreWhole(code) PROVE CallsInv
  OBVIOUS
<1>1. \A e \in Entries("main", code) : ParamsAfter(code, e, 0)
  BY DEF CallsAreWhole
<1>2. Waiting(code, BodyOf("main", code), 0)
  BY <1>1, WaitsAtEntry DEF MachineInit
<1>3. args = << >> /\ frames = << >> /\ pc = BodyOf("main", code)
  BY DEF MachineInit
<1>4. IsSequence(<< >>)
  BY DEF IsSequence
<1> QED BY <1>2, <1>3, <1>4 DEF CallsInv

LEMMA CallsStep ==
  ASSUME CallsInv, MachineNext
  PROVE  CallsInv'
<1> DEFINE n == Len(args)
<1>0. /\ n \in Nat /\ (args = << >> <=> n = 0)
      /\ pc \in DOMAIN code => Here = code[pc]
      /\ pc \notin DOMAIN code => Here.op = "End"
      /\ Waiting(code, pc, n)
  BY AppendFront DEF CallsInv, Here
<1>1. ASSUME Here.op \notin {"Arg", "Call", "Param"} PROVE n = 0
  BY <1>0, <1>1, WaitsHere DEF CallsInv
<1>2. ASSUME Here.op \notin {"Arg", "Call", "Param", "Func", "End"}
      PROVE  Waiting(code, Rest(code, pc + 1), n)
  <2>1. pc \in DOMAIN code /\ code[pc].op \notin {"Arg", "Func", "Param"}
    BY <1>0, <1>2
  <2> QED BY <1>1, <1>2, <2>1, WaitsBehind DEF CallsInv
<1>3. ASSUME NEW l, Places(l, code) # {}, Here.op \notin {"Arg", "Call", "Param"}
      PROVE  Waiting(code, TargetOf(l, code), n)
  BY <1>1, <1>3, WaitsAtTarget DEF CallsInv
<1> HIDE DEF n
<1>4. CASE RunAssign
  BY <1>2, <1>4, CallsInvStays DEF RunAssign, At, Advance, n
<1>5. CASE RunArith
  BY <1>2, <1>5, CallsInvStays DEF RunArith, At, Advance, ArithKinds, n
<1>6. CASE RunGoto
  <2>1. Here.op = "Goto" /\ Places(Here.label, code) # {} /\ pc' = TargetOf(Here.label, code)
    BY <1>6 DEF RunGoto, At, Executable
  <2> QED BY <1>3, <1>6, <2>1, CallsInvStays DEF RunGoto, n
<1>7. CASE RunBranch
  <2>1. /\ Here.op = "Branch" /\ Places(Here.label, code) # {}
        /\ pc' \in {TargetOf(Here.label, code), Rest(code, pc + 1)}
    BY <1>7 DEF RunBranch, At, Executable
  <2>2. Waiting(code, pc', n)
    BY <1>2, <1>3, <2>1
  <2> QED BY <1>7, <2>2, CallsInvStays DEF RunBranch, n
<1>8. CASE RunRead
  BY <1>2, <1>8, CallsInvStays DEF RunRead, At, Advance, n
<1>9. CASE RunWrite
  BY <1>2, <1>9, CallsInvStays DEF RunWrite, At, Advance, n
<1>10. CASE \E base \in Bases : RunDec(base)
  <2>1. /\ Here.op = "Dec" /\ pc' = Rest(code, pc + 1) /\ UNCHANGED <<code, args, frames>>
    BY <1>10 DEF RunDec, At, Advance
  <2> QED BY <1>2, <2>1, CallsInvStays DEF n
<1>11. CASE RunArg
  <2>1. Here.op = "Arg" /\ pc' = Rest(code, pc + 1) /\ args' = Append(args, Val(Here.arg))
    BY <1>11 DEF RunArg, At, Advance
  <2>2. pc \in DOMAIN code /\ code[pc].op = "Arg"
    BY <1>0, <2>1
  <2>3. Waiting(code, Rest(code, pc + 1), n + 1)
    BY <1>0, <2>2, WaitsBehindArg DEF CallsInv
  <2>4. IsSequence(args') /\ Len(args') = n + 1
    BY <2>1, AppendFront DEF CallsInv, n
  <2>5. UNCHANGED <<code, frames>>
    BY <1>11 DEF RunArg, Advance
  <2> QED BY <2>1, <2>3, <2>4, <2>5 DEF CallsInv
<1>12. CASE RunCall
  <2>1. /\ Here.op = "Call" /\ Entries(Here.func, code) # {} /\ pc' = BodyOf(Here.func, code)
        /\ frames' = Append(frames, [data |-> data, pc |-> pc]) /\ UNCHANGED <<code, args>>
    BY <1>12 DEF RunCall, At, Executable
  <2>2. pc \in DOMAIN code /\ code[pc].op = "Call" /\ Here = code[pc]
    BY <1>0, <2>1
  <2>3. \A e \in Entries(Here.func, code) : ParamsAfter(code, e, n)
    BY <1>0, <2>2, WaitsHere DEF CallsInv
  <2>4. Waiting(code, pc', n)
    BY <1>0, <2>1, <2>3, WaitsAtEntry DEF CallsInv
  <2>5. /\ IsSequence(frames') /\ DOMAIN frames' = 1 .. Len(frames) + 1
        /\ Len(frames) \in Nat /\ DOMAIN frames = 1 .. Len(frames)
        /\ frames'[Len(frames) + 1].pc = pc
        /\ \A i \in DOMAIN frames : frames'[i] = frames[i]
    BY <2>1, AppendFront DEF CallsInv
  <2>6. ASSUME NEW i \in DOMAIN frames'
        PROVE  frames'[i].pc \in DOMAIN code /\ code[frames'[i].pc].op = "Call"
    <3>1. i \in DOMAIN frames \/ i = Len(frames) + 1
      BY <2>5
    <3> QED BY <2>2, <2>5, <3>1 DEF CallsInv
  <2> QED BY <2>1, <2>4, <2>5, <2>6 DEF CallsInv, n
<1>13. CASE RunParam
  <2>1. /\ Here.op = "Param" /\ pc' = Rest(code, pc + 1) /\ args' = Front(args)
        /\ args # << >> /\ UNCHANGED <<code, frames>>
    BY <1>13 DEF RunParam, At, Advance, Executable
  <2>2. pc \in DOMAIN code /\ code[pc].op = "Param"
    BY <1>0, <2>1
  <2>3. Waiting(code, Rest(code, pc + 1), n - 1)
    BY <1>0, <2>2, WaitsBehindParam DEF CallsInv
  <2>4. IsSequence(args') /\ Len(args') = n - 1
    BY <2>1, AppendFront DEF CallsInv, n
  <2> QED BY <2>1, <2>3, <2>4 DEF CallsInv
<1>14. CASE RunReturn
  <2>1. /\ Here.op = "Return" /\ frames # << >> /\ pc' = Rest(code, Last(frames).pc + 1)
        /\ frames' = Front(frames) /\ UNCHANGED <<code, args>>
    BY <1>14 DEF RunReturn, At
  <2>2. /\ IsSequence(frames') /\ DOMAIN frames' = 1 .. Len(frames) - 1
        /\ Len(frames) \in DOMAIN frames /\ Last(frames) = frames[Len(frames)]
        /\ \A i \in DOMAIN frames' : i \in DOMAIN frames /\ frames'[i] = frames[i]
    <3>1. IsSequence(frames)
      BY DEF CallsInv
    <3>2. Len(frames) \in Nat /\ DOMAIN frames = 1 .. Len(frames) /\ Len(frames) > 0
      BY <2>1, <3>1, AppendFront
    <3>3. /\ IsSequence(frames') /\ Len(frames') = Len(frames) - 1
          /\ \A i \in 1 .. Len(frames) - 1 : frames'[i] = frames[i]
          /\ Last(frames) = frames[Len(frames)]
      BY <2>1, <3>1, AppendFront
    <3>4. DOMAIN frames' = 1 .. Len(frames')
      BY <3>3, AppendFront
    <3> QED BY <3>2, <3>3, <3>4
  <2>3. Last(frames).pc \in DOMAIN code /\ code[Last(frames).pc].op = "Call"
    BY <2>2 DEF CallsInv
  <2>4. Waiting(code, pc', n)
    BY <1>1, <2>1, <2>3, WaitsBehind DEF CallsInv
  <2> QED BY <2>1, <2>2, <2>4 DEF CallsInv, n
<1>15. CASE Halt
  BY <1>0, <1>15, CallsInvStays DEF Halt, n
<1> QED BY <1>4, <1>5, <1>6, <1>7, <1>8, <1>9, <1>10, <1>11, <1>12, <1>13, <1>14, <1>15
        DEF MachineNext, OtherStep

\* In every program whose calls are whole, however deep they go, arguments go
\* straight to parameters (asm.c, is_incall; ir.c, 890-908).
THEOREM ArgumentsGoStraight ==
  MachineSpec /\ code \in Seq(Codes) /\ CallsAreWhole(code) => []ArgsGoStraightToParams
<1>1. CallsInv => ArgsGoStraightToParams
  <2> SUFFICES ASSUME CallsInv
               PROVE  /\ args # << >> => Here.op \in {"Arg", "Call", "Param"}
                      /\ Here.op = "Param" => args # << >>
                      /\ Here.op = "Call" =>
                           \A e \in Entries(Here.func, code) : ParamsAfter(code, e, Len(args))
    BY DEF ArgsGoStraightToParams
  <2>1. /\ Len(args) \in Nat /\ (args = << >> <=> Len(args) = 0)
        /\ pc \in DOMAIN code => Here = code[pc]
        /\ pc \notin DOMAIN code => Here.op = "End"
        /\ Waiting(code, pc, Len(args))
    BY AppendFront DEF CallsInv, Here
  <2>2. args # << >> => Here.op \in {"Arg", "Call", "Param"}
    BY <2>1, WaitsHere DEF CallsInv
  <2>3. Here.op = "Param" => args # << >>
    BY <2>1, WaitsBehindParam DEF CallsInv
  <2>4. Here.op = "Call" => \A e \in Entries(Here.func, code) : ParamsAfter(code, e, Len(args))
    BY <2>1, WaitsHere DEF CallsInv
  <2> QED BY <2>2, <2>3, <2>4
<1>2. CallsInv /\ [MachineNext]_machineVars => CallsInv'
  <2>1. ASSUME CallsInv, UNCHANGED machineVars PROVE CallsInv'
    BY <2>1 DEF machineVars, registers, CallsInv
  <2> QED BY <2>1, CallsStep
<1> QED BY <1>1, <1>2, InitCalls, PTL DEF MachineSpec

-----------------------------------------------------------------------------
(* Types. *)

TypesInv ==
  /\ code \in Seq(Codes) /\ status \in {"running", "halted"} /\ MachineTypeOK
  /\ IsSequence(frames)

LEMMA RestTyped ==
  ASSUME NEW S, NEW codes \in Seq(S), NEW i \in 1 .. Len(codes) + 1
  PROVE  /\ Rest(codes, i) \in 1 .. Len(codes) + 1
         /\ Rest(codes, i) \in DOMAIN codes => ~Silent(codes[Rest(codes, i)])
<1>1. IsRest(codes, i, Rest(codes, i))
  BY RestIs
<1> QED BY <1>1 DEF IsRest

LEMMA EntryTyped ==
  ASSUME NEW S, NEW codes \in Seq(S), NEW f, Entries(f, codes) # {}
  PROVE  /\ BodyOf(f, codes) \in 1 .. Len(codes) + 1
         /\ BodyOf(f, codes) \in DOMAIN codes => ~Silent(codes[BodyOf(f, codes)])
<1>1. PICK e \in Entries(f, codes) : BodyOf(f, codes) = Rest(codes, 1 + e)
  BY DEF BodyOf
<1>2. 1 + e \in 1 .. Len(codes) + 1
  BY DEF Entries
<1> QED BY <1>1, <1>2, RestTyped

LEMMA TargetTyped ==
  ASSUME NEW S, NEW codes \in Seq(S), NEW l, Places(l, codes) # {}
  PROVE  /\ TargetOf(l, codes) \in 1 .. Len(codes) + 1
         /\ TargetOf(l, codes) \in DOMAIN codes => ~Silent(codes[TargetOf(l, codes)])
<1>1. PICK e \in Places(l, codes) : TargetOf(l, codes) = Rest(codes, e)
  BY DEF TargetOf
<1>2. e \in 1 .. Len(codes) + 1
  BY DEF Places
<1> QED BY <1>1, <1>2, RestTyped

LEMMA KeepTyped ==
  ASSUME NEW env, IsEnv(env), NEW x \in Nat, NEW v \in Int
  PROVE  IsEnv(Keep(env, x, v))
BY DEF IsEnv, Keep, With

\* What is read is a word.
LEMMA ReadTyped ==
  ASSUME TypesInv, Executable, NEW x \in Operands, x \in Reads
  PROVE  Val(x) \in Int
<1>1. HasValue(x)
  BY DEF Executable
<1>2. x.kind \in {"Variable", "Deref", "Ref", "Constant"} /\ (x.kind = "Constant" => x.value \in Int)
  BY DEF Operands, VarOperands, DerefOperands, RefOperands, ConstOperands
<1> QED BY <1>1, <1>2 DEF HasValue, Val, Value, TypesInv, MachineTypeOK, IsEnv

\* The machine is where Here is.
LEMMA HereTyped ==
  ASSUME TypesInv, Here.op \notin {"End", "Nothing"}
  PROVE  pc \in DOMAIN code /\ Here = code[pc] /\ Here \in TextCodes
<1>1. pc \in DOMAIN code /\ Here = code[pc] /\ code[pc] \in Codes
  BY DEF Here, TypesInv
<1> QED BY <1>1 DEF Codes

\* A step of one activation: the next code follows, or a label.
MovesOn ==
  /\ pc' = Rest(code, pc + 1) \/ \E l : Places(l, code) # {} /\ pc' = TargetOf(l, code)
  /\ pc \in DOMAIN code
  /\ UNCHANGED <<status, code, frames, result>>

LEMMA MovesTyped ==
  ASSUME TypesInv, MovesOn,
         \A s \in {inp', args', out'} : s \in Seq(Int),
         IsEnv(data'),
         \A a \in DOMAIN blocks' : a \in Int /\ blocks'[a].depth \in 0 .. Len(frames),
         \A a \in DOMAIN mem' : a \in DOMAIN blocks' /\ mem'[a] \in Int
  PROVE  TypesInv'
<1>1. code \in Seq(Codes) /\ pc + 1 \in 1 .. Len(code) + 1
  BY DEF TypesInv, MovesOn
<1>2. pc' \in 1 .. Len(code) + 1 /\ (pc' \in DOMAIN code => ~Silent(code[pc']))
  BY <1>1, RestTyped, TargetTyped DEF MovesOn
<1> QED BY <1>1, <1>2 DEF TypesInv, MachineTypeOK, MovesOn

LEMMA AssignTyped == ASSUME TypesInv, RunAssign PROVE TypesInv'
<1>1. Here.op = "Assign" /\ Executable /\ MovesOn
  BY HereTyped DEF RunAssign, At, Advance, MovesOn
<1>2. Here \in TextCodes
  BY <1>1, HereTyped
<1>3. Here.left \in Targets /\ Here.right \in Operands
  BY <1>1, <1>2, CodeFields DEF ArithKinds
<1>4. Val(Here.right) \in Int
  BY <1>1, <1>3, ReadTyped DEF Reads, ArithKinds
<1>5. CASE Here.left.kind = "Deref"
  <2>1. mem' = With(mem, data[Here.left.var], Val(Here.right)) /\ data' = data
    BY <1>5 DEF RunAssign
  <2>2. data[Here.left.var] \in DOMAIN blocks
    BY <1>1, <1>5 DEF Executable, CanTake
  <2>3. \A a \in DOMAIN mem' : a \in DOMAIN blocks /\ mem'[a] \in Int
    BY <1>4, <2>1, <2>2 DEF With, TypesInv, MachineTypeOK
  <2> QED BY <1>1, <2>1, <2>3, MovesTyped DEF RunAssign, TypesInv, MachineTypeOK
<1>6. CASE Here.left.kind # "Deref"
  <2>1. data' = Keep(data, Here.left.var, Val(Here.right)) /\ mem' = mem
    BY <1>6 DEF RunAssign
  <2>2. Here.left.var \in Nat
    BY <1>3 DEF Targets, VarOperands, DerefOperands
  <2>3. IsEnv(data')
    BY <1>4, <2>1, <2>2, KeepTyped DEF TypesInv, MachineTypeOK
  <2> QED BY <1>1, <2>1, <2>3, MovesTyped DEF RunAssign, TypesInv, MachineTypeOK
<1> QED BY <1>5, <1>6

LEMMA ArithTyped == ASSUME TypesInv, RunArith PROVE TypesInv'
<1>1. Here.op \in ArithKinds /\ Executable /\ MovesOn
  BY HereTyped DEF RunArith, At, Advance, MovesOn, ArithKinds
<1>2. Here \in TextCodes
  BY <1>1, HereTyped DEF ArithKinds
<1>3. Here.target \in Nat /\ Here.op1 \in Operands /\ Here.op2 \in Operands
  BY <1>1, <1>2, CodeFields DEF ArithKinds
<1>4. Here.op1 \in Reads /\ Here.op2 \in Reads
  BY <1>1 DEF Reads, ArithKinds
<1>5. Val(Here.op1) \in Int /\ Val(Here.op2) \in Int
  BY <1>1, <1>3, <1>4, ReadTyped
<1>6. Here.op = "Div" => Val(Here.op2) # 0
  BY <1>1 DEF Executable
<1>7. IsEnv(data')
  BY <1>1, <1>3, <1>5, <1>6, ArithIsInt, KeepTyped DEF RunArith, TypesInv, MachineTypeOK
<1> QED BY <1>1, <1>7, MovesTyped DEF RunArith, TypesInv, MachineTypeOK

LEMMA JumpTyped == ASSUME TypesInv, RunGoto \/ RunBranch PROVE TypesInv'
<1>1. Here.op \in {"Goto", "Branch"} /\ Executable /\ UNCHANGED <<status, code, frames, result>>
  BY DEF RunGoto, RunBranch, At
<1>2. pc \in DOMAIN code /\ Places(Here.label, code) # {}
  BY <1>1, HereTyped DEF Executable
<1>3. pc' \in {TargetOf(Here.label, code), Rest(code, pc + 1)}
  BY DEF RunGoto, RunBranch
<1>4. MovesOn
  BY <1>1, <1>2, <1>3 DEF MovesOn
<1> QED BY <1>4, MovesTyped DEF RunGoto, RunBranch, TypesInv, MachineTypeOK

LEMMA DecTyped == ASSUME TypesInv, NEW base \in Bases, RunDec(base) PROVE TypesInv'
<1>1. Here.op = "Dec" /\ MovesOn
  BY HereTyped DEF RunDec, At, Advance, MovesOn
<1>2. Here \in TextCodes
  BY <1>1, HereTyped
<1>3. Here.var \in Nat /\ Here.size \in Nat /\ base \in Int
  BY <1>1, <1>2, CodeFields, BasesAssumption DEF ArithKinds
<1>4. IsEnv(data')
  BY <1>3, KeepTyped DEF RunDec, TypesInv, MachineTypeOK
<1>5. /\ DOMAIN blocks' = DOMAIN blocks \cup (base .. base + Here.size - 1)
      /\ \A a \in DOMAIN blocks' :
           blocks'[a] = IF a \in base .. base + Here.size - 1
                        THEN [var |-> Here.var, depth |-> Len(frames)] ELSE blocks[a]
  BY DEF RunDec
<1>6. Len(frames) \in 0 .. Len(frames)
  BY AppendFront DEF TypesInv
<1>7. ASSUME NEW a \in DOMAIN blocks' PROVE a \in Int /\ blocks'[a].depth \in 0 .. Len(frames)
  <2>1. CASE a \in base .. base + Here.size - 1
    BY <1>3, <1>5, <1>6, <2>1
  <2>2. CASE a \notin base .. base + Here.size - 1
    BY <1>5, <2>2 DEF TypesInv, MachineTypeOK
  <2> QED BY <2>1, <2>2
<1>8. \A a \in DOMAIN mem' : a \in DOMAIN blocks' /\ mem'[a] \in Int
  BY <1>5 DEF RunDec, TypesInv, MachineTypeOK
<1> QED BY <1>1, <1>4, <1>7, <1>8, MovesTyped DEF RunDec, TypesInv, MachineTypeOK

LEMMA ReadWriteTyped == ASSUME TypesInv, RunRead \/ RunWrite PROVE TypesInv'
<1>1. CASE RunRead
  <2>1. Here.op = "Read" /\ Executable /\ MovesOn
    BY <1>1, HereTyped DEF RunRead, At, Advance, MovesOn
  <2>2. Here \in TextCodes /\ inp # << >>
    BY <2>1, HereTyped DEF Executable
  <2>3. Here.read \in Nat /\ inp \in Seq(Int)
    BY <2>1, <2>2, CodeFields DEF ArithKinds, TypesInv, MachineTypeOK
  <2>4. Head(inp) \in Int /\ Tail(inp) \in Seq(Int)
    BY <2>2, <2>3
  <2>5. IsEnv(data')
    BY <1>1, <2>3, <2>4, KeepTyped DEF RunRead, TypesInv, MachineTypeOK
  <2> QED BY <1>1, <2>1, <2>4, <2>5, MovesTyped DEF RunRead, TypesInv, MachineTypeOK
<1>2. CASE RunWrite
  <2>1. Here.op = "Write" /\ Executable /\ MovesOn
    BY <1>2, HereTyped DEF RunWrite, At, Advance, MovesOn
  <2>2. Here.write \in Operands
    BY <2>1, HereTyped, CodeFields DEF ArithKinds
  <2>3. Val(Here.write) \in Int
    BY <2>1, <2>2, ReadTyped DEF Reads, ArithKinds
  <2>4. out' \in Seq(Int)
    BY <1>2, <2>3 DEF RunWrite, TypesInv, MachineTypeOK
  <2> QED BY <1>2, <2>1, <2>4, MovesTyped DEF RunWrite, TypesInv, MachineTypeOK
<1> QED BY <1>1, <1>2

LEMMA ArgParamTyped == ASSUME TypesInv, RunArg \/ RunParam PROVE TypesInv'
<1>1. CASE RunArg
  <2>1. Here.op = "Arg" /\ Executable /\ MovesOn
    BY <1>1, HereTyped DEF RunArg, At, Advance, MovesOn
  <2>2. Here.arg \in Operands
    BY <2>1, HereTyped, CodeFields DEF ArithKinds
  <2>3. Val(Here.arg) \in Int
    BY <2>1, <2>2, ReadTyped DEF Reads, ArithKinds
  <2>4. args' \in Seq(Int)
    BY <1>1, <2>3 DEF RunArg, TypesInv, MachineTypeOK
  <2> QED BY <1>1, <2>1, <2>4, MovesTyped DEF RunArg, TypesInv, MachineTypeOK
<1>2. CASE RunParam
  <2>1. Here.op = "Param" /\ Executable /\ MovesOn
    BY <1>2, HereTyped DEF RunParam, At, Advance, MovesOn
  <2>2. Here.param \in Nat /\ args # << >> /\ args \in Seq(Int)
    BY <2>1, HereTyped, CodeFields DEF ArithKinds, Executable, TypesInv, MachineTypeOK
  <2>3. Last(args) \in Int /\ Front(args) \in Seq(Int)
    BY <2>2 DEF Last, Front
  <2>4. IsEnv(data')
    BY <1>2, <2>2, <2>3, KeepTyped DEF RunParam, TypesInv, MachineTypeOK
  <2> QED BY <1>2, <2>1, <2>3, <2>4, MovesTyped DEF RunParam, TypesInv, MachineTypeOK
<1> QED BY <1>1, <1>2

LEMMA CallTyped == ASSUME TypesInv, RunCall PROVE TypesInv'
<1>1. /\ Here.op = "Call" /\ Entries(Here.func, code) # {} /\ pc' = BodyOf(Here.func, code)
      /\ frames' = Append(frames, [data |-> data, pc |-> pc]) /\ data' = << >>
      /\ UNCHANGED <<status, code, inp, blocks, mem, args, out, result>>
  BY DEF RunCall, At, Executable
<1>2. pc \in DOMAIN code /\ code[pc].op = "Call"
  BY <1>1, HereTyped
<1>3. pc' \in 1 .. Len(code) + 1 /\ (pc' \in DOMAIN code => ~Silent(code[pc']))
  BY <1>1, EntryTyped DEF TypesInv
<1>4. IsSequence(frames)
  BY DEF TypesInv
<1>5. Len(frames) \in Nat /\ DOMAIN frames = 1 .. Len(frames)
  BY <1>4, AppendFront
<1>6. /\ IsSequence(frames') /\ Len(frames') = Len(frames) + 1
      /\ frames'[Len(frames) + 1] = [data |-> data, pc |-> pc]
      /\ \A i \in DOMAIN frames : frames'[i] = frames[i]
  BY <1>1, <1>4, AppendFront
<1>7. DOMAIN frames' = 1 .. Len(frames) + 1
  BY <1>6, AppendFront
<1>8. ASSUME NEW i \in DOMAIN frames'
      PROVE  /\ IsEnv(frames'[i].data)
             /\ frames'[i].pc \in DOMAIN code /\ code[frames'[i].pc].op = "Call"
  <2>1. i \in DOMAIN frames \/ i = Len(frames) + 1
    BY <1>5, <1>7
  <2> QED BY <1>2, <1>6, <2>1 DEF TypesInv, MachineTypeOK
<1>9. IsEnv(data')
  BY <1>1 DEF IsEnv
<1>10. \A a \in DOMAIN blocks : a \in Int /\ blocks[a].depth \in 0 .. Len(frames')
  <2>1. \A d \in 0 .. Len(frames) : d \in 0 .. Len(frames')
    BY <1>5, <1>6
  <2> QED BY <2>1 DEF TypesInv, MachineTypeOK
<1> QED BY <1>1, <1>3, <1>6, <1>8, <1>9, <1>10 DEF TypesInv, MachineTypeOK

LEMMA ReturnTyped == ASSUME TypesInv, RunReturn PROVE TypesInv'
<1> DEFINE f == Last(frames)
           mine == {a \in DOMAIN blocks : blocks[a].depth = Len(frames)}
<1>1. /\ Here.op = "Return" /\ Executable /\ frames # << >>
      /\ data' = Keep(f.data, code[f.pc].target, Val(Here.ret))
      /\ pc' = Rest(code, f.pc + 1) /\ frames' = Front(frames) /\ Discard(mine)
      /\ UNCHANGED <<status, code, inp, args, out, result>>
  BY DEF RunReturn, At
<1>2. Here.ret \in Operands
  BY <1>1, HereTyped, CodeFields DEF ArithKinds
<1>3. Val(Here.ret) \in Int
  BY <1>1, <1>2, ReadTyped DEF Reads, ArithKinds
<1>4. IsSequence(frames)
  BY DEF TypesInv
<1>5. Len(frames) \in Nat \ {0} /\ DOMAIN frames = 1 .. Len(frames) /\ f = frames[Len(frames)]
  BY <1>1, <1>4, AppendFront
<1>6. /\ IsSequence(frames') /\ Len(frames') = Len(frames) - 1
      /\ \A i \in 1 .. Len(frames) - 1 : frames'[i] = frames[i]
  BY <1>1, <1>4, AppendFront
<1>7. DOMAIN frames' = 1 .. Len(frames) - 1
  BY <1>6, AppendFront
<1>8. IsEnv(f.data) /\ f.pc \in DOMAIN code /\ code[f.pc].op = "Call"
  <2>1. \A i \in DOMAIN frames :
          IsEnv(frames[i].data) /\ frames[i].pc \in DOMAIN code /\ code[frames[i].pc].op = "Call"
    BY DEF TypesInv, MachineTypeOK
  <2>2. Len(frames) \in DOMAIN frames
    BY <1>5
  <2> HIDE DEF f
  <2> QED BY <1>5, <2>1, <2>2
<1>9. pc' \in 1 .. Len(code) + 1 /\ (pc' \in DOMAIN code => ~Silent(code[pc']))
  <2>1. f.pc + 1 \in 1 .. Len(code) + 1
    BY <1>8 DEF TypesInv
  <2> QED BY <1>1, <2>1, RestTyped DEF TypesInv
<1>10. code[f.pc].target \in Nat
  <2>1. code[f.pc] \in TextCodes
    BY <1>8 DEF TypesInv, Codes
  <2> QED BY <1>8, <2>1, CodeFields DEF ArithKinds
<1>11. IsEnv(data')
  BY <1>1, <1>3, <1>8, <1>10, KeepTyped
<1>12. \A i \in DOMAIN frames' :
         /\ IsEnv(frames'[i].data)
         /\ frames'[i].pc \in DOMAIN code /\ code[frames'[i].pc].op = "Call"
  <2>1. \A i \in DOMAIN frames :
          IsEnv(frames[i].data) /\ frames[i].pc \in DOMAIN code /\ code[frames[i].pc].op = "Call"
    BY DEF TypesInv, MachineTypeOK
  <2>2. \A i \in DOMAIN frames' : i \in DOMAIN frames /\ frames'[i] = frames[i]
    BY <1>5, <1>6, <1>7
  <2> QED BY <2>1, <2>2
<1>13. /\ DOMAIN blocks' = DOMAIN blocks \ mine /\ \A a \in DOMAIN blocks' : blocks'[a] = blocks[a]
       /\ DOMAIN mem' = DOMAIN mem \ mine /\ \A a \in DOMAIN mem' : mem'[a] = mem[a]
  BY <1>1 DEF Discard
<1>14. ASSUME NEW a \in DOMAIN blocks' PROVE a \in Int /\ blocks'[a].depth \in 0 .. Len(frames')
  <2>1. a \in DOMAIN blocks /\ a \notin mine /\ blocks'[a] = blocks[a]
    BY <1>13
  <2>2. a \in Int /\ blocks[a].depth \in 0 .. Len(frames) /\ blocks[a].depth # Len(frames)
    BY <2>1 DEF TypesInv, MachineTypeOK
  <2> QED BY <1>5, <1>6, <2>1, <2>2
<1>15. \A a \in DOMAIN mem' : a \in DOMAIN blocks' /\ mem'[a] \in Int
  BY <1>13 DEF TypesInv, MachineTypeOK
<1> QED BY <1>1, <1>6, <1>9, <1>11, <1>12, <1>14, <1>15 DEF TypesInv, MachineTypeOK

LEMMA HaltTyped == ASSUME TypesInv, Halt PROVE TypesInv'
<1>1. Here.op = "Return" /\ Executable
  BY DEF Halt, At
<1>2. Here.ret \in Operands
  BY <1>1, HereTyped, CodeFields DEF ArithKinds
<1>3. Val(Here.ret) \in Int
  BY <1>1, <1>2, ReadTyped DEF Reads, ArithKinds
<1> QED BY <1>3 DEF Halt, TypesInv, MachineTypeOK

LEMMA InitTyped == ASSUME MachineInit, code \in Seq(Codes) PROVE TypesInv
<1>1. pc \in 1 .. Len(code) + 1 /\ (pc \in DOMAIN code => ~Silent(code[pc]))
  BY EntryTyped DEF MachineInit
<1>2. IsSequence(frames) /\ DOMAIN frames = {} /\ DOMAIN data = {} /\ DOMAIN mem = {} /\ DOMAIN blocks = {}
  <2>1. << >> \in Seq({}) /\ DOMAIN << >> = {}
    OBVIOUS
  <2> QED BY <2>1 DEF MachineInit, IsSequence
<1>3. inp \in Seq(Int) /\ args \in Seq(Int) /\ out \in Seq(Int)
  <2>1. << >> \in Seq(Int)
    OBVIOUS
  <2> QED BY <2>1 DEF MachineInit
<1> QED BY <1>1, <1>2, <1>3 DEF TypesInv, MachineTypeOK, MachineInit, IsEnv

\* In every program no word outlives its block and no block its activation,
\* and everything that is read, written, passed or returned is a word
\* (irsim.cc 105-139, 378-398).
THEOREM MachineIsTyped == MachineSpec /\ code \in Seq(Codes) => []MachineTypeOK
<1>1. MachineInit /\ code \in Seq(Codes) => TypesInv
  BY InitTyped
<1>2. TypesInv /\ [MachineNext]_machineVars => TypesInv'
  <2>1. ASSUME TypesInv, UNCHANGED machineVars PROVE TypesInv'
    BY <2>1 DEF machineVars, registers, TypesInv, MachineTypeOK
  <2>2. ASSUME TypesInv, MachineNext PROVE TypesInv'
    BY <2>2, AssignTyped, ArithTyped, JumpTyped, DecTyped, ReadWriteTyped, ArgParamTyped,
       CallTyped, ReturnTyped, HaltTyped
       DEF MachineNext, OtherStep
  <2> QED BY <2>1, <2>2
<1>3. TypesInv => MachineTypeOK
  BY DEF TypesInv
<1> QED BY <1>1, <1>2, <1>3, PTL DEF MachineSpec
=============================================================================
