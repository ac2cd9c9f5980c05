------------------------------ MODULE Optimize -------------------------------
(***************************************************************************)
(* The optimizer of the intermediate code (src/src/optimize.c), which a    *)
(* build with -DOPTIMIZE runs on every translated program.                 *)
(*                                                                         *)
(* A pass takes the state of the optimizer and returns the next one.  No   *)
(* code is ever taken out: it is marked, and a marked code is not printed. *)
(* Jumps hold label objects, and it is the names of these that are         *)
(* changed.  The three counts of a variable are those of the last          *)
(* optimizeDeadAssign, whatever the passes after it have changed.          *)
(*                                                                         *)
(* sound is history.  It records that the optimizer has only done what can *)
(* be justified, and no pass reads it.                                     *)
(***************************************************************************)
EXTENDS IrText, FiniteSets, SequencesExt

\* The variables that optimizeDeadAssign counts an assignment of.  Those that
\* arithmetic and PARAM assign are not among them.
CountedAssigns(c) ==
  CASE c.op = "Assign" -> {c.left.var}
    [] c.op = "Dec"    -> {c.var}
    [] c.op = "Call"   -> {c.target}
    [] c.op = "Read"   -> {c.read}
    [] OTHER           -> {}

\* The variables that a code gives a value, for the history only.
Defines(c) ==
  CASE c.op = "Assign" -> IF c.left.kind = "Deref" THEN {} ELSE {c.left.var}
    [] c.op \in ArithKinds -> {c.target}
    [] c.op = "Param"  -> {c.param}
    [] OTHER           -> CountedAssigns(c)

LiveCodes(o) == DOMAIN o.code \ o.ignore

LabelsOf(code) == {code[i].label : i \in {j \in DOMAIN code : code[j].op = "Label"}}

\* The first state for a translated program with n variables.  Nothing has
\* been counted yet.
Unoptimized(code, n) ==
  LET zero == [v \in 1 .. n |-> 0]
  IN [code |-> code, vars |-> 1 .. n, ignore |-> {}, name |-> [l \in LabelsOf(code) |-> l],
      assignTime |-> zero, usedTime |-> zero, usedCode |-> zero, sound |-> TRUE]

-----------------------------------------------------------------------------
(* optimizeDeadAssign *)

Uses(o, v, used) == Cardinality(UNION {{i} \X FieldsUsing(o.code[i], v) : i \in used})

\* Mutant: an argument is no use.
CountedMissesArgs(o) ==
  LET live == LiveCodes(o)
      Used(v) == {i \in live : o.code[i].op # "Arg" /\ FieldsUsing(o.code[i], v) # {}}
  IN [o EXCEPT
        !.assignTime = [v \in o.vars |-> Cardinality({i \in live : v \in CountedAssigns(o.code[i])})],
        !.usedTime   = [v \in o.vars |-> Uses(o, v, Used(v))],
        !.usedCode   = [v \in o.vars |-> IF Used(v) = {} THEN 0 ELSE Max(Used(v))]]

\* How often each variable is assigned and used, and where it is used last.
Counted(o) ==
  LET live == LiveCodes(o)
      Used(v) == {i \in live : FieldsUsing(o.code[i], v) # {}}
  IN [o EXCEPT
        !.assignTime = [v \in o.vars |-> Cardinality({i \in live : v \in CountedAssigns(o.code[i])})],
        !.usedTime   = [v \in o.vars |-> Uses(o, v, Used(v))],
        !.usedCode   = [v \in o.vars |-> IF Used(v) = {} THEN 0 ELSE Max(Used(v))]]

\* What a code computes into, for the codes that do nothing else.
OnlyComputes(c) ==
  CASE c.op = "Assign"       -> {c.left.var}
    [] c.op \in ArithKinds   -> {c.target}
    [] c.op = "Dec"          -> {c.var}
    [] OTHER                 -> {}

\* Mutant: one use is none.
WithoutRare(o) ==
  [o EXCEPT !.ignore = @ \cup
     {i \in DOMAIN o.code : \E v \in OnlyComputes(o.code[i]) : o.usedTime[v] <= 1}]

\* The variables have been counted.
WithoutDead(o) ==
  [o EXCEPT !.ignore = @ \cup
     {i \in DOMAIN o.code : \E v \in OnlyComputes(o.code[i]) : o.usedTime[v] = 0}]

optimizeDeadAssign(o) == WithoutDead(Counted(o))

-----------------------------------------------------------------------------
(* optimizeDupLabel *)

\* The label code before i with nothing but labels in between, the first one.
Leader(o, i) ==
  Min({j \in LiveCodes(o) :
         j <= i /\ \A k \in LiveCodes(o) : j <= k /\ k <= i => o.code[k].op = "Label"})

\* Mutant: a label disappears without taking the name of the other one.
KeepNames(o, lead, dups) == [o EXCEPT !.ignore = @ \cup dups]

\* A label that follows another one takes its name and disappears.  The
\* objects that were given its own name before do not follow.
DropLabels(o, lead, dups) ==
  LET NewName(l) == IF \E i \in dups : o.code[i].label = l
                    THEN o.name[o.code[lead[CHOOSE i \in dups : o.code[i].label = l]].label]
                    ELSE o.name[l]
      Jumps   == {o.code[i].label : i \in {j \in LiveCodes(o) : o.code[j].op \in {"Goto", "Branch"}}}
      Left(l) == NewName(l) = o.name[l] /\ \E i \in dups : o.name[o.code[i].label] = o.name[l]
  IN [o EXCEPT !.name = [l \in DOMAIN @ |-> NewName(l)],
               !.ignore = @ \cup dups,
               !.sound = @ /\ \A l \in Jumps : ~Left(l)]

optimizeDupLabel(o) ==
  LET labels == {i \in LiveCodes(o) : o.code[i].op = "Label"}
      lead   == [i \in labels |-> Leader(o, i)]
  IN DropLabels(o, lead, {i \in labels : lead[i] # i})

-----------------------------------------------------------------------------
(* optimizeDupVar *)

\* The operands into which a value may be put, the first choice first.
Receivers(c) ==
  CASE c.op = "Assign" -> <<"right">>
    [] c.op \in ArithKinds \cup {"Branch"} -> <<"op1", "op2">>
    [] c.op = "Return" -> <<"ret">>
    [] c.op = "Arg"    -> <<"arg">>
    [] c.op = "Write"  -> <<"write">>
    [] OTHER           -> << >>

OnlyDefinedBy(o, i, v) == \A k \in LiveCodes(o) : v \in Defines(o.code[k]) => k = i

\* The value of v is the constant of the assignment i wherever it has one.
IsConstant(o, i, v, value) == value.kind = "Constant" /\ OnlyDefinedBy(o, i, v)

\* It is the address of a block that is made right before i and nowhere else.
IsNewBlock(o, i, v, value) ==
  /\ value.kind = "Ref" /\ OnlyDefinedBy(o, i, v)
  /\ \E d \in LiveCodes(o) :
       /\ d < i /\ o.code[d].op = "Dec" /\ OnlyDefinedBy(o, d, value.var)
       /\ \A k \in LiveCodes(o) : ~(d < k /\ k < i)

\* Nothing happens to v or to its value between i and u.
IsStraight(o, i, u, v, value) ==
  /\ i < u
  /\ \A k \in LiveCodes(o) :
       i < k /\ k < u =>
         /\ o.code[k].op \notin {"Label", "Func"}
         /\ v \notin Defines(o.code[k])
         /\ value.kind # "Constant" => value.var \notin Defines(o.code[k])

\* The value of the assignment i is still the value of its variable v at u.
Justified(o, i, u, v, value) ==
  IsConstant(o, i, v, value) \/ IsNewBlock(o, i, v, value) \/ IsStraight(o, i, u, v, value)

\* The assignment i goes into the operand h of the code u, which uses the
\* variable once.
PutInto(o, i, u, h) ==
  [o EXCEPT !.code[u] = [@ EXCEPT ![h] = o.code[i].right],
            !.ignore = @ \cup {i},
            !.sound = @ /\ Justified(o, i, u, o.code[i].left.var, o.code[i].right)]

\* Mutant: the value also goes where its variable is only one of several uses.
CanForwardOften(o, i) ==
  /\ i \notin o.ignore
  /\ o.code[i].op = "Assign"
  /\ o.code[i].left.kind = "Variable" /\ o.code[i].right.kind # "Deref"
  /\ LET v == o.code[i].left.var
     IN o.usedTime[v] >= 1 /\ o.assignTime[v] = 1 /\ o.usedCode[v] \notin o.ignore

CanForward(o, i) ==
  /\ i \notin o.ignore
  /\ o.code[i].op = "Assign"
  /\ o.code[i].left.kind = "Variable" /\ o.code[i].right.kind # "Deref"
  /\ LET v == o.code[i].left.var
     IN o.usedTime[v] = 1 /\ o.assignTime[v] = 1 /\ o.usedCode[v] \notin o.ignore

\* The body of the loop of optimizeDupVar, for the code i.
Forward(o, i) ==
  IF ~CanForward(o, i) THEN o
  ELSE LET v == o.code[i].left.var
           u == o.usedCode[v]
           receivers == Receivers(o.code[u])
           fitting   == {k \in DOMAIN receivers : o.code[u][receivers[k]] = Var(v)}
       IN IF fitting = {} THEN o ELSE PutInto(o, i, u, receivers[Min(fitting)])

-----------------------------------------------------------------------------
(* optimizeConstExp *)

\* A quotient by zero is as good as any other.
ConstArith(op, a, b) == IF op = "Div" /\ b = 0 THEN 0 ELSE Arith(op, a, b)

ConstRelation(op, a, b) ==
  CASE op = "L"  -> a > b
    [] op = "S"  -> a < b
    [] op = "LE" -> a >= b
    [] op = "SE" -> a <= b
    [] op = "E"  -> a = b
    [] op = "NE" -> a # b

\* Mutant: a constant condition is taken whatever it says.
FoldedJumps(c) ==
  IF c.op \in ArithKinds \cup {"Branch"} /\ {c.op1.kind, c.op2.kind} = {"Constant"}
  THEN IF c.op = "Branch" THEN Goto(c.label)
       ELSE Assign(Var(c.target), Const(ConstArith(c.op, c.op1.value, c.op2.value)))
  ELSE c

\* A branch on a false condition stays.  What falls from one case into the
\* next finds its first operand replaced by the target, and does nothing.
Folded(c) ==
  IF c.op \in ArithKinds \cup {"Branch"} /\ {c.op1.kind, c.op2.kind} = {"Constant"}
  THEN IF c.op = "Branch"
       THEN IF ConstRelation(c.relop, c.op1.value, c.op2.value) THEN Goto(c.label) ELSE c
       ELSE Assign(Var(c.target), Const(ConstArith(c.op, c.op1.value, c.op2.value)))
  ELSE c

optimizeConstExp(o) == [o EXCEPT !.code = [i \in DOMAIN @ |-> Folded(@[i])]]

-----------------------------------------------------------------------------
(* optimizeDupGoto *)

\* Mutant: a jump to any label is one to the label that follows it.
JumpsAnywhere(o, i) ==
  o.code[i].op = "Goto" /\
  \E j \in LiveCodes(o) :
    /\ i < j
    /\ \A k \in LiveCodes(o) : i < k /\ k <= j => o.code[k].op = "Label"

\* A jump to one of the labels that follow it.
JumpsNowhere(o, i) ==
  o.code[i].op = "Goto" /\
  \E j \in LiveCodes(o) :
    /\ i < j
    /\ \A k \in LiveCodes(o) : i < k /\ k <= j => o.code[k].op = "Label"
    /\ o.name[o.code[j].label] = o.name[o.code[i].label]

optimizeDupGoto(o) ==
  [o EXCEPT !.ignore = @ \cup {i \in LiveCodes(o) : JumpsNowhere(o, i)}]

-----------------------------------------------------------------------------
\* ir_linearise: what is left, with the names the labels have now.
Named(o, c) == IF c.op \in {"Label", "Goto", "Branch"} THEN [c EXCEPT !.label = o.name[@]] ELSE c

ir_linearise(o) ==
  FlattenSeq([i \in DOMAIN o.code |->
                IF i \in o.ignore THEN << >> ELSE <<Named(o, o.code[i])>>])

-----------------------------------------------------------------------------
(* What the passes rely on. *)

\* The variable of each code that may go is one of those that are counted.
VariablesAreCounted(o) == \A i \in DOMAIN o.code : OnlyComputes(o.code[i]) \subseteq o.vars

\* Every label object has one place, and no two labels that are printed have
\* one name.
LabelsDiffer(o) ==
  LET labels == {i \in DOMAIN o.code : o.code[i].op = "Label"}
  IN /\ \A i, j \in labels : o.code[i].label = o.code[j].label => i = j
     /\ \A i, j \in labels \ o.ignore :
          o.name[o.code[i].label] = o.name[o.code[j].label] => i = j

\* Every jump has a label that is printed under the name it has now.
JumpsHaveLabels(o) ==
  /\ \A i \in DOMAIN o.code :
       o.code[i].op \in {"Goto", "Branch"} => o.code[i].label \in DOMAIN o.name
  /\ \A i \in LiveCodes(o) : o.code[i].op \in {"Goto", "Branch"} =>
       \E j \in LiveCodes(o) :
         o.code[j].op = "Label" /\ o.name[o.code[j].label] = o.name[o.code[i].label]

\* The counts may be old.  But a variable that they say is used once, in a code
\* that is still there, is used nowhere else.
CountsHold(o) ==
  \A v \in o.vars : o.usedTime[v] = 1 =>
    /\ o.usedCode[v] \in DOMAIN o.code
    /\ o.usedCode[v] \notin o.ignore =>
         \A i \in LiveCodes(o) : \A f, g \in FieldsUsing(o.code[i], v) :
           i = o.usedCode[v] /\ f = g

OptimizerType(o) ==
  o \in [code : Seq(TextCodes), vars : SUBSET Nat, ignore : SUBSET DOMAIN o.code,
         name : [LabelsOf(o.code) -> Nat],
         assignTime : [o.vars -> Nat], usedTime : [o.vars -> Nat], usedCode : [o.vars -> Nat],
         sound : BOOLEAN]

WellFormed(o) ==
  /\ OptimizerType(o)
  /\ VariablesAreCounted(o)
  /\ LabelsDiffer(o)
  /\ JumpsHaveLabels(o)
  /\ CountsHold(o)
=============================================================================
