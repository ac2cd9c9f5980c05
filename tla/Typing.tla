------------------------------- MODULE Typing -------------------------------
(***************************************************************************)
(* The types of expressions: what analyse_Exp (src/src/semantics.c) leaves *)
(* at the nodes of the syntax tree, what it reports, where it stops, and   *)
(* what translate_Exp and translate_Cond (src/src/ir.c) later demand of    *)
(* the expressions it accepted.                                            *)
(*                                                                         *)
(* The analysis visits the operands of an expression before the expression *)
(* itself, so a step of this module is the part of one call that follows   *)
(* the visits of its operands: it replaces them, on top of stack, by the   *)
(* expression.  An expression is reduced to what later steps look at, so   *)
(* that expressions of every depth have a finite number of values.  The    *)
(* precedence of the operators is left out: parentheses around an operand  *)
(* that needs them change nothing that is kept of it.  The declarations    *)
(* around the expressions have been accepted.                              *)
(***************************************************************************)
EXTENDS CTypes, FiniteSets

CONSTANTS Symbols,      \* the types of the names in scope
          NoName,       \* a name that is not declared
          MemberNames,  \* the names that may stand behind a dot
          VarTypes,     \* the types of initialised variables and of results
          MaxStack      \* expressions that are analysed and wait for their place

VARIABLES stack,    \* analysed expressions that are not yet part of another
          passed,   \* semantics_is_passed
          stopped   \* why the analysis stopped, if it did

vars == <<stack, passed, stopped>>

SymbolsAssumption ==
  /\ NoName \notin DOMAIN Symbols
  /\ \A x \in DOMAIN Symbols : /\ Symbols[x] \in Types
                               /\ Symbols[x].cls \notin {"ANY", "NEVER"}
  /\ \A x \in DOMAIN Symbols \cap {"read", "write"} : Symbols[x].cls = "FUNC" =>
       Symbols[x].args = IF x = "read" THEN << >> ELSE <<INT>>
  /\ \A tp \in VarTypes : tp \in Types /\ Sized(tp)
  /\ MaxStack \in Nat

ASSUME SymbolsWellFormed == SymbolsAssumption

Names == DOMAIN Symbols \cup {NoName}

\* The alternatives of the grammar that the check for a left value tells
\* apart.
Forms == {"ID", "LB", "DOT", "OTHER"}

\* What is kept of an expression: its type and form; whether it keeps to
\* what the translator supports; and, of its translation, whether it gets
\* through as a value and as a condition, and whether the variable with its
\* value is marked as an address (irvar.isref).
Expression == [tp : Types, form : Forms, supported : BOOLEAN,
               value : BOOLEAN, cond : BOOLEAN, isref : BOOLEAN]

TypeOK ==
  /\ stack \in Seq(Expression)
  /\ Len(stack) <= MaxStack
  /\ passed \in BOOLEAN
  /\ stopped \in {"no", "assert", "panic"}

Init == stack = << >> /\ passed = TRUE /\ stopped = "no"

-----------------------------------------------------------------------------
(* Steps of the analysis. *)

\* The operands of a step are the last n expressions.
Operand(n, i) == stack[Len(stack) - n + i]

\* Mutant: an operand is left behind.
RestAndOne(n) == SubSeq(stack, 1, Len(stack) - (IF n = 0 THEN 0 ELSE n - 1))

Rest(n) == SubSeq(stack, 1, Len(stack) - n)

Ready(n) == stopped = "no" /\ Len(stack) >= n

\* The last n expressions become the operands of e; an error is reported or not.
Reduce(n, e, error) ==
  /\ Len(stack) - n < MaxStack
  /\ stack' = Append(Rest(n), e)
  /\ passed' = (passed /\ ~error)
  /\ UNCHANGED stopped

\* The end of a statement, whose expression is the last one of the stack.
Finish(error) ==
  /\ stack' = << >>
  /\ passed' = (passed /\ ~error)
  /\ UNCHANGED stopped

\* The program ends in the middle of a step.
Stop(why, error) ==
  /\ stopped' = why
  /\ passed' = (passed /\ ~error)
  /\ UNCHANGED stack

\* An expression whose translation as a condition tests its value.
Value(tp, form, supported, value, isref) ==
  [tp |-> tp, form |-> form, supported |-> supported,
   value |-> value, cond |-> value, isref |-> isref]

-----------------------------------------------------------------------------
(* Expressions without operands. *)

Integer == Ready(0) /\ Reduce(0, Value(INT, "OTHER", TRUE, TRUE, FALSE), FALSE)

\* The translator panics at a FLOAT.
Float == Ready(0) /\ Reduce(0, Value(FLOAT, "OTHER", FALSE, FALSE, FALSE), FALSE)

\* Whether the name has a variable in the translation.
HasVariable(x) == x \in DOMAIN Symbols /\ Sized(Symbols[x])

Name(x) ==
  /\ Ready(0)
  /\ IF x \in DOMAIN Symbols
     THEN Reduce(0, Value(Symbols[x], "ID", HasVariable(x), HasVariable(x),
                          Aggregate(Symbols[x])), FALSE)
     ELSE Reduce(0, Value(NEVER, "ID", FALSE, FALSE, FALSE), TRUE)

-----------------------------------------------------------------------------
(* Expressions with one operand. *)

Minus ==
  /\ Ready(1)
  /\ LET e == Operand(1, 1)
     IN Reduce(1, Value(e.tp, "OTHER", e.supported, e.value, FALSE),
               ~type_can_arithmetic(e.tp))

\* As a value, a negation is translated into nothing at all.
Not ==
  /\ Ready(1)
  /\ LET e == Operand(1, 1)
     IN Reduce(1, [Value(e.tp, "OTHER", e.supported, TRUE, FALSE) EXCEPT !.cond = e.cond],
               ~type_can_logic(e.tp))

Parentheses ==
  /\ Ready(1)
  /\ Reduce(1, [Operand(1, 1) EXCEPT !.form = "OTHER"], FALSE)

\* Mutant: the member of a structure counts as a value, not as an address.
MemberIsValue(e, tp) ==
  Value(tp, "DOT", e.supported, e.value /\ e.isref /\ e.tp.cls = "STRUCT", FALSE)

\* The translator wants the structure as an address and returns one.
Member(e, tp) ==
  Value(tp, "DOT", e.supported, e.value /\ e.isref /\ e.tp.cls = "STRUCT", TRUE)

\* Mutant: a member that does not exist is not reported.
DotOfNothing(name) ==
  /\ Ready(1)
  /\ LET e == Operand(1, 1)
     IN IF type_can_member(e.tp) /\ MembersNamed(e.tp, name) # {}
        THEN Reduce(1, Member(e, type_can_membername(e.tp, name)), FALSE)
        ELSE Reduce(1, Member(e, NEVER), ~type_can_member(e.tp))

Dot(name) ==
  /\ Ready(1)
  /\ LET e == Operand(1, 1)
     IN IF type_can_member(e.tp) /\ MembersNamed(e.tp, name) # {}
        THEN Reduce(1, Member(e, type_can_membername(e.tp, name)), FALSE)
        ELSE Reduce(1, Member(e, NEVER), TRUE)

-----------------------------------------------------------------------------
(* Expressions with two operands. *)

\* Both operands are translated; the variable with the result is no address.
Combined(l, r, tp, value) ==
  Value(tp, "OTHER", l.supported /\ r.supported, value, FALSE)

\* AND and OR.  Their value is computed by a condition.
Logic ==
  /\ Ready(2)
  /\ LET l == Operand(2, 1)
         r == Operand(2, 2)
         fine == type_can_logic(l.tp) /\ type_can_logic(r.tp)
     IN Reduce(2, Combined(l, r, IF fine THEN l.tp ELSE INT, l.cond /\ r.cond), ~fine)

\* PLUS, MINUS, STAR, DIV, and RELOP, whose result has the type of its operands.
Calculate ==
  /\ Ready(2)
  /\ LET l == Operand(2, 1)
         r == Operand(2, 2)
         fine == type_can_arithmetic2(l.tp, r.tp)
     IN Reduce(2, Combined(l, r, IF fine THEN l.tp ELSE INT, l.value /\ r.value), ~fine)

LeftValue(e) == e.form \in {"ID", "LB", "DOT"}

\* The translator copies words and arrays, an array not into a member.
CanCopy(l, r) ==
  CASE l.tp.cls = "META"   -> TRUE
    [] l.tp.cls = "STRUCT" -> FALSE
    [] l.tp.cls = "ARRAY"  -> l.form # "DOT" /\ l.isref /\ r.isref /\ Sized(r.tp)
    [] OTHER               -> TRUE

\* Mutant: the variable with the value of an assigned array is no address.
AssignedIsValue(l, r, tp) ==
  Value(tp, "OTHER",
        l.supported /\ r.supported /\ l.tp.cls # "STRUCT" /\ ~(l.form = "DOT" /\ l.tp.cls = "ARRAY"),
        LeftValue(l) /\ l.value /\ r.value /\ (l.form # "ID" => l.isref) /\ CanCopy(l, r),
        FALSE)

\* Structures cannot be assigned, nor arrays to a member.
Assigned(l, r, tp) ==
  Value(tp, "OTHER",
        l.supported /\ r.supported /\ l.tp.cls # "STRUCT" /\ ~(l.form = "DOT" /\ l.tp.cls = "ARRAY"),
        LeftValue(l) /\ l.value /\ r.value /\ (l.form # "ID" => l.isref) /\ CanCopy(l, r),
        l.tp.cls = "ARRAY")

Assign ==
  /\ Ready(2)
  /\ LET l == Operand(2, 1)
         r == Operand(2, 2)
     IN IF ~LeftValue(l) THEN Reduce(2, Assigned(l, r, NEVER), TRUE)
        ELSE IF Incomparable(l.tp, r.tp) THEN Stop("panic", FALSE)
        ELSE IF ~type_full_eq(l.tp, r.tp) THEN Reduce(2, Assigned(l, r, NEVER), TRUE)
        ELSE Reduce(2, Assigned(l, r, l.tp), FALSE)

\* The translator wants the base as an address and returns one.
Element(l, r, tp) ==
  Value(tp, "LB", l.supported /\ r.supported,
        l.value /\ l.isref /\ Sized(tp) /\ r.value, TRUE)

\* Mutant: the index is looked at only after the element type was taken.
IndexChecksLate ==
  /\ Ready(2)
  /\ LET l == Operand(2, 1)
         r == Operand(2, 2)
     IN IF ~type_can_index(l.tp) THEN Stop("assert", FALSE)
        ELSE Reduce(2, Element(l, r, type_array_descending(l.tp)), r.tp # INT)

\* An index that is no integer is reported before anything is known of the
\* base, whose element type is taken all the same.
Index ==
  /\ Ready(2)
  /\ LET l == Operand(2, 1)
         r == Operand(2, 2)
     IN IF type_can_index(l.tp)
        THEN Reduce(2, Element(l, r, type_array_descending(l.tp)), r.tp # INT)
        ELSE IF r.tp # INT THEN Stop("assert", TRUE)
        ELSE Reduce(2, Element(l, r, ANY), TRUE)

-----------------------------------------------------------------------------
(* Calls.  The last n expressions are the arguments. *)

\* The translator counts the arguments from the last one, as many as the
\* function has parameters, the aggregates among them as addresses.
CanPass(n, f) ==
  LET args == Symbols[f].args
  IN \/ f = "write" /\ n > 0
     \/ f = "read" /\ n = 0
     \/ /\ f \notin {"read", "write"}
        /\ n > 0 => /\ n >= Len(args)
                    /\ \A i \in DOMAIN args :
                         Aggregate(args[i]) => Operand(n, n - Len(args) + i).isref

\* A call leaves a value in its variable, whatever the function returns.
Called(n, f, tp) ==
  Value(tp, "OTHER",
        (\A i \in 1 .. n : Operand(n, i).supported) /\ tp.cls = "META",
        f \in DOMAIN Symbols /\ Symbols[f].cls = "FUNC"
          /\ (\A i \in 1 .. n : Operand(n, i).value) /\ CanPass(n, f),
        FALSE)

\* Mutant: too many arguments or too few are not reported.
MatchesPrefix(n, params) ==
  \A i \in 1 .. n : i <= Len(params) => type_full_eq(Operand(n, i).tp, params[i])

\* One argument for each parameter, of its type.
Matches(n, params) ==
  n = Len(params) /\ \A i \in 1 .. n : type_full_eq(Operand(n, i).tp, params[i])

Call(f, n) ==
  /\ Ready(n)
  /\ IF f \in DOMAIN Symbols /\ type_can_call(Symbols[f])
     THEN Reduce(n, Called(n, f, Symbols[f].ret), ~Matches(n, Symbols[f].args))
     ELSE Reduce(n, Called(n, f, NEVER), TRUE)

-----------------------------------------------------------------------------
(* Statements and declarations, which an expression ends. *)

Alone == Ready(1) /\ Len(stack) = 1

\* Exp SEMI
Discard == Alone /\ Finish(FALSE)

\* RETURN Exp SEMI in a function with the result, VarDec ASSIGNOP Exp.
GiveTo(tp) == Alone /\ Finish(~type_full_eq(tp, stack[1].tp))

\* The conditions of IF and WHILE.
Test == Alone /\ Finish(~type_can_logic(stack[1].tp))

Statement == Discard \/ Test \/ \E tp \in VarTypes : GiveTo(tp)

Next ==
  \/ Integer \/ Float \/ \E x \in Names : Name(x)
  \/ Minus \/ Not \/ Parentheses \/ \E name \in MemberNames : Dot(name)
  \/ Logic \/ Calculate \/ Assign \/ Index
  \/ \E f \in Names, n \in 0 .. MaxStack : Call(f, n)
  \/ Statement

Spec == Init /\ [][Next]_vars

-----------------------------------------------------------------------------
(* Properties. *)

\* The types that only an error leaves behind equal every other type and so
\* silence later checks.  No expression has one of them unless an error was
\* reported (ANY and NEVER in type_full_eq, analyse_Exp).
ErrorsAreReported ==
  passed => \A i \in DOMAIN stack : stack[i].tp.cls \notin {"ANY", "NEVER"}

\* An expression that the analysis accepts gets through the translator, as a
\* value and as a condition, and an array or structure comes out of it as an
\* address: unless it has a FLOAT, the name of a function or a tag as a
\* value, a call that returns a structure, or an assignment of a structure
\* or of an array to a member (the assertions and panics of translate_Exp).
AcceptedIsTranslated ==
  passed =>
    \A i \in DOMAIN stack :
      stack[i].supported =>
        /\ stack[i].value /\ stack[i].cond
        /\ Aggregate(stack[i].tp) => stack[i].isref

\* The analysis stops in the middle only at an index that it has reported,
\* or at an assignment of one tag to another (type_array_descending and the
\* end of type_full_eq).
StopsAreExplained ==
  /\ stopped = "assert" => ~passed
  /\ stopped = "panic" => \E i, j \in DOMAIN stack : Incomparable(stack[i].tp, stack[j].tp)

\* A function computes the places of the members of a structure it is passed
\* from its own type of it, the caller from another one.  Structures that
\* the analysis takes for equal lie alike (type_full_eq with strict_arr).
EqualStructuresLieAlike ==
  \A i, j \in DOMAIN stack :
    LET a == stack[i].tp
        b == stack[j].tp
    IN (a.cls = "STRUCT" /\ b.cls = "STRUCT" /\ type_full_eq(a, b)) =>
         /\ Size[a] = Size[b]
         /\ \A n \in DOMAIN a.mems : Size[a.mems[n].tp] = Size[b.mems[n].tp]
=============================================================================
