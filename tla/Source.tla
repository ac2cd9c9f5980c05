------------------------------- MODULE Source -------------------------------
(***************************************************************************)
(* The C-- programs the translator takes: types (src/src/type.c), the part *)
(* of the syntax tree that ir.c translates (src/src/syntax.y), and the     *)
(* types that the semantic analysis leaves at the expressions              *)
(* (src/src/semantics.c).                                                  *)
(*                                                                         *)
(* A program is a function from function names to functions.  FLOAT is     *)
(* left out, as are global variables and function declarations: the        *)
(* translator refuses all three.                                           *)
(***************************************************************************)
EXTENDS Integers, Sequences, SequencesExt

-----------------------------------------------------------------------------
(* Types. *)

Integer == [cls |-> "META"]
ArrayOf(base, lens) == [cls |-> "ARRAY", base |-> base, lens |-> lens]
StructOf(mems) == [cls |-> "STRUCT", mems |-> mems]

Aggregate(tp) == tp.cls \in {"ARRAY", "STRUCT"}

\* How many words a value of the type takes.
RECURSIVE type_sizeof(_)
type_sizeof(tp) ==
  CASE tp.cls = "META"   -> 1
    [] tp.cls = "ARRAY"  -> FoldLeft(LAMBDA n, len : n * len, type_sizeof(tp.base), tp.lens)
    [] tp.cls = "STRUCT" -> FoldLeft(LAMBDA n, mem : n + type_sizeof(mem.tp), 0, tp.mems)

\* The type of an element.
type_array_descending(tp) ==
  IF Len(tp.lens) > 1 THEN ArrayOf(tp.base, Tail(tp.lens)) ELSE tp.base

\* Which member has the name, and how many words come before it.
MemberIndex(tp, name) == CHOOSE i \in DOMAIN tp.mems : tp.mems[i].name = name
MemberType(tp, name) == tp.mems[MemberIndex(tp, name)].tp
MemberOffset(tp, name) ==
  type_sizeof(StructOf(SubSeq(tp.mems, 1, MemberIndex(tp, name) - 1)))

-----------------------------------------------------------------------------
(* Expressions.  ARITH and COMPARE stand for the four operators each whose *)
(* name is in op, LOGIC for AND and OR.                                    *)

Num(i)         == [exp |-> "INT", value |-> i]
Id(x)          == [exp |-> "ID", name |-> x]
Neg(e)         == [exp |-> "MINUS", arg |-> e]
Not(e)         == [exp |-> "NOT", arg |-> e]
Paren(e)       == [exp |-> "LP", arg |-> e]
Calc(op, l, r) == [exp |-> "ARITH", op |-> op, left |-> l, right |-> r]
Comp(op, l, r) == [exp |-> "RELOP", op |-> op, left |-> l, right |-> r]
And(l, r)      == [exp |-> "LOGIC", op |-> "And", left |-> l, right |-> r]
Or(l, r)       == [exp |-> "LOGIC", op |-> "Or", left |-> l, right |-> r]
Set(l, r)      == [exp |-> "ASSIGNOP", left |-> l, right |-> r]
Apply(f, args) == [exp |-> "CALL", func |-> f, args |-> args]
Index(e, i)    == [exp |-> "LB", base |-> e, index |-> i]
Dot(e, x)      == [exp |-> "DOT", struct |-> e, member |-> x]

\* A parenthesised name is not a left value: the tree tells them apart.
LeftValue(e) == e.exp \in {"ID", "LB", "DOT"}

(* Statements, declarations and functions. *)

Do(e)           == [stmt |-> "Exp", exp |-> e]
Return(e)       == [stmt |-> "RETURN", exp |-> e]
If(c, s)        == [stmt |-> "IF", cond |-> c, then |-> s]
IfElse(c, s, t) == [stmt |-> "ELSE", cond |-> c, then |-> s, else |-> t]
While(c, s)     == [stmt |-> "WHILE", cond |-> c, then |-> s]
Block(ds, ss)   == [stmt |-> "CompSt", decs |-> ds, stmts |-> ss]

Declare(x, tp)     == [name |-> x, tp |-> tp, init |-> << >>]
Initialise(x, tp, e) == [name |-> x, tp |-> tp, init |-> <<e>>]
Parameter(x, tp)   == [name |-> x, tp |-> tp]

\* Every function returns an integer: what ir.c does with other results is
\* an assertion failure at their first use.
Function(params, decs, stmts) ==
  [params |-> params, body |-> Block(decs, stmts), ret |-> Integer]

-----------------------------------------------------------------------------
\* The type the analysis leaves at an expression.  syms holds the symbols in
\* scope, with their types, and program the functions.
RECURSIVE TypeOf(_, _, _)
TypeOf(e, syms, program) ==
  CASE e.exp = "ID"   -> syms[e.name].tp
    [] e.exp = "LB"   -> type_array_descending(TypeOf(e.base, syms, program))
    [] e.exp = "DOT"  -> MemberType(TypeOf(e.struct, syms, program), e.member)
    [] e.exp = "CALL" -> IF e.func \in DOMAIN program THEN program[e.func].ret ELSE Integer
    [] e.exp \in {"LP", "MINUS", "NOT"} -> TypeOf(e.arg, syms, program)
    [] e.exp \in {"ARITH", "RELOP", "LOGIC", "ASSIGNOP"} -> TypeOf(e.left, syms, program)
    [] OTHER          -> Integer
=============================================================================
