------------------------------- MODULE CTypes -------------------------------
(***************************************************************************)
(* The types that the semantic analysis gives to expressions and the       *)
(* relations and predicates over them (src/src/type.c).                    *)
(*                                                                         *)
(* Types is the set of types that occur in a program, closed under taking  *)
(* a type apart.  A type is a record: its equality stands for the equality *)
(* of the pointers, which differs from it only where type_full_eq goes on  *)
(* to compare the contents and finds them equal.                           *)
(***************************************************************************)
EXTENDS Integers, Sequences

CONSTANT Types

INT   == [cls |-> "META", metatype |-> "INT"]
FLOAT == [cls |-> "META", metatype |-> "FLOAT"]
ANY   == [cls |-> "ANY"]
NEVER == [cls |-> "NEVER"]

ArrayOf(base, lens) == [cls |-> "ARRAY", base |-> base, lens |-> lens]
StructOf(mems)      == [cls |-> "STRUCT", mems |-> mems]
FuncOf(args, ret)   == [cls |-> "FUNC", args |-> args, ret |-> ret]
\* A tag names a type; distinct tags are distinct objects.
TagOf(name, tp)     == [cls |-> "TYPE", name |-> name, tp |-> tp]

\* What a value in memory has: type_sizeof panics on any other class.
Sized(tp) == tp.cls \in {"META", "ARRAY", "STRUCT"}

\* The classes whose values are handled through their address.
Aggregate(tp) == tp.cls \in {"ARRAY", "STRUCT"}

type_array_descending(tp) ==
  IF Len(tp.lens) > 1 THEN ArrayOf(tp.base, Tail(tp.lens)) ELSE tp.base

TypesAssumption ==
  /\ {INT, FLOAT, ANY, NEVER} \subseteq Types
  /\ \A tp \in Types :
       /\ tp.cls = "META" => tp \in {INT, FLOAT}
       /\ tp.cls = "ARRAY" => /\ tp.lens \in Seq(Int)
                              /\ tp.base \in Types /\ tp.base.cls \in {"META", "STRUCT"}
                              /\ type_array_descending(tp) \in Types
       /\ tp.cls = "STRUCT" =>
            /\ Len(tp.mems) \in Nat /\ DOMAIN tp.mems = 1 .. Len(tp.mems)
            /\ \A i \in DOMAIN tp.mems : tp.mems[i].tp \in Types /\ Sized(tp.mems[i].tp)
       /\ tp.cls = "FUNC" =>
            /\ tp.args \in Seq(Types)
            /\ tp.ret \in Types
            /\ Sized(tp.ret)
            /\ \A i \in 1 .. Len(tp.args) : Sized(tp.args[i])

ASSUME TypesWellFormed == TypesAssumption

\* Types are built from types that are there already: no type contains itself.
BuiltUp(depth) ==
  /\ \A tp \in Types : tp.cls = "ARRAY" => depth[tp.base] < depth[tp]
  /\ \A tp \in Types : tp.cls = "STRUCT" =>
       \A i \in DOMAIN tp.mems : depth[tp.mems[i].tp] < depth[tp]
  /\ \A tp \in Types : tp.cls = "FUNC" =>
       /\ depth[tp.ret] < depth[tp]
       /\ \A i \in DOMAIN tp.args : depth[tp.args[i]] < depth[tp]

-----------------------------------------------------------------------------
(* Equality of types. *)

\* The part of type_full_eq before the comparison of the contents.
Equal(same, a, b, strict) ==
  \/ a = b
  \/ {a.cls, b.cls} \cap {"ANY", "NEVER"} # {}
  \/ a.cls = b.cls /\ same[<<a, b, strict>>]

\* Mutant: the lengths of an array that is a member are not compared.
SameMembersOfAnyLength(same, a, b) ==
  /\ Len(a.mems) = Len(b.mems)
  /\ \A i \in DOMAIN a.mems : Equal(same, a.mems[i].tp, b.mems[i].tp, FALSE)

\* Members agree one by one, in type and in length, whatever their names.
SameMembers(same, a, b) ==
  /\ Len(a.mems) = Len(b.mems)
  /\ \A i \in DOMAIN a.mems : Equal(same, a.mems[i].tp, b.mems[i].tp, TRUE)

SameElements(same, a, b, strict) ==
  /\ Len(a.lens) = Len(b.lens)
  /\ strict => a.lens = b.lens
  /\ Equal(same, a.base, b.base, FALSE)

SameSignature(same, a, b) ==
  /\ Len(a.args) = Len(b.args)
  /\ Equal(same, a.ret, b.ret, FALSE)
  /\ \A i \in DOMAIN a.args : Equal(same, a.args[i], b.args[i], FALSE)

\* Whether two types of one class have the same contents.
SameContents(same, a, b, strict) ==
  \/ a.cls = "META" /\ a.metatype = b.metatype
  \/ a.cls = "ARRAY" /\ SameElements(same, a, b, strict)
  \/ a.cls = "FUNC" /\ SameSignature(same, a, b)
  \/ a.cls = "STRUCT" /\ SameMembers(same, a, b)

OfOneClass == {p \in Types \X Types \X BOOLEAN : p[1].cls = p[2].cls}

Same[args \in OfOneClass] == SameContents(Same, args[1], args[2], args[3])

\* Two tags have no contents to compare: the program panics.
Incomparable(a, b) == a.cls = "TYPE" /\ b.cls = "TYPE" /\ a # b

\* Every comparison that the analysis asks for compares arrays by rank.
type_full_eq(a, b) == Equal(Same, a, b, FALSE)

-----------------------------------------------------------------------------
(* What an expression of a type can be used for. *)

type_can_call(tp)       == tp.cls = "FUNC"
type_can_index(tp)      == tp.cls = "ARRAY"
type_can_member(tp)     == tp.cls = "STRUCT"
type_can_logic(tp)      == tp = INT
type_can_arithmetic(tp) == tp.cls = "META"
type_can_arithmetic2(a, b) ==
  type_can_arithmetic(a) /\ type_can_arithmetic(b) /\ a.metatype = b.metatype

MembersNamed(tp, name) == {i \in DOMAIN tp.mems : tp.mems[i].name = name}

\* The members of an accepted structure have distinct names.
type_can_membername(tp, name) ==
  tp.mems[CHOOSE i \in DOMAIN tp.mems : tp.mems[i].name = name].tp

SizeOfArray(size, tp) ==
  LET product[n \in 0 .. Len(tp.lens)] ==
        IF n = 0 THEN size[tp.base] ELSE product[n - 1] * tp.lens[n]
  IN product[Len(tp.lens)]

SizeOfStruct(size, tp) ==
  LET sum[n \in 0 .. Len(tp.mems)] ==
        IF n = 0 THEN 0 ELSE sum[n - 1] + size[tp.mems[n].tp]
  IN sum[Len(tp.mems)]

SizeOf(size, tp) ==
  CASE tp.cls = "META"   -> 1
    [] tp.cls = "ARRAY"  -> SizeOfArray(size, tp)
    [] tp.cls = "STRUCT" -> SizeOfStruct(size, tp)

\* type_sizeof, in words.
Size[tp \in {t \in Types : Sized(t)}] == SizeOf(Size, tp)
=============================================================================
