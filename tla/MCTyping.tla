------------------------------ MODULE MCTyping ------------------------------
(***************************************************************************)
(* A scope with integers, arrays of one and two dimensions, structures     *)
(* that are equal although their members have other names, one that has    *)
(* only the same number of members, arrays of structures, and functions of *)
(* no, one and two parameters.                                             *)
(***************************************************************************)
EXTENDS Typing, FiniteSetsExt

Mem(x, tp) == [name |-> x, tp |-> tp]

Row    == ArrayOf(INT, <<3>>)
Matrix == ArrayOf(INT, <<2, 3>>)
Pair   == ArrayOf(INT, <<2>>)
S      == StructOf(<<Mem("x", INT), Mem("y", Pair)>>)
SLike  == StructOf(<<Mem("y", INT), Mem("x", Pair)>>)
Longer == StructOf(<<Mem("x", INT), Mem("y", Row)>>)
Nest   == StructOf(<<Mem("x", S), Mem("y", Longer)>>)
Twins  == StructOf(<<Mem("x", SLike), Mem("y", Longer)>>)
Others == StructOf(<<Mem("x", Longer), Mem("y", S)>>)
List   == ArrayOf(S, <<2>>)

MCSymbols ==
  [i |-> INT, r |-> FLOAT, a |-> Row, m |-> Matrix, s |-> S, t |-> SLike, l |-> List,
   n |-> Nest, w |-> Twins, o |-> Others,
   S |-> TagOf("S", S), T |-> TagOf("T", SLike),
   read |-> FuncOf(<< >>, INT), write |-> FuncOf(<<INT>>, INT),
   f |-> FuncOf(<<Row, S>>, INT), g |-> FuncOf(<<S>>, S)]

MCTypes == {INT, FLOAT, ANY, NEVER, Row, Matrix, Pair, S, SLike, Longer, Nest, Twins, Others, List}
             \cup {MCSymbols[x] : x \in DOMAIN MCSymbols}

\* How deep types are nested.
Parts(tp) ==
  CASE tp.cls = "ARRAY"  -> {tp.base}
    [] tp.cls = "STRUCT" -> {tp.mems[i].tp : i \in DOMAIN tp.mems}
    [] tp.cls = "FUNC"   -> {tp.ret} \cup {tp.args[i] : i \in DOMAIN tp.args}
    [] OTHER             -> {}
Depth[tp \in Types] ==
  IF Parts(tp) = {} THEN 0 ELSE 1 + Max({Depth[part] : part \in Parts(tp)})

ASSUME BuiltUp(Depth)

MCVarTypes == {INT, Row, S}
MCMemberNames == {"x", "y", "z"}
=============================================================================
