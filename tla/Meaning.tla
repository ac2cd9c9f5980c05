------------------------------- MODULE Meaning ------------------------------
(***************************************************************************)
(* What a C-- program means, said without variables, labels or addresses:  *)
(* the reference that the translated code is checked against.              *)
(*                                                                         *)
(* A location is a sequence: the number of an object, then the indices of  *)
(* the elements and members that lead to a word of it.  Operands and       *)
(* arguments are evaluated from left to right, AND and OR settle as soon   *)
(* as they can, arrays and structures are passed by reference, and an      *)
(* array assignment copies as many words as both sides have.  C leaves the *)
(* order of evaluation open, so it is only meaningful for programs that do *)
(* not change in one operand what another one reads.                       *)
(***************************************************************************)
EXTENDS Source, IrOperands

\* The state of an evaluation: env has a location and a type for every name,
\* store a value for every initialised location, next numbers the objects,
\* val and loc are the value and the location of the last expression, and
\* ret is << >> until the function returns.
Start(inp) == [env |-> << >>, store |-> << >>, next |-> 1, inp |-> inp, out |-> << >>,
               val |-> 0, loc |-> << >>, ret |-> << >>]

Truth(b) == IF b THEN 1 ELSE 0

Put(s, loc, v) ==
  [s EXCEPT !.store = [l \in DOMAIN @ \cup {loc} |-> IF l = loc THEN v ELSE @[l]],
            !.val = v]

BindTo(s, x, loc, tp) ==
  [s EXCEPT !.env = [y \in DOMAIN @ \cup {x} |->
                       IF y = x THEN [loc |-> loc, tp |-> tp] ELSE @[y]]]

\* A new object for the name.
New(s, x, tp) == [BindTo(s, x, <<s.next>>, tp) EXCEPT !.next = @ + 1]

\* The locations of the words of an object, in order.
RECURSIVE WordsOf(_, _)
WordsOf(loc, tp) ==
  CASE tp.cls = "META"   -> <<loc>>
    [] tp.cls = "ARRAY"  ->
         FlattenSeq([i \in 1 .. tp.lens[1] |->
                       WordsOf(Append(loc, i - 1), type_array_descending(tp))])
    [] tp.cls = "STRUCT" ->
         FlattenSeq([i \in DOMAIN tp.mems |-> WordsOf(Append(loc, i), tp.mems[i].tp)])

\* Copies words for as long as both sides have any.
CopyWords(s, from, to) ==
  LET n == IF Len(from) < Len(to) THEN Len(from) ELSE Len(to)
  IN FoldLeft(LAMBDA r, i : Put(r, to[i], r.store[from[i]]), s, [i \in 1 .. n |-> i])

RECURSIVE Eval(_, _, _), Exec(_, _, _), ExecDecs(_, _, _), ExecAll(_, _, _)

\* A state with another value, or another location.
WithVal(s, v) == [s EXCEPT !.val = v]
WithLoc(s, loc) == [s EXCEPT !.loc = loc]

\* The value that is stored at the location.
Fetch(s) == WithVal(s, s.store[s.loc])

\* The index has been evaluated, for an object at base.
Element(base, s) == WithLoc(s, Append(base, s.val))

\* The location of an array, a structure or a left value.
RECURSIVE Locate(_, _, _)
Indexed(e, s, p) == Element(s.loc, Eval(e.index, s, p))
Locate(e, s, p) ==
  CASE e.exp = "ID" -> WithLoc(s, s.env[e.name].loc)
    [] e.exp = "LP" -> Locate(e.arg, s, p)
    [] e.exp = "LB" -> Indexed(e, Locate(e.base, s, p), p)
    [] e.exp = "DOT" -> [Locate(e.struct, s, p) EXCEPT !.loc =
                           Append(@, MemberIndex(TypeOf(e.struct, s.env, p), e.member))]
    [] e.exp = "ASSIGNOP" -> Eval(e, s, p)

\* The left side is at to, and the right side has been evaluated or located.
PutAt(to, s) == Put(s, to, s.val)
CopyAt(to, tp, from, s) == CopyWords(s, WordsOf(s.loc, from), WordsOf(to, tp))

\* The left side has been located.
SetAt(e, tp, from, s, p) ==
  IF Aggregate(tp) THEN CopyAt(s.loc, tp, from, Locate(e.right, s, p))
  ELSE PutAt(s.loc, Eval(e.right, s, p))

EvalSet(e, s, p) ==
  SetAt(e, TypeOf(e.left, s.env, p), TypeOf(e.right, s.env, p), Locate(e.left, s, p), p)

\* The parameters become names of the callee, one after the other: of a new
\* object for a value, of the argument itself for an array or a structure.
RECURSIVE Pass(_, _, _, _, _)
BindParam(x, env, s) ==
  IF Aggregate(x.tp) THEN BindTo([s EXCEPT !.env = env], x.name, s.loc, x.tp)
  ELSE Put(New([s EXCEPT !.env = env], x.name, x.tp), <<s.next>>, s.val)

PassRest(params, es, env, s, p) == Pass(Tail(params), Tail(es), [s EXCEPT !.env = env], s.env, p)

Pass(params, es, s, callee, p) ==
  IF es = << >> THEN [s |-> s, callee |-> callee]
  ELSE PassRest(params, es, s.env,
         BindParam(Head(params), callee,
                   IF Aggregate(Head(params).tp) THEN Locate(Head(es), s, p)
                   ELSE Eval(Head(es), s, p)), p)

Enter(a) == [a.s EXCEPT !.env = a.callee]
Leave(env, s) == [s EXCEPT !.env = env, !.ret = << >>, !.val = s.ret[1]]
Written(s) == [s EXCEPT !.out = Append(@, s.val), !.val = 0]

EvalCall(e, s, p) ==
  CASE e.func = "read"  -> [s EXCEPT !.val = Head(s.inp), !.inp = Tail(s.inp)]
    [] e.func = "write" -> Written(Eval(e.args[1], s, p))
    [] OTHER -> Leave(s.env, Exec(p[e.func].body,
                                  Enter(Pass(p[e.func].params, e.args, s, << >>, p)), p))

\* The left operand has been evaluated; r is the state after both.
Combine(e, a, r) ==
  WithVal(r, IF e.exp = "ARITH" THEN Arith(e.op, a, r.val) ELSE Truth(Relation(e.op, a, r.val)))
RightOf(e, s, p) == Combine(e, s.val, Eval(e.right, s, p))

AsTruth(s) == WithVal(s, Truth(s.val # 0))
Settle(e, s, p) ==
  IF (e.op = "And") = (s.val = 0) THEN AsTruth(s) ELSE AsTruth(Eval(e.right, s, p))

Eval(e, s, p) ==
  CASE e.exp = "INT"   -> WithVal(s, e.value)
    [] e.exp \in {"ID", "LB", "DOT"} -> Fetch(Locate(e, s, p))
    [] e.exp = "LP"    -> Eval(e.arg, s, p)
    [] e.exp = "MINUS" -> [Eval(e.arg, s, p) EXCEPT !.val = -@]
    [] e.exp = "NOT"   -> [Eval(e.arg, s, p) EXCEPT !.val = Truth(@ = 0)]
    [] e.exp \in {"ARITH", "RELOP"} -> RightOf(e, Eval(e.left, s, p), p)
    [] e.exp = "LOGIC" -> Settle(e, Eval(e.left, s, p), p)
    [] e.exp = "CALL"  -> EvalCall(e, s, p)
    [] e.exp = "ASSIGNOP" -> EvalSet(e, s, p)

\* The name has its object, at loc.
ExecInit(d, loc, s, p) ==
  CASE d.init = << >>  -> s
    [] Aggregate(d.tp) -> CopyAt(loc, d.tp, TypeOf(d.init[1], s.env, p), Locate(d.init[1], s, p))
    [] OTHER           -> PutAt(loc, Eval(d.init[1], s, p))

ExecDec(d, s, p) == ExecInit(d, <<s.next>>, New(s, d.name, d.tp), p)

ExecDecs(ds, s, p) ==
  IF ds = << >> THEN s ELSE ExecDecs(Tail(ds), ExecDec(Head(ds), s, p), p)

ExecAll(stmts, s, p) ==
  IF stmts = << >> THEN s ELSE ExecAll(Tail(stmts), Exec(Head(stmts), s, p), p)

Returned(s) == [s EXCEPT !.ret = <<s.val>>]

\* The condition has been evaluated.
Choose(stmt, s, p) ==
  CASE s.val # 0            -> Exec(stmt.then, s, p)
    [] stmt.stmt = "ELSE"   -> Exec(stmt.else, s, p)
    [] OTHER                -> s
Iterate(stmt, s, p) == IF s.val # 0 THEN Exec(stmt, Exec(stmt.then, s, p), p) ELSE s

Exec(stmt, s, p) ==
  IF s.ret # << >> THEN s
  ELSE CASE stmt.stmt = "Exp" -> Eval(stmt.exp, s, p)
    [] stmt.stmt = "RETURN" -> Returned(Eval(stmt.exp, s, p))
    [] stmt.stmt = "CompSt" -> ExecAll(stmt.stmts, ExecDecs(stmt.decs, s, p), p)
    [] stmt.stmt \in {"IF", "ELSE"} -> Choose(stmt, Eval(stmt.cond, s, p), p)
    [] stmt.stmt = "WHILE"  -> Iterate(stmt, Eval(stmt.cond, s, p), p)

Outcome(s) == [out |-> s.out, result |-> s.ret[1]]

\* What the program writes and returns when it reads inp.
MeaningOf(p, inp) == Outcome(Exec(p["main"].body, Start(inp), p))
=============================================================================
