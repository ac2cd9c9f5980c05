----------------------------- MODULE Translate ------------------------------
(***************************************************************************)
(* The translation of C-- programs into intermediate code (src/src/ir.c).  *)
(*                                                                         *)
(* Every operator takes the state of the translator and returns the next   *)
(* one: the code emitted so far, how many variables and labels were made,  *)
(* which variables are marked as holding the address of a value instead of *)
(* the value (irvar.isref), the variable and the type of every symbol, and *)
(* whether every assertion held.  After a failed assertion the program     *)
(* stops and the rest of the state means nothing.                          *)
(*                                                                         *)
(* Symbols are found by name alone: the names of a function are taken to   *)
(* be distinct.  What the symbol tables do when they are not is the        *)
(* subject of Scopes.                                                      *)
(***************************************************************************)
EXTENDS Source, IrText, FiniteSets

\* ir_prepare: the first variable takes the values nobody wants.
IgnoreVar == 1

InitState == [code |-> << >>, vars |-> IgnoreVar, labels |-> 0, isref |-> {},
              syms |-> << >>, ok |-> TRUE]

\* Mutant: the label counter is not advanced.
LabelsAreReused(st, n) == st

\* new_var, new_label: the new ones are the last n.
NewVars(st, n) == [st EXCEPT !.vars = @ + n]
NewLabels(st, n) == [st EXCEPT !.labels = @ + n]

Emit(st, codes) == [st EXCEPT !.code = @ \o codes]

Mark(st, v, isref) ==
  [st EXCEPT !.isref = IF isref THEN @ \cup {v} ELSE @ \ {v}]

\* AssertEq, AssertNotNull and panic.
Demand(st, cond) == [st EXCEPT !.ok = @ /\ cond]

Bind(st, x, v, tp) ==
  [st EXCEPT !.syms = [y \in DOMAIN @ \cup {x} |->
                         IF y = x THEN [var |-> v, tp |-> tp] ELSE @[y]]]

\* op_rval
Rval(v, st) == IF v \in st.isref THEN Deref(v) ELSE Var(v)

-----------------------------------------------------------------------------
(* Pieces of code that an expression is made of. *)

Least(a, b) == IF a < b THEN a ELSE b

\* gen_arr_copy: word after word, through two pointers.
Copy(lo, ro, size, st) ==
  LET lt == st.vars + 1
      rt == st.vars + 2
      Word(i) == << BinOp("Add", lt, Var(lo), Const(i - 1)),
                    BinOp("Add", rt, Var(ro), Const(i - 1)),
                    Assign(Deref(lt), Deref(rt)) >>
  IN Emit(NewVars(st, 2), FlattenSeq([i \in 1 .. size |-> Word(i)]))

\* Mutant: the loop over the arguments stops before the first one.
ArgCodesMissFirst(vs, params, st) ==
  [i \in 1 .. Len(params) - 1 |->
     LET j == Len(params) + 1 - i
     IN Arg(IF Aggregate(params[j].tp) THEN Var(vs[j]) ELSE Rval(vs[j], st))]

\* The arguments of a call, evaluated into vs, are passed last first:
\* an address for an array or a structure, otherwise a value.
ArgCodes(vs, params, st) ==
  [i \in DOMAIN params |->
     LET j == Len(params) + 1 - i
     IN Arg(IF Aggregate(params[j].tp) THEN Var(vs[j]) ELSE Rval(vs[j], st))]

ArgsAreAddresses(vs, params, st) ==
  \A j \in DOMAIN params : Aggregate(params[j].tp) => vs[j] \in st.isref

\* Mutant: the index counts words, whatever the size of the elements.
ElementsAreWords(t1, t2, base, index, size) ==
  << BinOp("Mul", t1, index, Const(1)), BinOp("Add", t2, Var(base), Var(t1)) >>

\* The address of an element: a base and an index times the element's size.
ElementCodes(t1, t2, base, index, size) ==
  << BinOp("Mul", t1, index, Const(size)), BinOp("Add", t2, Var(base), Var(t1)) >>

RECURSIVE translate_Exp(_, _, _, _), translate_Cond(_, _, _, _, _), translate_Args(_, _, _)

\* An operand goes into the next variable, which is st.vars + 1; two
\* operands go into the next two, the left one first.
Operand(e, st, p) == translate_Exp(e, st.vars + 1, NewVars(st, 1), p)
BothOperands(l, r, st, p) ==
  translate_Exp(r, st.vars + 2, translate_Exp(l, st.vars + 1, NewVars(st, 2), p), p)

DemandRef(st, v) == Demand(st, v \in st.isref)

\* A condition whose value is wanted: 1 on the way through the true label.
ValueOfCond(e, t, st, p) ==
  LET true  == st.labels + 1
      false == st.labels + 2
  IN Emit(translate_Cond(e, true, false,
                         Emit(NewLabels(st, 2), <<Assign(Var(t), Const(0))>>), p),
          <<Label(true), Assign(Var(t), Const(1)), Label(false)>>)

\* The value form exists for AND, OR and RELOP only.  The test for NOT asks
\* for a node with one child, which no NOT is, so a NOT emits nothing.
ValueOfNot(e, t, st, p) == st

translate_Name(x, t, st) ==
  LET v == st.syms[x].var
  IN Mark(Emit(st, <<Assign(Var(t), Var(v))>>), t, v \in st.isref)

EmitMinus(t, v, st) == Emit(st, <<BinOp("Sub", t, Const(0), Rval(v, st))>>)

translate_Minus(e, t, st, p) == EmitMinus(t, st.vars + 1, Operand(e.arg, st, p))

EmitArith(op, t, left, right, st) == Emit(st, <<BinOp(op, t, Rval(left, st), Rval(right, st))>>)

translate_Arith(e, t, st, p) ==
  EmitArith(e.op, t, st.vars + 1, st.vars + 2, BothOperands(e.left, e.right, st, p))

\* The address of a member, at words behind base.
EmitMember(t, base, at, st) ==
  Mark(Emit(NewVars(st, 1),
            <<BinOp("Add", st.vars + 1, Var(base), Const(at)), Assign(Var(t), Var(st.vars + 1))>>),
       t, TRUE)

translate_Dot(e, t, st, p) ==
  EmitMember(t, st.vars + 1, MemberOffset(TypeOf(e.struct, st.syms, p), e.member),
             DemandRef(Operand(e.struct, st, p), st.vars + 1))

EmitElement(t, base, index, size, st) ==
  LET t1 == st.vars + 1
      t2 == st.vars + 2
  IN Mark(Emit(NewVars(st, 2),
               ElementCodes(t1, t2, base, Rval(index, st), size) \o <<Assign(Var(t), Var(t2))>>),
          t, TRUE)

\* The base of e has been translated.
IndexInto(e, t, base, size, st, p) ==
  EmitElement(t, base, st.vars + 1, size, Operand(e.index, st, p))

translate_Index(e, t, st, p) ==
  IndexInto(e, t, st.vars + 1, type_sizeof(TypeOf(e, st.syms, p)),
            DemandRef(Operand(e.base, st, p), st.vars + 1), p)

\* The arguments of e have been translated, into vs.
EmitCall(e, t, vs, st, p) ==
  IF e.func = "write"
  THEN Emit(st, <<Write(Rval(vs[1], st)), Assign(Var(t), Const(0))>>)
  ELSE LET ps == p[e.func].params
       IN Emit(Demand(st, ArgsAreAddresses(vs, ps, st)),
               ArgCodes(vs, ps, st) \o <<Call(t, e.func)>>)

CallWith(e, t, a, p) == EmitCall(e, t, a.vs, a.st, p)

translate_Call(e, t, st, p) ==
  IF e.func = "read" THEN Emit(st, <<Read(t)>>)
  ELSE CallWith(e, t, translate_Args(e.args, st, p), p)

ArgFirst(v, a) == [a EXCEPT !.vs = <<v>> \o @]

\* Each argument goes into a variable of its own, the first one first.
translate_Args(es, st, p) ==
  IF es = << >> THEN [vs |-> << >>, st |-> st]
  ELSE ArgFirst(st.vars + 1, translate_Args(Tail(es), Operand(Head(es), st, p), p))

-----------------------------------------------------------------------------
(* Assignments.  Structures cannot be assigned, nor an array to a member. *)

\* How many words an assignment of an array copies.
CopySize(e, st, p) ==
  Least(type_sizeof(TypeOf(e.left, st.syms, p)), type_sizeof(TypeOf(e.right, st.syms, p)))

\* Mutant: an assignment to a name has no value.
SetNameHasNoValue(x, t, v, tp, size, st) ==
  Emit(st, <<Assign(Var(x), Rval(v, st))>>)

\* The value in v goes into the variable x of a name.
EmitSetName(x, t, v, tp, size, st) ==
  CASE tp.cls = "META" ->
         Emit(st, <<Assign(Var(x), Rval(v, st)), Assign(Var(t), Var(x))>>)
    [] tp.cls = "ARRAY" ->
         Mark(Emit(Copy(x, v, size, Demand(st, {x, v} \subseteq st.isref)),
                   <<Assign(Var(t), Var(v))>>), t, TRUE)
    [] OTHER -> Demand(st, FALSE)

\* ID = Exp: the variable of the name is assigned directly.
translate_SetName(e, t, st, p) ==
  EmitSetName(st.syms[e.left.name].var, t, st.vars + 1, TypeOf(e.left, st.syms, p),
              CopySize(e, st, p), Operand(e.right, st, p))

\* The value in v goes to the address in place.
EmitSetPlace(e, t, place, v, tp, size, st) ==
  CASE tp.cls = "META" ->
         Emit(st, <<Assign(Deref(place), Rval(v, st)), Assign(Var(t), Rval(v, st))>>)
    [] tp.cls = "ARRAY" /\ e.left.exp = "LB" ->
         Mark(Emit(Copy(place, v, size, DemandRef(st, v)), <<Assign(Var(t), Var(v))>>), t, TRUE)
    [] OTHER -> Demand(st, FALSE)

\* Exp[Exp] = Exp, Exp.ID = Exp: through the address of the left side.
translate_SetPlace(e, t, st, p) ==
  LET place == st.vars + 1
      v     == st.vars + 2
  IN EmitSetPlace(e, t, place, v, TypeOf(e.left, st.syms, p), CopySize(e, st, p),
       translate_Exp(e.right, v,
         DemandRef(translate_Exp(e.left, place, NewVars(st, 2), p), place), p))

translate_Exp(e, t, st, p) ==
  CASE e.exp = "INT"   -> Emit(st, <<Assign(Var(t), Const(e.value))>>)
    [] e.exp = "ID"    -> translate_Name(e.name, t, st)
    [] e.exp = "LP"    -> translate_Exp(e.arg, t, st, p)
    [] e.exp = "MINUS" -> translate_Minus(e, t, st, p)
    [] e.exp = "NOT"   -> ValueOfNot(e, t, st, p)
    [] e.exp = "ARITH" -> translate_Arith(e, t, st, p)
    [] e.exp \in {"LOGIC", "RELOP"} -> ValueOfCond(e, t, st, p)
    [] e.exp = "CALL"  -> translate_Call(e, t, st, p)
    [] e.exp = "LB"    -> translate_Index(e, t, st, p)
    [] e.exp = "DOT"   -> translate_Dot(e, t, st, p)
    [] e.exp = "ASSIGNOP" ->
         IF e.left.exp = "ID" THEN translate_SetName(e, t, st, p)
         ELSE IF LeftValue(e.left) THEN translate_SetPlace(e, t, st, p)
         ELSE Demand(st, FALSE)

-----------------------------------------------------------------------------
(* Conditions jump to one of two labels. *)

\* Mutant: a true operand does not settle an OR.
OrGoesOn(op, true, false, next) ==
  IF op = "And" THEN [true |-> next, false |-> false] ELSE [true |-> next, false |-> next]

\* Where each operand of AND and OR goes when it settles nothing.
ShortCircuit(op, true, false, next) ==
  IF op = "And" THEN [true |-> next, false |-> false] ELSE [true |-> true, false |-> next]

CondLogic(e, true, false, st, p) ==
  LET next == st.labels + 1
      left == ShortCircuit(e.op, true, false, next)
  IN translate_Cond(e.right, true, false,
       Emit(translate_Cond(e.left, left.true, left.false, NewLabels(st, 1), p), <<Label(next)>>), p)

EmitCompare(op, left, right, true, false, st) ==
  Emit(st, <<Branch(op, Rval(left, st), Rval(right, st), true), Goto(false)>>)

CondCompare(e, true, false, st, p) ==
  EmitCompare(e.op, st.vars + 1, st.vars + 2, true, false, BothOperands(e.left, e.right, st, p))

EmitTest(v, true, false, st) ==
  Emit(st, <<Branch("NE", Rval(v, st), Const(0), true), Goto(false)>>)

CondValue(e, true, false, st, p) == EmitTest(st.vars + 1, true, false, Operand(e, st, p))

translate_Cond(e, true, false, st, p) ==
  CASE e.exp = "NOT"   -> translate_Cond(e.arg, false, true, st, p)
    [] e.exp = "LP"    -> translate_Cond(e.arg, true, false, st, p)
    [] e.exp = "LOGIC" -> CondLogic(e, true, false, st, p)
    [] e.exp = "RELOP" -> CondCompare(e, true, false, st, p)
    [] OTHER           -> CondValue(e, true, false, st, p)

-----------------------------------------------------------------------------
(* Declarations, statements and functions. *)

\* translate_VarDec: an array or a structure is a block and a variable that
\* holds its address.
translate_VarDec(d, st) ==
  LET v   == st.vars + 1
      tmp == st.vars + 2
  IN IF Aggregate(d.tp)
     THEN Mark(Emit(Bind(NewVars(st, 2), d.name, v, d.tp),
                    <<Dec(tmp, type_sizeof(d.tp)), Assign(Var(v), Ref(tmp))>>), v, TRUE)
     ELSE Bind(NewVars(st, 1), d.name, v, d.tp)

EmitAssign(x, v, st) == Emit(st, <<Assign(Var(x), Rval(v, st))>>)

\* The initial value is assigned to the variable itself, whatever its type.
translate_Init(d, st, p) ==
  IF d.init = << >> THEN st
  ELSE EmitAssign(st.syms[d.name].var, st.vars + 1, Operand(d.init[1], st, p))

translate_Dec(d, st, p) == translate_Init(d, translate_VarDec(d, st), p)

\* After a failed assertion nothing more is translated.
RECURSIVE translate_DefList(_, _, _), translate_Stmt(_, _, _), translate_StmtList(_, _, _)

translate_DefList(ds, st, p) ==
  IF ds = << >> \/ ~st.ok THEN st ELSE translate_DefList(Tail(ds), translate_Dec(Head(ds), st, p), p)

translate_StmtList(ss, st, p) ==
  IF ss = << >> \/ ~st.ok THEN st ELSE translate_StmtList(Tail(ss), translate_Stmt(Head(ss), st, p), p)

translate_CompSt(b, st, p) == translate_StmtList(b.stmts, translate_DefList(b.decs, st, p), p)

EmitReturn(v, st) ==
  Emit(NewVars(st, 1), <<Assign(Var(st.vars + 1), Rval(v, st)), Ret(Var(st.vars + 1))>>)

translate_Return(e, st, p) == EmitReturn(st.vars + 1, Operand(e, st, p))

\* A condition, and the statement that its true label leads to.
Guarded(stmt, true, false, st, p) ==
  translate_Stmt(stmt.then, Emit(translate_Cond(stmt.cond, true, false, st, p), <<Label(true)>>), p)

translate_If(stmt, st, p) ==
  LET true  == st.labels + 1
      false == st.labels + 2
  IN Emit(Guarded(stmt, true, false, NewLabels(st, 2), p), <<Label(false)>>)

translate_IfElse(stmt, st, p) ==
  LET true  == st.labels + 1
      false == st.labels + 2
      end   == st.labels + 3
  IN Emit(translate_Stmt(stmt.else,
            Emit(Guarded(stmt, true, false, NewLabels(st, 3), p), <<Goto(end), Label(false)>>), p),
          <<Label(end)>>)

\* Mutant: the jump back lands behind the condition.
WhileSkipsCondition(stmt, st, p) ==
  LET true  == st.labels + 1
      false == st.labels + 2
  IN Emit(Guarded(stmt, true, false, NewLabels(st, 3), p), <<Goto(true), Label(false)>>)

translate_While(stmt, st, p) ==
  LET true  == st.labels + 1
      false == st.labels + 2
      start == st.labels + 3
  IN Emit(Guarded(stmt, true, false, Emit(NewLabels(st, 3), <<Label(start)>>), p),
          <<Goto(start), Label(false)>>)

translate_Stmt(stmt, st, p) ==
  CASE stmt.stmt = "Exp"    -> translate_Exp(stmt.exp, IgnoreVar, st, p)
    [] stmt.stmt = "CompSt" -> translate_CompSt(stmt, st, p)
    [] stmt.stmt = "RETURN" -> translate_Return(stmt.exp, st, p)
    [] stmt.stmt = "IF"     -> translate_If(stmt, st, p)
    [] stmt.stmt = "ELSE"   -> translate_IfElse(stmt, st, p)
    [] stmt.stmt = "WHILE"  -> translate_While(stmt, st, p)

\* translate_FunDec: the parameters are taken in the order they are named.
translate_Param(x, st) ==
  LET v == st.vars + 1
  IN Emit(Mark(Bind(NewVars(st, 1), x.name, v, x.tp), v, Aggregate(x.tp)), <<Param(v)>>)

\* Mutant: the name of a function comes after its parameters.
FunDecNameLast(f, st, p) ==
  Emit(FoldLeft(LAMBDA s, x : translate_Param(x, s), st, p[f].params), <<Func(f)>>)

translate_FunDec(f, st, p) ==
  FoldLeft(LAMBDA s, x : translate_Param(x, s), Emit(st, <<Func(f)>>), p[f].params)

translate_Fun(f, st, p) == translate_CompSt(p[f].body, translate_FunDec(f, st, p), p)

RECURSIVE translate_ExtDefList(_, _, _)
translate_ExtDefList(fs, st, p) ==
  IF fs = << >> \/ ~st.ok THEN st ELSE translate_ExtDefList(Tail(fs), translate_Fun(Head(fs), st, p), p)

\* The functions in the order in which the source defines them.
ir_translate(order, p) == translate_ExtDefList(order, InitState, p)
=============================================================================
