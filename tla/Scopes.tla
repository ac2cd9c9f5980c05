------------------------------- MODULE Scopes -------------------------------
(***************************************************************************)
(* Names in the compiler: the symbol tables of src/src/symbol.c, the       *)
(* declarations and uses that src/src/semantics.c analyses, and the second *)
(* look at the same tables by which src/src/ir.c finds, for every          *)
(* identifier, the IR variable or label that stands for it.                *)
(*                                                                         *)
(* The two passes resolve a name at different times.  The analysis looks   *)
(* into tables that are still growing; the translation starts when they    *)
(* are complete, and looks into the same tables again.  The environment    *)
(* chooses the source program, one construct of the grammar after the      *)
(* other; the analysis handles each one as the recursive descent of        *)
(* semantics.c reaches it, and leaves in nodes the part of the syntax tree *)
(* that the translation will visit.                                        *)
(*                                                                         *)
(* Types are kept as far as a lookup depends on them: a struct tag, a      *)
(* function with its number of parameters, an int, a struct, or the type   *)
(* NEVER that follows an error.  The functions, their parameters and the   *)
(* initialised variables of a program are of type int.                     *)
(***************************************************************************)
EXTENDS Naturals, Sequences, SequencesExt, FiniteSets

CONSTANTS
  VarNames, ParamNames, FunNames, TagNames, UseNames,
             \* the names that the program uses, by what it uses them for
  ReadName, WriteName,  \* the names of the two library functions
  NoName,    \* no name
  Inits,     \* whether declarations have initialisers
  BareUses,  \* whether an identifier alone is a statement of the program
  MaxParams, MaxDecs,   \* bounds: parameters of a function, names of a Def
  MaxDepth,  \* bound: how deep the blocks of the program are nested
  MaxNodes, MaxSymbols, MaxTables
             \* bounds: the size of the program; no construct is begun when
             \* one of them is reached

ASSUME BoundsAssumption ==
  /\ MaxParams \in Nat /\ MaxDecs \in Nat /\ MaxDepth \in Nat
  /\ MaxNodes \in Nat /\ MaxSymbols \in Nat /\ MaxTables \in Nat
  /\ NoName \notin VarNames \cup ParamNames \cup FunNames \cup TagNames \cup UseNames
  /\ ReadName # WriteName
  /\ Inits \in BOOLEAN /\ BareUses \in BOOLEAN

VARIABLES
  db,     \* the symbols, the tables they are in, and semantics_is_passed
  open,   \* the constructs that are being analysed, innermost last
  nodes,  \* what the translation will visit, in its order
  phase,  \* which pass runs, and how the last one ended
  pc      \* the node the translation is at

vars == <<db, open, nodes, phase, pc>>

None == 0

Names == VarNames \cup ParamNames \cup FunNames \cup TagNames \cup UseNames
           \cup {ReadName, WriteName}

\* The types of variables.
Values == {"int", "struct", "never"}

Symbol == [name : Names, cls : Values \cup {"type", "func"}, argc : Nat,
           state : {"dec", "def"}, ir : {"null", "var", "label"}]

NewSymbol(name, cls, argc, state) ==
  [name |-> name, cls |-> cls, argc |-> argc, state |-> state, ir |-> "null"]

-----------------------------------------------------------------------------
(* symbol.c.  A table is the set of its symbols: st_add refuses a second   *)
(* one of the same name, so that their order does not matter.              *)

st_findonly(d, t, name) ==
  LET found == {s \in d.tables[t].syms : d.symbols[s].name = name}
  IN IF found = {} THEN None ELSE CHOOSE s \in found : TRUE

\* The parent of a table has a smaller number than the table.
st_find(d, t, name) ==
  LET find[u \in 0 .. Len(d.tables)] ==
        IF u = 0 THEN None
        ELSE LET s == st_findonly(d, u, name)
             IN IF s # None THEN s ELSE find[d.tables[u].parent]
  IN find[t]

new_symbol_table(d, parent) ==
  [d EXCEPT !.tables = Append(@, [parent |-> parent, syms |-> {}])]

\* Is s a symbol of this class?
IsA(d, s, cls) == s # None /\ d.symbols[s].cls = cls

Complain(d, cond) == [d EXCEPT !.passed = @ /\ ~cond]

\* Mutant of Declare: the names of one Def are not compared with each other.
DeclareForgetsDuplicates(d, t, names, cls) ==
  LET n == Len(d.symbols)
      Free(i) == st_findonly(d, t, names[i]) = None
                 /\ ~IsA(d, st_find(d, t, names[i]), "type")
      all == DOMAIN names
  IN [symbols |-> d.symbols \o
                    [i \in all |-> NewSymbol(names[i], cls, 0, "dec")],
      tables  |-> [d.tables EXCEPT ![t].syms = @ \cup {n + i : i \in {j \in all : Free(j)}}],
      passed  |-> d.passed /\ \A i \in all : Free(i)]

\* Mutant of Declare: a name may be the tag of a struct.
DeclareForgetsTags(d, t, names, cls) ==
  LET n == Len(d.symbols)
      Free(i) == /\ st_findonly(d, t, names[i]) = None
                 /\ \A j \in 1 .. i - 1 : names[j] # names[i]
      all == DOMAIN names
  IN [symbols |-> d.symbols \o
                    [i \in all |-> NewSymbol(names[i], cls, 0, "dec")],
      tables  |-> [d.tables EXCEPT ![t].syms = @ \cup {n + i : i \in {j \in all : Free(j)}}],
      passed  |-> d.passed /\ \A i \in all : Free(i)]

\* The loop of ExtDecList, ParamDec and Def: each name gets a symbol; the
\* symbol goes into table t unless the name is taken there or is the tag of
\* a struct.
Declare(d, t, names, cls) ==
  LET n == Len(d.symbols)
      Free(i) == /\ st_findonly(d, t, names[i]) = None
                 /\ ~IsA(d, st_find(d, t, names[i]), "type")
                 /\ \A j \in 1 .. i - 1 : names[j] # names[i]
      all == DOMAIN names
  IN [symbols |-> d.symbols \o
                    [i \in all |-> NewSymbol(names[i], cls, 0, "dec")],
      tables  |-> [d.tables EXCEPT ![t].syms = @ \cup {n + i : i \in {j \in all : Free(j)}}],
      passed  |-> d.passed /\ \A i \in all : Free(i)]

-----------------------------------------------------------------------------
(* Specifiers. *)

\* What analyse_Specifier returns; tp is "null" for STRUCT Tag.
NoSpec == [tag |-> NoName, tp |-> "none"]
IntSpec == [tag |-> NoName, tp |-> "int"]

IsStruct(spec) == spec.tag # NoName

\* check_create_struct_specifier: the tag goes into the outermost table.
check_create(d, spec) ==
  LET s == st_findonly(d, 1, spec.tag)
      defines == spec.tp # "null"
      sym == NewSymbol(spec.tag, "type", 0, IF defines THEN "def" ELSE "dec")
  IN IF s = None
     THEN [db |-> [d EXCEPT !.symbols = Append(@, sym),
                            !.tables[1].syms = @ \cup {Len(d.symbols) + 1}],
           spec |-> spec]
     ELSE IF ~IsA(d, s, "type")
     THEN [db |-> Complain(d, TRUE), spec |-> [spec EXCEPT !.tp = "never"]]
     ELSE [db |-> IF d.symbols[s].state = "def" THEN Complain(d, defines)
                  ELSE [d EXCEPT !.symbols[s].state = IF defines THEN "def" ELSE @],
           spec |-> spec]

\* Mutant of resolve: STRUCT Tag is left without a type.
ResolveNothing(d, t, spec) == [db |-> d, spec |-> spec]

\* resolve_struct_specifier_dec, and the error of its callers.
resolve(d, t, spec) ==
  LET s == st_find(d, t, spec.tag)
      known == IsA(d, s, "type") /\ d.symbols[s].state = "def"
  IN IF spec.tp # "null" THEN [db |-> d, spec |-> spec]
     ELSE [db |-> Complain(d, ~known), spec |-> [spec EXCEPT !.tp = "struct"]]

\* Both, as Def and ExtDef call them before they declare variables.
Specified(d, t, spec) ==
  IF ~IsStruct(spec) THEN [db |-> d, spec |-> spec]
  ELSE LET created == check_create(d, spec)
       IN resolve(created.db, t, created.spec)

-----------------------------------------------------------------------------
(* The construct that is being analysed. *)

Context(kind, table, tag, fun) ==
  [kind |-> kind, table |-> table, tag |-> tag, fun |-> fun,
   spec |-> NoSpec, stmts |-> FALSE]

Here == Last(open)

\* The innermost construct with the specifier cleared or set.
With(spec) == [open EXCEPT ![Len(open)].spec = spec]

Node(kind, name, table, sym, params) ==
  [kind |-> kind, name |-> name, table |-> table, sym |-> sym, params |-> params]

SeqsUpTo(S, n) == UNION {[1 .. k -> S] : k \in 0 .. n}

Init ==
  /\ db = [symbols |-> <<NewSymbol(ReadName, "func", 0, "def"),
                         NewSymbol(WriteName, "func", 1, "def")>>,
           tables |-> <<[parent |-> None, syms |-> {1, 2}]>>,
           passed |-> TRUE]
  /\ open = <<Context("unit", 1, NoName, None)>>
  /\ nodes = << >>
  /\ phase = "analyse" /\ pc = 1

\* Where a definition may begin: everywhere but after a statement.
MayDefine ==
  /\ phase = "analyse"
  /\ Len(nodes) < MaxNodes /\ Len(db.symbols) < MaxSymbols
  /\ Here.spec = NoSpec /\ ~Here.stmts

\* Specifier : TYPE
TypeSpecifier ==
  /\ MayDefine
  /\ open' = With(IntSpec)
  /\ UNCHANGED <<db, nodes, phase, pc>>

\* StructSpecifier : STRUCT Tag
TagSpecifier(tag) ==
  /\ MayDefine
  /\ open' = With([tag |-> tag, tp |-> "null"])
  /\ UNCHANGED <<db, nodes, phase, pc>>

\* StructSpecifier : STRUCT OptTag LC DefList RC, up to the DefList.
OpenStruct(tag) ==
  /\ MayDefine /\ Len(db.tables) < MaxTables
  /\ db' = new_symbol_table(db, Here.table)
  /\ open' = Append(open, Context("struct", Len(db.tables) + 1, tag, None))
  /\ UNCHANGED <<nodes, phase, pc>>

CloseStruct ==
  /\ phase = "analyse"
  /\ Here.kind = "struct" /\ Here.spec = NoSpec
  /\ open' = LET outer == Front(open)
             IN [outer EXCEPT ![Len(outer)].spec = [tag |-> Here.tag, tp |-> "struct"]]
  /\ UNCHANGED <<db, nodes, phase, pc>>

-----------------------------------------------------------------------------
(* Definitions. *)

\* ExtDef : Specifier SEMI
ExtDefStruct ==
  /\ phase = "analyse" /\ Here.kind = "unit" /\ IsStruct(Here.spec)
  /\ db' = check_create(db, Here.spec).db
  /\ open' = With(NoSpec)
  /\ UNCHANGED <<nodes, phase, pc>>

\* ExtDef : Specifier ExtDecList SEMI
ExtDefVars(names) ==
  /\ phase = "analyse" /\ Here.kind = "unit" /\ Here.spec # NoSpec
  /\ LET specified == Specified(db, 1, Here.spec)
     IN db' = Declare(specified.db, 1, names, specified.spec.tp)
  /\ open' = With(NoSpec)
  /\ nodes' = Append(nodes, Node("extvars", NoName, 1, None, names))
  /\ UNCHANGED <<phase, pc>>

\* Mutant of Register: a second body is accepted.
RegisterTwice(d, s) ==
  LET sym == d.symbols[s]
      old == st_findonly(d, 1, sym.name)
  IN IF old = None THEN [d EXCEPT !.tables[1].syms = @ \cup {s}]
     ELSE Complain(d, d.symbols[old].cls # "func" \/ d.symbols[old].argc # sym.argc)

\* The end of the FunDec case of ExtDef: symbol s of a function that has been
\* declared or defined meets the outermost table.
Register(d, s) ==
  LET sym == d.symbols[s]
      old == st_findonly(d, 1, sym.name)
      was == d.symbols[old]
  IN IF old = None THEN [d EXCEPT !.tables[1].syms = @ \cup {s}]
     ELSE IF was.cls # "func" \/ was.state = "def" \/ was.argc # sym.argc
     THEN Complain(d, TRUE)
     ELSE [d EXCEPT !.symbols[old].state = sym.state]

\* analyse_FunDec: the parameters, and the function itself, go into a table of
\* their own.
FunTable(params) == Declare(new_symbol_table(db, 1), Len(db.tables) + 1, params, "int")

WithFun(f, params, state) ==
  LET d == FunTable(params)
  IN [d EXCEPT !.symbols = Append(@, NewSymbol(f, "func", Len(params), state)),
               !.tables[Len(d.tables)].syms = @ \cup {Len(d.symbols) + 1}]

\* The function's own name among its parameters fails the assertion of st_add.
FunClash(f, params) == st_findonly(FunTable(params), Len(db.tables) + 1, f) # None

ExtDefFunAborts(f, params) ==
  /\ phase = "analyse" /\ Here.kind = "unit" /\ Here.spec = IntSpec
  /\ FunClash(f, params)
  /\ phase' = "aborted"
  /\ UNCHANGED <<db, open, nodes, pc>>

\* ExtDef : Specifier FunDec SEMI
ExtDefFunDec(f, params) ==
  /\ phase = "analyse" /\ Here.kind = "unit" /\ Here.spec = IntSpec
  /\ ~FunClash(f, params)
  /\ LET d == WithFun(f, params, "dec") IN db' = Register(d, Len(d.symbols))
  /\ open' = With(NoSpec)
  /\ nodes' = Append(nodes, Node("fundec", f, 1, None, params))
  /\ UNCHANGED <<phase, pc>>

\* ExtDef : Specifier FunDec CompSt, up to the body.
OpenFun(f, params) ==
  /\ phase = "analyse" /\ Here.kind = "unit" /\ Here.spec = IntSpec
  /\ ~FunClash(f, params) /\ Len(db.tables) < MaxTables
  /\ LET d == WithFun(f, params, "def")
         table == Len(d.tables)
     IN /\ db' = new_symbol_table(d, table)
        /\ open' = Append(With(NoSpec), Context("block", table + 1, NoName, Len(d.symbols)))
        /\ nodes' = Append(nodes, Node("fun", f, table, Len(d.symbols), params))
  /\ UNCHANGED <<phase, pc>>

\* Mutant of OpenBlock: an inner block has no table of its own.
OpenBlockSharesTable ==
  /\ phase = "analyse" /\ Here.kind = "block" /\ Here.spec = NoSpec
  /\ Len(open) <= MaxDepth
  /\ open' = Append([open EXCEPT ![Len(open)].stmts = TRUE],
                    Context("block", Here.table, NoName, None))
  /\ UNCHANGED <<db, nodes, phase, pc>>

\* Stmt : CompSt, up to the DefList.
OpenBlock ==
  /\ phase = "analyse" /\ Here.kind = "block" /\ Here.spec = NoSpec
  /\ Len(open) <= MaxDepth /\ Len(db.tables) < MaxTables
  /\ db' = new_symbol_table(db, Here.table)
  /\ open' = Append([open EXCEPT ![Len(open)].stmts = TRUE],
                    Context("block", Len(db.tables) + 1, NoName, None))
  /\ UNCHANGED <<nodes, phase, pc>>

\* The end of a CompSt; at the end of a body the function is registered.
CloseBlock ==
  /\ phase = "analyse" /\ Here.kind = "block" /\ Here.spec = NoSpec
  /\ db' = IF Here.fun = None THEN db ELSE Register(db, Here.fun)
  /\ open' = Front(open)
  /\ UNCHANGED <<nodes, phase, pc>>

\* What the translation of one Dec visits: translate_VarDec, then the
\* expression.  Mutant: the other way round.
DecNodesInitFirst(dec, t, sym, used) ==
  IF dec.init = NoName THEN <<Node("dec", dec.name, t, sym, << >>)>>
  ELSE <<Node("id", dec.init, t, used, << >>), Node("dec", dec.name, t, sym, << >>)>>

DecNodes(dec, t, sym, used) ==
  IF dec.init = NoName THEN <<Node("dec", dec.name, t, sym, << >>)>>
  ELSE <<Node("dec", dec.name, t, sym, << >>), Node("id", dec.init, t, used, << >>)>>

\* Def : Specifier DecList SEMI.  The initialisers are analysed with the
\* DecList, before the first of its names is in the table.
Def(decs) ==
  /\ phase = "analyse" /\ Here.kind \in {"block", "struct"} /\ Here.spec # NoSpec
  /\ LET t == Here.table
         specified == Specified(db, t, Here.spec)
         d == specified.db
         names == [i \in DOMAIN decs |-> decs[i].name]
         inits == {i \in DOMAIN decs : decs[i].init # NoName}
         used(i) == st_find(d, t, decs[i].init)
         mistyped == \E i \in inits :
                       used(i) = None \/ d.symbols[used(i)].cls \notin {"int", "never"}
         visit(i) == DecNodes(decs[i], t, Len(d.symbols) + i, used(i))
     IN /\ inits # {} => specified.spec.tp = "int"
        /\ db' = Complain(Declare(d, t, names, specified.spec.tp),
                          mistyped \/ (Here.kind = "struct" /\ inits # {}))
        /\ nodes' = IF Here.kind = "struct" THEN nodes
                    ELSE nodes \o FlattenSeq([i \in DOMAIN decs |-> visit(i)])
  /\ open' = With(NoSpec)
  /\ UNCHANGED <<phase, pc>>

-----------------------------------------------------------------------------
(* Uses: an identifier alone, an identifier under a unary minus, a call of a
function with constants for its arguments. *)

\* Mutant of Use: any name that is known may be used in any way.
UseAnything(kind, name, args) ==
  /\ phase = "analyse" /\ Here.kind = "block" /\ Here.spec = NoSpec
  /\ Len(nodes) < MaxNodes
  /\ LET s == st_find(db, Here.table, name)
     IN /\ db' = Complain(db, s = None)
        /\ nodes' = Append(nodes, Node(kind, name, Here.table, s, args))
  /\ open' = [open EXCEPT ![Len(open)].stmts = TRUE]
  /\ UNCHANGED <<phase, pc>>

Use(kind, name, args) ==
  /\ phase = "analyse" /\ Here.kind = "block" /\ Here.spec = NoSpec
  /\ Len(nodes) < MaxNodes
  /\ LET s == st_find(db, Here.table, name)
         right == CASE kind = "id" -> s # None
                    [] kind = "neg" -> IsA(db, s, "int")
                    [] kind = "call" -> IsA(db, s, "func") /\ db.symbols[s].argc = Len(args)
     IN /\ db' = Complain(db, ~right)
        /\ nodes' = Append(nodes, Node(kind, name, Here.table, s, args))
  /\ open' = [open EXCEPT ![Len(open)].stmts = TRUE]
  /\ UNCHANGED <<phase, pc>>

\* Mutant of Finish: functions without a body are forgotten.
FinishAtOnce ==
  /\ phase = "analyse" /\ Here.kind = "unit" /\ Here.spec = NoSpec
  /\ phase' = IF db.passed THEN "translate" ELSE "rejected"
  /\ UNCHANGED <<db, open, nodes, pc>>

\* The end of the file: analyse_Program looks for functions without a body,
\* and main goes on to the translation if there was no error.
Finish ==
  /\ phase = "analyse" /\ Here.kind = "unit" /\ Here.spec = NoSpec
  /\ LET undefined == {s \in db.tables[1].syms :
                         IsA(db, s, "func") /\ db.symbols[s].state = "dec"}
     IN /\ db' = Complain(db, undefined # {})
        /\ phase' = IF db.passed /\ undefined = {} THEN "translate" ELSE "rejected"
  /\ UNCHANGED <<open, nodes, pc>>

-----------------------------------------------------------------------------
(* The translation, by one node a step. *)

At == nodes[pc]

\* What get_symbol_by_id finds this time.
Found == st_find(db, At.table, At.name)

Visit(kinds) == phase = "translate" /\ pc <= Len(nodes) /\ At.kind \in kinds

SetIr(d, syms, ir) ==
  [d EXCEPT !.symbols = [s \in DOMAIN @ |->
                           IF s \in syms THEN [@[s] EXCEPT !.ir = ir] ELSE @[s]]]

Advance(d) == db' = d /\ pc' = pc + 1 /\ UNCHANGED phase

\* A failed assertion ends the compiler.
Stop(how) == phase' = how /\ UNCHANGED <<db, pc>>

\* panic: global variables and function declarations have no translation.
TranslateExt ==
  /\ Visit({"extvars", "fundec"})
  /\ Stop("unsupported")
  /\ UNCHANGED <<open, nodes>>

\* translate_FunDec: the label goes to the symbol of the outermost table, the
\* variables to the parameters in the function's own.  The code asks for the
\* names that the function's symbol was created with, which would be those of
\* an earlier declaration; such a declaration has already ended the
\* translation, so that they are the names of this definition.
TranslateFunDec ==
  /\ Visit({"fun"})
  /\ LET f == st_find(db, 1, At.name)
         params == {st_findonly(db, At.table, At.params[i]) : i \in DOMAIN At.params}
     IN IF f = None \/ None \in params THEN Stop("dangling")
        ELSE Advance(SetIr(SetIr(db, {f}, "label"), params, "var"))
  /\ UNCHANGED <<open, nodes>>

\* translate_VarDec: the symbol hangs at the node.
TranslateVarDec ==
  /\ Visit({"dec"})
  /\ Advance(SetIr(db, {At.sym}, "var"))
  /\ UNCHANGED <<open, nodes>>

\* translate_Exp : ID, with its two assertions and its cast.
TranslateId ==
  /\ Visit({"id", "neg"})
  /\ IF Found = None \/ db.symbols[Found].ir # "var" THEN Stop("dangling")
     ELSE Advance(db)
  /\ UNCHANGED <<open, nodes>>

\* translate_Exp : ID LP RP and ID LP Args RP.
TranslateCall ==
  /\ Visit({"call"})
  /\ LET library == At.name = IF At.params = << >> THEN ReadName ELSE WriteName
     IN IF /\ IsA(db, Found, "func")
           /\ library \/ db.symbols[Found].ir = "label"
        THEN Advance(db) ELSE Stop("dangling")
  /\ UNCHANGED <<open, nodes>>

TranslationEnds ==
  /\ phase = "translate" /\ pc > Len(nodes)
  /\ phase' = "translated"
  /\ UNCHANGED <<db, open, nodes, pc>>

\* The compiler has stopped.
Over == phase \notin {"analyse", "translate"} /\ UNCHANGED vars

Initialisers == IF Inits THEN UseNames \cup {NoName} ELSE {NoName}

Decs == [name : VarNames, init : Initialisers]

Analyse ==
  \/ TypeSpecifier
  \/ \E tag \in TagNames : TagSpecifier(tag) \/ OpenStruct(tag)
  \/ CloseStruct
  \/ ExtDefStruct
  \/ \E names \in SeqsUpTo(VarNames, MaxDecs) \ {<< >>} : ExtDefVars(names)
  \/ \E f \in FunNames, params \in SeqsUpTo(ParamNames, MaxParams) :
       ExtDefFunAborts(f, params) \/ ExtDefFunDec(f, params) \/ OpenFun(f, params)
  \/ OpenBlock \/ CloseBlock
  \/ \E decs \in SeqsUpTo(Decs, MaxDecs) \ {<< >>} : Def(decs)
  \/ BareUses /\ \E name \in UseNames : Use("id", name, << >>)
  \/ \E name \in UseNames : Use("neg", name, << >>)
  \/ \E name \in UseNames, args \in SeqsUpTo({NoName}, 1) : Use("call", name, args)
  \/ Finish

Translate ==
  \/ TranslateExt \/ TranslateFunDec \/ TranslateVarDec
  \/ TranslateId \/ TranslateCall \/ TranslationEnds

Next == Analyse \/ Translate \/ Over

Spec == Init /\ [][Next]_vars

-----------------------------------------------------------------------------
(* Properties. *)

TypeOK ==
  /\ db.symbols \in Seq(Symbol)
  /\ \A t \in DOMAIN db.tables :
       /\ db.tables[t].parent \in 0 .. t - 1
       /\ db.tables[t].syms \subseteq DOMAIN db.symbols
  /\ db.passed \in BOOLEAN
  /\ \A i \in DOMAIN open : open[i].table \in DOMAIN db.tables
  /\ phase \in {"analyse", "translate", "rejected", "translated",
                "unsupported", "aborted", "dangling"}
  /\ pc \in 1 .. Len(nodes) + 1

\* No table holds two symbols of one name, so that what a lookup finds does
\* not depend on the order of the chain: ExtDecList, ParamDec, Def, the struct
\* tags and the functions all look before they call st_add.
UniqueNames ==
  \A t \in DOMAIN db.tables : \A r, s \in db.tables[t].syms :
    db.symbols[r].name = db.symbols[s].name => r = s

\* The assertion of st_add (symbol.c:54) never fails: whoever calls it has
\* made sure that the name is free.
AddsAreChecked == phase # "aborted"

\* The assertions and the cast of translate_Exp and translate_FunDec never
\* fail (ir.c:302, 312, 650-652, 693, 701, 906): whatever the analysis has
\* accepted, each name has its variable or its label when it is translated.
TranslationFindsNames == phase # "dangling"

\* A name means the same symbol to the translation as it meant to the
\* analysis, although the tables have grown in the meantime.
StableNames ==
  phase = "translate" /\ pc <= Len(nodes) /\ At.kind \in {"id", "neg", "call"}
    => Found = At.sym

\* What the analysis promises of an accepted program: every function that is
\* declared or called has exactly one body, declared, called and defined with
\* the same number of parameters; the library's functions have none.
FunctionsAreDefined ==
  phase \notin {"analyse", "aborted", "rejected"} =>
    LET bodies(f) == {i \in DOMAIN nodes : nodes[i].kind = "fun" /\ nodes[i].name = f}
    IN \A i \in DOMAIN nodes : nodes[i].kind \in {"fun", "fundec", "call"} =>
         LET n == nodes[i]
         IN IF n.name \in {ReadName, WriteName}
            THEN /\ bodies(n.name) = {} /\ n.kind # "fundec"
                 /\ Len(n.params) = IF n.name = ReadName THEN 0 ELSE 1
            ELSE \E body \in bodies(n.name) :
                   /\ bodies(n.name) = {body}
                   /\ Len(nodes[body].params) = Len(n.params)

\* The tables in which st_find looks, starting from t.
Enclosing(d, t) ==
  LET chain[u \in 0 .. Len(d.tables)] ==
        IF u = 0 THEN {} ELSE {u} \cup chain[d.tables[u].parent]
  IN chain[t]

\* Struct tags are in the outermost table only, so that they are known to the
\* whole program.  A variable hides a tag only where a variable of that name
\* was in scope before the tag, or a function of that name is: the struct
\* specifiers compare the tag with the outermost table alone
\* (check_create_struct_specifier), the declarations of variables with all
\* tables, and a function enters its own table before anything is compared
\* with its name.
TagsAreGlobal ==
  \A t \in DOMAIN db.tables : \A s \in db.tables[t].syms :
    LET name == db.symbols[s].name
        tag == st_findonly(db, 1, name)
    IN /\ db.symbols[s].cls = "type" => t = 1
       /\ db.symbols[s].cls \in Values /\ IsA(db, tag, "type")
            => \E u \in Enclosing(db, t) : \E v \in db.tables[u].syms :
                 /\ db.symbols[v].name = name
                 /\ v < tag \/ db.symbols[v].cls = "func"
=============================================================================
