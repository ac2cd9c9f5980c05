--------------------------- MODULE ScopesTranslation ---------------------------
(***************************************************************************)
(* Functions, from the first declaration to the end of the analysis: what  *)
(* semantics.c keeps of them while it goes on after errors, and what it    *)
(* has made sure of when there was none.  Then the translation: each of    *)
(* its lookups finds a symbol, and that has the variable or the label that *)
(* an earlier node has given to it.                                        *)
(***************************************************************************)
EXTENDS ScopesProofs

IsFun(d, s) == d.symbols[s].cls = "func"
IsVar(d, s) == d.symbols[s].cls \in Values

\* The functions that the compiler knows before it starts.
Library(d) ==
  /\ Len(d.symbols) >= 2 /\ 1 \in d.tables[1].syms /\ 2 \in d.tables[1].syms
  /\ d.symbols[1].name = ReadName /\ d.symbols[2].name = WriteName
  /\ \A s \in {1, 2} : /\ IsFun(d, s) /\ d.symbols[s].argc = s - 1
                       /\ d.symbols[s].state = "def"

\* Node n is the definition of function s, or a declaration of it.
Declares(d, n, s) ==
  /\ n.kind \in {"fun", "fundec"}
  /\ n.kind = "fun" => n.sym = s
  /\ n.name = d.symbols[s].name
  /\ Len(n.params) = d.symbols[s].argc

\* Every other function is declared or defined in the program.
Introduced(d, ns) ==
  \A s \in 3 .. Len(d.symbols) : IsFun(d, s) => \E i \in 1 .. Len(ns) : Declares(d, ns[i], s)

\* Every body has a symbol of its own.
IsBody(d, n) ==
  /\ n.sym \in 3 .. Len(d.symbols) /\ IsFun(d, n.sym) /\ d.symbols[n.sym].state = "def"
  /\ Declares(d, n, n.sym)

Bodies(d, ns) ==
  \A i \in 1 .. Len(ns) : ns[i].kind = "fun" =>
    /\ IsBody(d, ns[i])
    /\ \A j \in 1 .. Len(ns) : ns[j].kind = "fun" /\ ns[j].sym = ns[i].sym => j = i

\* A body that is being analysed comes after all declarations.
OpenBodies(o, ns) ==
  \A i \in 1 .. Len(o) : o[i].fun # None =>
    /\ i = 2 /\ o[i].kind = "block"
    /\ \E j \in 1 .. Len(ns) : /\ ns[j].kind = "fun" /\ ns[j].sym = o[i].fun
                               /\ \A k \in 1 .. Len(ns) : ns[k].kind = "fundec" => k < j

\* A body that has been analysed.
Closed(o, n) == n.kind = "fun" /\ \A i \in 1 .. Len(o) : o[i].fun # n.sym

\* While there are no errors: the outermost table has the symbol of a function
\* that is declared or defined, and it agrees with the node.
HasSymbol(d, o, ns, i) ==
  LET s == st_findonly(d, 1, ns[i].name)
  IN /\ s # None /\ s \notin {1, 2} /\ IsFun(d, s)
     /\ d.symbols[s].argc = Len(ns[i].params)
     /\ Closed(o, ns[i]) =>
          /\ d.symbols[s].state = "def"
          /\ \/ s = ns[i].sym
             \/ \E k \in 1 .. i - 1 : ns[k].kind = "fundec" /\ ns[k].name = ns[i].name

HaveSymbols(d, o, ns) ==
  \A i \in 1 .. Len(ns) : Closed(o, ns[i]) \/ ns[i].kind = "fundec" => HasSymbol(d, o, ns, i)

OneBody(o, ns) ==
  \A i, j \in 1 .. Len(ns) :
    Closed(o, ns[i]) /\ Closed(o, ns[j]) /\ ns[i].name = ns[j].name => i = j

HaveBodies(d, o, ns) ==
  \A s \in d.tables[1].syms : IsFun(d, s) /\ s \notin {1, 2} /\ d.symbols[s].state = "def" =>
    \E i \in 1 .. Len(ns) : Closed(o, ns[i]) /\ ns[i].name = d.symbols[s].name

\* A call is a call of a function that takes as many arguments.
IsCall(d, n) ==
  /\ n.sym \in 1 .. Len(d.symbols) /\ IsFun(d, n.sym)
  /\ d.symbols[n.sym].name = n.name
  /\ d.symbols[n.sym].argc = Len(n.params)

Calls(d, ns) == \A i \in 1 .. Len(ns) : ns[i].kind = "call" => IsCall(d, ns[i])

FunsInv(d, o, ns) ==
  /\ Library(d) /\ Introduced(d, ns) /\ Bodies(d, ns) /\ OpenBodies(o, ns)
  /\ d.passed => /\ HaveSymbols(d, o, ns) /\ OneBody(o, ns)
                 /\ HaveBodies(d, o, ns) /\ Calls(d, ns)

Accepted == phase \in {"translate", "translated", "unsupported", "dangling"}

FunInv ==
  /\ FunsInv(db, open, nodes)
  /\ Accepted => /\ db.passed /\ Len(open) = 1
                 /\ \A s \in db.tables[1].syms : IsFun(db, s) => db.symbols[s].state = "def"

-----------------------------------------------------------------------------
(* What symbols and nodes keep. *)

LEMMA DeclaresStays ==
  ASSUME NEW d, NEW e, Grows(d, e), NEW s \in 1 .. Len(d.symbols), NEW n, Declares(d, n, s)
  PROVE  Declares(e, n, s)
BY DEF Grows, Declares

LEMMA IsCallStays ==
  ASSUME NEW d, NEW e, WellFormed(d), WellFormed(e), Grows(d, e), NEW n, IsCall(d, n)
  PROVE  IsCall(e, n)
<1>1. Len(d.symbols) \in Nat /\ Len(e.symbols) \in Nat /\ Len(d.symbols) <= Len(e.symbols)
  BY DbParts DEF Grows
<1>2. n.sym \in 1 .. Len(d.symbols) /\ n.sym \in 1 .. Len(e.symbols)
  BY <1>1 DEF IsCall
<1> QED BY <1>2 DEF Grows, IsCall, IsFun

LEMMA IsBodyStays ==
  ASSUME NEW d, NEW e, WellFormed(d), WellFormed(e), Grows(d, e), NEW n, IsBody(d, n),
         e.symbols[n.sym].state = "def"
  PROVE  IsBody(e, n)
<1>1. Len(d.symbols) \in Nat /\ Len(e.symbols) \in Nat /\ Len(d.symbols) <= Len(e.symbols)
  BY DbParts DEF Grows
<1>2. /\ n.sym \in 1 .. Len(d.symbols) /\ n.sym \in 3 .. Len(e.symbols)
      /\ Declares(d, n, n.sym) /\ IsFun(d, n.sym)
  BY <1>1 DEF IsBody
<1>3. Declares(e, n, n.sym)
  BY <1>2, DeclaresStays
<1>4. IsFun(e, n.sym)
  BY <1>2 DEF Grows, IsFun
<1> QED BY <1>2, <1>3, <1>4 DEF IsBody

\* The symbol of a name in the outermost table.
LEMMA OuterStays ==
  ASSUME NEW d, NEW e, WellFormed(d), WellFormed(e), Grows(d, e), Unique(e), NEW name,
         st_findonly(d, 1, name) # None
  PROVE  /\ st_findonly(e, 1, name) = st_findonly(d, 1, name)
         /\ st_findonly(d, 1, name) \in d.tables[1].syms
         /\ st_findonly(d, 1, name) \in 1 .. Len(d.symbols)
         /\ d.symbols[st_findonly(d, 1, name)].name = name
<1>1. 1 \in 1 .. Len(d.tables)
  <2>1. Len(d.tables) \in Nat /\ Len(d.tables) >= 1
    BY DbParts
  <2> QED BY <2>1
<1> QED BY <1>1, FindOnlyStays, FindOnly

LEMMA LibraryStays ==
  ASSUME NEW d, NEW e, WellFormed(d), WellFormed(e), Grows(d, e), Library(d),
         \A s \in {1, 2} : e.symbols[s].state = "def"
  PROVE  Library(e)
<1>1. /\ Len(d.symbols) \in Nat /\ Len(e.symbols) \in Nat /\ Len(d.symbols) <= Len(e.symbols)
      /\ Len(d.tables) \in Nat /\ Len(d.tables) >= 1
  BY DbParts DEF Grows
<1>2. 1 \in 1 .. Len(d.symbols) /\ 2 \in 1 .. Len(d.symbols) /\ Len(d.symbols) >= 2
      /\ 1 \in 1 .. Len(d.tables)
  BY <1>1 DEF Library
<1>3. d.tables[1].syms \subseteq e.tables[1].syms
  BY <1>2 DEF Grows
<1>4. /\ e.symbols[1].name = ReadName /\ e.symbols[2].name = WriteName
      /\ \A s \in {1, 2} : IsFun(e, s) /\ e.symbols[s].argc = s - 1
  BY <1>2 DEF Grows, Library, IsFun
<1> QED BY <1>1, <1>2, <1>3, <1>4 DEF Library

-----------------------------------------------------------------------------
(* Steps that neither declare, nor define, nor register a function. *)

Quiet(d, e, o, p, ns, ms) ==
  /\ WellFormed(d) /\ WellFormed(e) /\ Grows(d, e) /\ Unique(e) /\ (e.passed => d.passed)
  /\ \A s \in 1 .. Len(d.symbols) : IsFun(d, s) => e.symbols[s].state = d.symbols[s].state
  /\ \A s \in Len(d.symbols) + 1 .. Len(e.symbols) : ~IsFun(e, s)
  /\ Len(ns) \in Nat /\ Len(ms) \in Nat /\ Prolongs(ns, ms)
  /\ \A k \in Len(ns) + 1 .. Len(ms) :
       /\ ms[k].kind \notin {"fun", "fundec"}
       /\ e.passed /\ ms[k].kind = "call" => IsCall(e, ms[k])
  /\ \A s \in e.tables[1].syms : IsFun(e, s) => s \in d.tables[1].syms
  /\ Len(o) \in Nat /\ Len(p) \in Nat
  /\ \A i \in 1 .. Len(p) : p[i].fun # None =>
       i <= Len(o) /\ p[i].fun = o[i].fun /\ p[i].kind = o[i].kind
  /\ \A i \in 1 .. Len(o) : o[i].fun # None => i <= Len(p) /\ p[i].fun = o[i].fun

LEMMA QuietParts ==
  ASSUME NEW d, NEW e, NEW o, NEW p, NEW ns, NEW ms, Quiet(d, e, o, p, ns, ms)
  PROVE  /\ Len(d.symbols) \in Nat /\ Len(e.symbols) \in Nat /\ Len(d.symbols) <= Len(e.symbols)
         /\ Len(ns) \in Nat /\ Len(ms) \in Nat /\ Len(ns) <= Len(ms)
         /\ \A i \in 1 .. Len(ns) : i \in 1 .. Len(ms) /\ ms[i] = ns[i]
         /\ \A i \in 1 .. Len(ms) : ms[i].kind \in {"fun", "fundec"} =>
              i \in 1 .. Len(ns) /\ ms[i] = ns[i]
         /\ \A s \in 1 .. Len(e.symbols) : IsFun(e, s) =>
              /\ s \in 1 .. Len(d.symbols) /\ IsFun(d, s)
              /\ e.symbols[s].state = d.symbols[s].state
              /\ e.symbols[s].name = d.symbols[s].name
              /\ e.symbols[s].argc = d.symbols[s].argc
<1>1. /\ Len(d.symbols) \in Nat /\ Len(e.symbols) \in Nat /\ Len(d.symbols) <= Len(e.symbols)
      /\ Len(ns) \in Nat /\ Len(ms) \in Nat /\ Len(ns) <= Len(ms)
  BY DbParts DEF Quiet, Grows, Prolongs
<1>2. \A i \in 1 .. Len(ns) : i \in 1 .. Len(ms) /\ ms[i] = ns[i]
  BY <1>1 DEF Quiet, Prolongs
<1>3. \A i \in 1 .. Len(ms) : i \in 1 .. Len(ns) \/ i \in Len(ns) + 1 .. Len(ms)
  BY <1>1
<1>4. \A i \in 1 .. Len(ms) : ms[i].kind \in {"fun", "fundec"} =>
        i \in 1 .. Len(ns) /\ ms[i] = ns[i]
  BY <1>2, <1>3 DEF Quiet
<1>5. ASSUME NEW s \in 1 .. Len(e.symbols), IsFun(e, s)
      PROVE  /\ s \in 1 .. Len(d.symbols) /\ IsFun(d, s)
             /\ e.symbols[s].state = d.symbols[s].state
             /\ e.symbols[s].name = d.symbols[s].name
             /\ e.symbols[s].argc = d.symbols[s].argc
  <2>1. s \in 1 .. Len(d.symbols) \/ s \in Len(d.symbols) + 1 .. Len(e.symbols)
    BY <1>1
  <2>2. s \in 1 .. Len(d.symbols)
    BY <1>5, <2>1 DEF Quiet
  <2>3. /\ e.symbols[s].name = d.symbols[s].name /\ e.symbols[s].cls = d.symbols[s].cls
        /\ e.symbols[s].argc = d.symbols[s].argc
    BY <2>2 DEF Quiet, Grows
  <2>4. IsFun(d, s)
    BY <1>5, <2>3 DEF IsFun
  <2> QED BY <2>2, <2>3, <2>4 DEF Quiet
<1> QED BY <1>1, <1>2, <1>4, <1>5

LEMMA QuietClosed ==
  ASSUME NEW d, NEW e, NEW o, NEW p, NEW ns, NEW ms, Quiet(d, e, o, p, ns, ms),
         NEW n, n.sym # None
  PROVE  Closed(p, n) <=> Closed(o, n)
<1>1. \A i \in 1 .. Len(p) : p[i].fun = n.sym => i \in 1 .. Len(o) /\ o[i].fun = n.sym
  BY DEF Quiet
<1>2. \A i \in 1 .. Len(o) : o[i].fun = n.sym => i \in 1 .. Len(p) /\ p[i].fun = n.sym
  BY DEF Quiet
<1> QED BY <1>1, <1>2 DEF Closed

\* Every function that is defined stays defined.
KeepsDefined(d, e) ==
  \A s \in 1 .. Len(d.symbols) : IsFun(d, s) /\ d.symbols[s].state = "def" =>
    e.symbols[s].state = "def"

LEMMA SymbolStays ==
  ASSUME NEW d, NEW e, WellFormed(d), WellFormed(e), Grows(d, e), Unique(e), KeepsDefined(d, e),
         NEW o, NEW p, NEW ns, NEW ms, Len(ns) \in Nat, Len(ms) \in Nat, Prolongs(ns, ms),
         NEW i \in 1 .. Len(ns), HasSymbol(d, o, ns, i),
         Closed(p, ns[i]) => Closed(o, ns[i])
  PROVE  HasSymbol(e, p, ms, i)
<1>1. PICK s, name : s = st_findonly(d, 1, name) /\ name = ns[i].name
  OBVIOUS
<1>2. /\ s # None /\ s \notin {1, 2} /\ IsFun(d, s)
      /\ d.symbols[s].argc = Len(ns[i].params)
      /\ Closed(o, ns[i]) =>
           /\ d.symbols[s].state = "def"
           /\ s = ns[i].sym \/ \E k \in 1 .. i - 1 : ns[k].kind = "fundec" /\ ns[k].name = name
  BY <1>1 DEF HasSymbol
<1>3. st_findonly(e, 1, name) = s /\ s \in 1 .. Len(d.symbols)
  BY <1>1, <1>2, OuterStays
<1>4. e.symbols[s].argc = d.symbols[s].argc /\ e.symbols[s].cls = d.symbols[s].cls
  BY <1>3 DEF Grows
<1>5. d.symbols[s].state = "def" => e.symbols[s].state = "def"
  BY <1>2, <1>3 DEF KeepsDefined
<1>6. /\ ms[i] = ns[i] /\ i \in Nat
      /\ \A k \in 1 .. i - 1 : k \in 1 .. Len(ns) /\ ms[k] = ns[k]
  <2>1. \A k \in 1 .. i - 1 : k \in 1 .. Len(ns)
    OBVIOUS
  <2> QED BY <2>1 DEF Prolongs
<1> QED BY <1>1, <1>2, <1>3, <1>4, <1>5, <1>6 DEF HasSymbol, IsFun

LEMMA QuietFuns ==
  ASSUME NEW d, NEW e, NEW o, NEW p, NEW ns, NEW ms, Quiet(d, e, o, p, ns, ms),
         FunsInv(d, o, ns)
  PROVE  FunsInv(e, p, ms)
<1>1. /\ WellFormed(d) /\ WellFormed(e) /\ Grows(d, e) /\ Unique(e) /\ (e.passed => d.passed)
  BY DEF Quiet
<1>2. /\ Len(d.symbols) \in Nat /\ Len(e.symbols) \in Nat /\ Len(d.symbols) <= Len(e.symbols)
      /\ Len(ns) \in Nat /\ Len(ms) \in Nat /\ Len(ns) <= Len(ms)
      /\ \A i \in 1 .. Len(ns) : i \in 1 .. Len(ms) /\ ms[i] = ns[i]
      /\ \A i \in 1 .. Len(ms) : ms[i].kind \in {"fun", "fundec"} =>
           i \in 1 .. Len(ns) /\ ms[i] = ns[i]
      /\ \A s \in 1 .. Len(e.symbols) : IsFun(e, s) =>
           /\ s \in 1 .. Len(d.symbols) /\ IsFun(d, s)
           /\ e.symbols[s].state = d.symbols[s].state
           /\ e.symbols[s].name = d.symbols[s].name
           /\ e.symbols[s].argc = d.symbols[s].argc
  BY QuietParts
<1>3. Library(d) /\ Introduced(d, ns) /\ Bodies(d, ns) /\ OpenBodies(o, ns)
  BY DEF FunsInv
<1>4. Library(e)
  <2>1. \A s \in {1, 2} : s \in 1 .. Len(d.symbols) /\ IsFun(d, s) /\ d.symbols[s].state = "def"
    BY <1>2, <1>3 DEF Library
  <2>2. \A s \in {1, 2} : e.symbols[s].state = "def"
    BY <2>1 DEF Quiet
  <2> QED BY <1>1, <1>3, <2>2, LibraryStays
<1>5. Introduced(e, ms)
  <2> SUFFICES ASSUME NEW s \in 3 .. Len(e.symbols), IsFun(e, s)
               PROVE  \E i \in 1 .. Len(ms) : Declares(e, ms[i], s)
    BY DEF Introduced
  <2>1. s \in 1 .. Len(d.symbols) /\ IsFun(d, s) /\ s \in 3 .. Len(d.symbols)
    BY <1>2
  <2>2. PICK i \in 1 .. Len(ns) : Declares(d, ns[i], s)
    BY <1>3, <2>1 DEF Introduced
  <2>3. Declares(e, ns[i], s)
    BY <1>1, <2>1, <2>2, DeclaresStays
  <2> QED BY <1>2, <2>3
<1>6. Bodies(e, ms)
  <2>1. ASSUME NEW i \in 1 .. Len(ms), ms[i].kind = "fun"
        PROVE  IsBody(e, ms[i])
    <3>1. i \in 1 .. Len(ns) /\ ms[i] = ns[i]
      BY <1>2, <2>1
    <3>2. IsBody(d, ns[i])
      BY <1>3, <2>1, <3>1 DEF Bodies
    <3>3. e.symbols[ns[i].sym].state = "def"
      <4>1. /\ ns[i].sym \in 1 .. Len(d.symbols) /\ IsFun(d, ns[i].sym)
            /\ d.symbols[ns[i].sym].state = "def"
        BY <1>2, <3>2 DEF IsBody
      <4> QED BY <4>1 DEF Quiet
    <3> QED BY <1>1, <3>1, <3>2, <3>3, IsBodyStays
  <2>2. ASSUME NEW i \in 1 .. Len(ms), ms[i].kind = "fun",
               NEW j \in 1 .. Len(ms), ms[j].kind = "fun", ms[j].sym = ms[i].sym
        PROVE  j = i
    BY <1>2, <1>3, <2>2 DEF Bodies
  <2> QED BY <2>1, <2>2 DEF Bodies
<1>7. OpenBodies(p, ms)
  <2> SUFFICES ASSUME NEW i \in 1 .. Len(p), p[i].fun # None
               PROVE  /\ i = 2 /\ p[i].kind = "block"
                      /\ \E j \in 1 .. Len(ms) :
                           /\ ms[j].kind = "fun" /\ ms[j].sym = p[i].fun
                           /\ \A k \in 1 .. Len(ms) : ms[k].kind = "fundec" => k < j
    BY DEF OpenBodies
  <2>1. i \in 1 .. Len(o) /\ p[i].fun = o[i].fun /\ p[i].kind = o[i].kind
    BY DEF Quiet
  <2>2. i = 2 /\ o[i].kind = "block"
    BY <1>3, <2>1 DEF OpenBodies
  <2>3. PICK j \in 1 .. Len(ns) : /\ ns[j].kind = "fun" /\ ns[j].sym = o[i].fun
                                  /\ \A k \in 1 .. Len(ns) : ns[k].kind = "fundec" => k < j
    BY <1>3, <2>1 DEF OpenBodies
  <2>4. j \in 1 .. Len(ms) /\ ms[j] = ns[j]
    BY <1>2
  <2>5. \A k \in 1 .. Len(ms) : ms[k].kind = "fundec" => k < j
    BY <1>2, <2>3
  <2> QED BY <2>1, <2>2, <2>3, <2>4, <2>5
<1>8. \A i \in 1 .. Len(ms) : Closed(p, ms[i]) => /\ i \in 1 .. Len(ns) /\ ms[i] = ns[i]
                                                  /\ Closed(o, ns[i])
  <2> SUFFICES ASSUME NEW i \in 1 .. Len(ms), Closed(p, ms[i])
               PROVE  i \in 1 .. Len(ns) /\ ms[i] = ns[i] /\ Closed(o, ns[i])
    OBVIOUS
  <2>1. ms[i].kind = "fun" /\ i \in 1 .. Len(ns) /\ ms[i] = ns[i]
    BY <1>2 DEF Closed
  <2>2. ns[i].sym # None
    BY <1>3, <2>1 DEF Bodies, IsBody, None
  <2> QED BY <2>1, <2>2, QuietClosed
<1>9. \A i \in 1 .. Len(ns) : Closed(o, ns[i]) => Closed(p, ns[i])
  <2> SUFFICES ASSUME NEW i \in 1 .. Len(ns), Closed(o, ns[i]) PROVE Closed(p, ns[i])
    OBVIOUS
  <2>1. ns[i].sym # None
    BY <1>3 DEF Closed, Bodies, IsBody, None
  <2> QED BY <2>1, QuietClosed
<1>10. ASSUME e.passed
       PROVE  /\ HaveSymbols(e, p, ms) /\ OneBody(p, ms)
              /\ HaveBodies(e, p, ms) /\ Calls(e, ms)
  <2>1. HaveSymbols(d, o, ns) /\ OneBody(o, ns) /\ HaveBodies(d, o, ns) /\ Calls(d, ns)
    BY <1>1, <1>10 DEF FunsInv
  <2>2. ASSUME NEW i \in 1 .. Len(ms), Closed(p, ms[i]) \/ ms[i].kind = "fundec"
        PROVE  HasSymbol(e, p, ms, i)
    <3>1. i \in 1 .. Len(ns) /\ ms[i] = ns[i]
      BY <1>2, <1>8, <2>2
    <3>2. Closed(o, ns[i]) \/ ns[i].kind = "fundec"
      BY <1>8, <2>2, <3>1
    <3>3. HasSymbol(d, o, ns, i)
      BY <2>1, <3>1, <3>2 DEF HaveSymbols
    <3>4. Closed(p, ns[i]) <=> Closed(o, ns[i])
      BY <1>8, <1>9, <3>1
    <3>5. KeepsDefined(d, e) /\ Prolongs(ns, ms)
      BY DEF Quiet, KeepsDefined
    <3> QED BY <1>1, <1>2, <3>1, <3>3, <3>4, <3>5, SymbolStays
  <2>3. OneBody(p, ms)
    BY <1>8, <2>1 DEF OneBody
  <2>4. ASSUME NEW s \in e.tables[1].syms, IsFun(e, s), s \notin {1, 2}, e.symbols[s].state = "def"
        PROVE  \E i \in 1 .. Len(ms) : Closed(p, ms[i]) /\ ms[i].name = e.symbols[s].name
    <3>1. s \in d.tables[1].syms
      BY <2>4 DEF Quiet
    <3>2. s \in 1 .. Len(e.symbols)
      <4>1. 1 \in 1 .. Len(e.tables)
        <5>1. Len(e.tables) \in Nat /\ Len(e.tables) >= 1
          BY <1>1, DbParts
        <5> QED BY <5>1
      <4> QED BY <1>1, <4>1, TableParts
    <3>3. /\ IsFun(d, s) /\ d.symbols[s].state = "def" /\ e.symbols[s].name = d.symbols[s].name
      BY <1>2, <2>4, <3>2
    <3>4. PICK i \in 1 .. Len(ns) : Closed(o, ns[i]) /\ ns[i].name = d.symbols[s].name
      BY <2>1, <2>4, <3>1, <3>3 DEF HaveBodies
    <3>5. i \in 1 .. Len(ms) /\ ms[i] = ns[i] /\ Closed(p, ms[i])
      BY <1>2, <1>9, <3>4
    <3> QED BY <3>3, <3>4, <3>5
  <2>5. ASSUME NEW i \in 1 .. Len(ms), ms[i].kind = "call" PROVE IsCall(e, ms[i])
    <3>1. CASE i \in 1 .. Len(ns)
      <4>1. ms[i] = ns[i] /\ IsCall(d, ns[i])
        BY <1>2, <2>1, <2>5, <3>1 DEF Calls
      <4> QED BY <1>1, <4>1, IsCallStays
    <3>2. CASE i \notin 1 .. Len(ns)
      <4>1. i \in Len(ns) + 1 .. Len(ms)
        BY <1>2, <3>2
      <4> QED BY <1>10, <2>5, <4>1 DEF Quiet
    <3> QED BY <3>1, <3>2
  <2> QED BY <2>2, <2>3, <2>4, <2>5 DEF HaveSymbols, HaveBodies, Calls
<1> QED BY <1>4, <1>5, <1>6, <1>7, <1>10 DEF FunsInv
-----------------------------------------------------------------------------
(* A function is declared or defined, and registered. *)

\* What holds of the functions but one, that of node j, which is not yet in the
\* outermost table.
HaveSymbolsBut(d, o, ns, j) ==
  \A i \in 1 .. Len(ns) : i # j /\ (Closed(o, ns[i]) \/ ns[i].kind = "fundec") =>
    HasSymbol(d, o, ns, i)

OneBodyBut(o, ns, j) ==
  \A i, k \in 1 .. Len(ns) :
    i # j /\ k # j /\ Closed(o, ns[i]) /\ Closed(o, ns[k]) /\ ns[i].name = ns[k].name => i = k

Pending(d, o, ns, j, s) ==
  /\ Library(d) /\ Introduced(d, ns) /\ Bodies(d, ns) /\ OpenBodies(o, ns)
  /\ Len(ns) \in Nat /\ j \in 1 .. Len(ns) /\ s \in 3 .. Len(d.symbols)
  /\ IsFun(d, s) /\ Declares(d, ns[j], s)
  /\ \/ ns[j].kind = "fundec" /\ d.symbols[s].state = "dec"
     \/ /\ Closed(o, ns[j]) /\ d.symbols[s].state = "def"
        /\ \A k \in 1 .. Len(ns) : ns[k].kind = "fundec" => k < j
  /\ d.passed => /\ HaveSymbolsBut(d, o, ns, j) /\ OneBodyBut(o, ns, j)
                 /\ HaveBodies(d, o, ns) /\ Calls(d, ns)

\* Registering keeps what is defined.
LEMMA RegisterKeeps ==
  ASSUME NEW d, NEW e, NEW s \in 1 .. Len(d.symbols), WellFormed(d), IsRegistered(d, e, s)
  PROVE  KeepsDefined(d, e)
<1> DEFINE old == st_findonly(d, 1, d.symbols[s].name)
<1>1. \/ e.symbols = d.symbols
      \/ /\ d.symbols[old].state = "dec"
         /\ \A r \in 1 .. Len(d.symbols) : r # old => e.symbols[r] = d.symbols[r]
  BY DEF IsRegistered, Registers
<1>2. CASE e.symbols = d.symbols
  BY <1>2 DEF KeepsDefined
<1>3. CASE /\ d.symbols[old].state = "dec"
           /\ \A r \in 1 .. Len(d.symbols) : r # old => e.symbols[r] = d.symbols[r]
  <2> HIDE DEF old
  <2> SUFFICES ASSUME NEW r \in 1 .. Len(d.symbols), d.symbols[r].state = "def"
               PROVE  e.symbols[r].state = "def"
    BY DEF KeepsDefined
  <2>1. r # old
    BY <1>3
  <2> QED BY <1>3, <2>1
<1> QED BY <1>1, <1>2, <1>3

\* What does not depend on the outermost table.
LEMMA RegisterStays ==
  ASSUME NEW d, NEW e, NEW o, NEW ns, NEW j, NEW s, WellFormed(d), Pending(d, o, ns, j, s),
         IsRegistered(d, e, s)
  PROVE  /\ s \in 1 .. Len(d.symbols)
         /\ Library(e) /\ Introduced(e, ns) /\ Bodies(e, ns)
         /\ Calls(d, ns) => Calls(e, ns)
<1>1. /\ Library(d) /\ Introduced(d, ns) /\ Bodies(d, ns)
      /\ s \in 3 .. Len(d.symbols) /\ Len(d.symbols) \in Nat
  BY DbParts DEF Pending
<1>2. s \in 1 .. Len(d.symbols)
  BY <1>1
<1>3. /\ WellFormed(e) /\ Grows(d, e) /\ Len(e.symbols) = Len(d.symbols)
      /\ KeepsDefined(d, e)
  BY <1>2, RegisterKeeps DEF IsRegistered
<1>4. Library(e)
  <2>1. \A r \in {1, 2} : r \in 1 .. Len(d.symbols) /\ IsFun(d, r) /\ d.symbols[r].state = "def"
    BY <1>1 DEF Library
  <2>2. \A r \in {1, 2} : e.symbols[r].state = "def"
    BY <1>3, <2>1 DEF KeepsDefined
  <2> QED BY <1>1, <1>3, <2>2, LibraryStays
<1>5. Introduced(e, ns)
  <2> SUFFICES ASSUME NEW r \in 3 .. Len(e.symbols), IsFun(e, r)
               PROVE  \E i \in 1 .. Len(ns) : Declares(e, ns[i], r)
    BY DEF Introduced
  <2>1. r \in 1 .. Len(d.symbols) /\ r \in 3 .. Len(d.symbols)
    BY <1>1, <1>3
  <2>2. IsFun(d, r)
    BY <1>3, <2>1 DEF Grows, IsFun
  <2>3. PICK i \in 1 .. Len(ns) : Declares(d, ns[i], r)
    BY <1>1, <2>1, <2>2 DEF Introduced
  <2>4. Declares(e, ns[i], r)
    BY <1>3, <2>1, <2>3, DeclaresStays
  <2> QED BY <2>4
<1>6. Bodies(e, ns)
  <2>1. ASSUME NEW i \in 1 .. Len(ns), ns[i].kind = "fun" PROVE IsBody(e, ns[i])
    <3>1. IsBody(d, ns[i])
      BY <1>1, <2>1 DEF Bodies
    <3>2. e.symbols[ns[i].sym].state = "def"
      <4>1. /\ ns[i].sym \in 1 .. Len(d.symbols) /\ IsFun(d, ns[i].sym)
            /\ d.symbols[ns[i].sym].state = "def"
        BY <1>1, <3>1 DEF IsBody
      <4> QED BY <1>3, <4>1 DEF KeepsDefined
    <3> QED BY <1>3, <3>1, <3>2, IsBodyStays
  <2> QED BY <1>1, <2>1 DEF Bodies
<1>7. ASSUME Calls(d, ns) PROVE Calls(e, ns)
  BY <1>3, <1>7, IsCallStays DEF Calls
<1> QED BY <1>2, <1>4, <1>5, <1>6, <1>7

LEMMA PendingRegistered ==
  ASSUME NEW d, NEW e, NEW o, NEW ns, NEW j, NEW s, WellFormed(d), Unique(d),
         Pending(d, o, ns, j, s), IsRegistered(d, e, s)
  PROVE  FunsInv(e, o, ns)
<1> DEFINE old == st_findonly(d, 1, d.symbols[s].name)
<1>1. /\ s \in 1 .. Len(d.symbols)
      /\ Library(e) /\ Introduced(e, ns) /\ Bodies(e, ns)
      /\ Calls(d, ns) => Calls(e, ns)
  BY RegisterStays
<1>2. /\ WellFormed(e) /\ Grows(d, e) /\ Unique(e) /\ Len(e.symbols) = Len(d.symbols)
      /\ e.passed => d.passed
      /\ KeepsDefined(d, e)
      /\ Len(d.tables) \in Nat /\ Len(d.tables) >= 1 /\ 1 \in 1 .. Len(d.tables)
      /\ Len(e.tables) \in Nat /\ 1 \in 1 .. Len(e.tables)
  <2>1. Len(d.tables) \in Nat /\ Len(d.tables) >= 1 /\ Len(e.tables) = Len(d.tables)
    BY DbParts DEF IsRegistered
  <2> QED BY <1>1, <2>1, RegisterKeeps DEF IsRegistered
<1>3. /\ Len(ns) \in Nat /\ j \in 1 .. Len(ns) /\ s \in 3 .. Len(d.symbols)
      /\ IsFun(d, s) /\ Declares(d, ns[j], s) /\ OpenBodies(o, ns) /\ Introduced(d, ns)
      /\ Bodies(d, ns) /\ Library(d)
      /\ \/ ns[j].kind = "fundec" /\ d.symbols[s].state = "dec"
         \/ /\ Closed(o, ns[j]) /\ d.symbols[s].state = "def"
            /\ \A k \in 1 .. Len(ns) : ns[k].kind = "fundec" => k < j
  BY DEF Pending
<1>4. SUFFICES ASSUME e.passed
               PROVE  HaveSymbols(e, o, ns) /\ OneBody(o, ns) /\ HaveBodies(e, o, ns)
  BY <1>1, <1>2, <1>3 DEF FunsInv, Pending
<1>5. HaveSymbolsBut(d, o, ns, j) /\ OneBodyBut(o, ns, j) /\ HaveBodies(d, o, ns)
  BY <1>2, <1>4 DEF Pending
<1>6. ns[j].name = d.symbols[s].name /\ Len(ns[j].params) = d.symbols[s].argc
      /\ (ns[j].kind = "fun" => ns[j].sym = s) /\ ns[j].kind \in {"fun", "fundec"}
  BY <1>3 DEF Declares
<1>7. \/ /\ old = None
         /\ e.symbols = d.symbols
         /\ e.tables[1].syms = d.tables[1].syms \cup {s}
      \/ /\ old # None
         /\ IsFun(d, old) /\ d.symbols[old].state = "dec"
         /\ d.symbols[old].argc = d.symbols[s].argc
         /\ e.tables = d.tables
         /\ e.symbols[old].state = d.symbols[s].state
         /\ \A r \in 1 .. Len(d.symbols) : r # old => e.symbols[r] = d.symbols[r]
  BY <1>4 DEF IsRegistered, Registers, IsFun
<1> HIDE DEF old
<1>8. old # None => old \in d.tables[1].syms /\ old \in 1 .. Len(d.symbols)
                    /\ d.symbols[old].name = ns[j].name
  BY <1>2, <1>6, FindOnly DEF old
\* No other body of that name has been closed.
<1>9. ASSUME Closed(o, ns[j]), NEW i \in 1 .. Len(ns), i # j, Closed(o, ns[i])
      PROVE  ns[i].name # ns[j].name
  <2>1. HasSymbol(d, o, ns, i)
    BY <1>5, <1>9 DEF HaveSymbolsBut
  <2>2. /\ st_findonly(d, 1, ns[i].name) # None
        /\ d.symbols[st_findonly(d, 1, ns[i].name)].state = "def"
    BY <1>9, <2>1 DEF HasSymbol
  <2> QED BY <1>6, <1>7, <2>2 DEF old
<1>10. OneBody(o, ns)
  <2> SUFFICES ASSUME NEW i \in 1 .. Len(ns), NEW k \in 1 .. Len(ns),
                      Closed(o, ns[i]), Closed(o, ns[k]), ns[i].name = ns[k].name
               PROVE  i = k
    BY DEF OneBody
  <2>1. CASE i # j /\ k # j
    BY <1>5, <2>1 DEF OneBodyBut
  <2>2. CASE i = j
    BY <1>9, <2>2
  <2>3. CASE k = j
    BY <1>9, <2>3
  <2> QED BY <2>1, <2>2, <2>3
<1>11. HasSymbol(e, o, ns, j)
  <2>1. PICK r : r = st_findonly(e, 1, ns[j].name)
    OBVIOUS
  <2>2. CASE old = None
    <3>1. e.symbols = d.symbols /\ s \in e.tables[1].syms
      BY <1>7, <2>2
    <3>2. r = s
      BY <1>2, <1>6, <2>1, <3>1, FindOnlyUnique
    <3>3. s # None /\ s \notin {1, 2}
      BY <1>3 DEF None
    <3>4. Closed(o, ns[j]) => s = ns[j].sym /\ d.symbols[s].state = "def"
      BY <1>3, <1>6 DEF Closed
    <3> QED BY <1>3, <1>6, <2>1, <3>1, <3>2, <3>3, <3>4 DEF HasSymbol, IsFun
  <2>3. CASE old # None
    <3>1. /\ IsFun(d, old) /\ d.symbols[old].state = "dec"
          /\ d.symbols[old].argc = d.symbols[s].argc
          /\ e.symbols[old].state = d.symbols[s].state
      BY <1>7, <2>3
    <3>2. r = old
      BY <1>2, <1>6, <2>1, <2>3, OuterStays DEF old
    <3>3. old \notin {1, 2}
      BY <1>3, <3>1 DEF Library
    <3>4. IsFun(e, old) /\ e.symbols[old].argc = Len(ns[j].params)
      BY <1>2, <1>6, <1>8, <2>3, <3>1 DEF Grows, IsFun
    <3>5. ASSUME Closed(o, ns[j])
          PROVE  \E k \in 1 .. j - 1 : ns[k].kind = "fundec" /\ ns[k].name = ns[j].name
      <4>1. old \in 3 .. Len(d.symbols)
        BY <1>8, <2>3, <3>3
      <4>2. PICK k \in 1 .. Len(ns) : Declares(d, ns[k], old)
        BY <1>3, <3>1, <4>1 DEF Introduced
      <4>3. ns[k].kind # "fun"
        <5> SUFFICES ASSUME ns[k].kind = "fun" PROVE FALSE
          OBVIOUS
        <5>1. ns[k].sym = old /\ IsBody(d, ns[k])
          BY <1>3, <4>2 DEF Declares, Bodies
        <5> QED BY <3>1, <5>1 DEF IsBody
      <4>4. ns[k].kind = "fundec" /\ ns[k].name = ns[j].name
        BY <1>8, <2>3, <4>2, <4>3 DEF Declares
      <4>5. k < j
        BY <1>3, <3>5, <4>4 DEF Closed
      <4>6. k \in 1 .. j - 1
        BY <1>3, <4>5
      <4> QED BY <4>4, <4>6
    <3>6. Closed(o, ns[j]) => e.symbols[old].state = "def"
      BY <1>3, <3>1 DEF Closed
    <3> QED BY <2>1, <2>3, <3>2, <3>3, <3>4, <3>5, <3>6 DEF HasSymbol
  <2> QED BY <2>2, <2>3
<1>12. HaveSymbols(e, o, ns)
  <2> SUFFICES ASSUME NEW i \in 1 .. Len(ns), Closed(o, ns[i]) \/ ns[i].kind = "fundec"
               PROVE  HasSymbol(e, o, ns, i)
    BY DEF HaveSymbols
  <2>1. CASE i = j
    BY <1>11, <2>1
  <2>2. CASE i # j
    <3>1. HasSymbol(d, o, ns, i)
      BY <1>5, <2>2 DEF HaveSymbolsBut
    <3>2. Prolongs(ns, ns)
      BY <1>3, ProlongsReflexive
    <3> QED BY <1>2, <1>3, <3>1, <3>2, SymbolStays
  <2> QED BY <2>1, <2>2
<1>13. HaveBodies(e, o, ns)
  <2> SUFFICES ASSUME NEW r \in e.tables[1].syms, IsFun(e, r), r \notin {1, 2},
                      e.symbols[r].state = "def"
               PROVE  \E i \in 1 .. Len(ns) : Closed(o, ns[i]) /\ ns[i].name = e.symbols[r].name
    BY DEF HaveBodies
  <2>1. r \in 1 .. Len(d.symbols)
    BY <1>2, TableParts
  <2>2. e.symbols[r].name = d.symbols[r].name /\ IsFun(d, r)
    BY <1>2, <2>1 DEF Grows, IsFun
  <2>3. CASE old = None /\ r = s
    <3>1. d.symbols[s].state = "def"
      BY <1>7, <2>3
    <3>2. Closed(o, ns[j])
      BY <1>3, <3>1
    <3> QED BY <1>3, <1>6, <2>2, <2>3, <3>2
  <2>4. CASE old # None /\ r = old
    <3>1. d.symbols[s].state = "def"
      BY <1>7, <2>4
    <3>2. Closed(o, ns[j])
      BY <1>3, <3>1
    <3> QED BY <1>3, <1>8, <2>2, <2>4, <3>2
  <2>5. CASE ~(old = None /\ r = s) /\ ~(old # None /\ r = old)
    <3>1. r \in d.tables[1].syms
      BY <1>7, <2>5
    <3>2. d.symbols[r].state = "def"
      BY <1>7, <2>1, <2>5
    <3> QED BY <1>5, <2>2, <3>1, <3>2 DEF HaveBodies
  <2> QED BY <2>3, <2>4, <2>5
<1> QED BY <1>10, <1>12, <1>13

\* Symbol s is that of a new function, and the last node declares or defines it.
Adds(d, c, o, ns, s, state) ==
  /\ s \in 3 .. Len(c.symbols) /\ IsFun(c, s) /\ c.symbols[s].state = state
  /\ s > Len(d.symbols)
  /\ Declares(c, ns[Len(ns)], s)
  /\ Library(c) /\ Introduced(c, ns) /\ Bodies(c, ns)
  /\ c.passed => /\ HaveSymbolsBut(c, o, ns, Len(ns)) /\ OneBody(o, ns)
                 /\ HaveBodies(c, o, ns) /\ Calls(c, ns)

\* The function itself and its parameters get their symbols, and the node that
\* declares or defines it comes after the others.
LEMMA FunAdds ==
  ASSUME NEW d, NEW c, NEW o, NEW p, NEW ns, NEW ms, WellFormed(d), Unique(d), FunsInv(d, o, ns),
         NEW f \in Names, NEW n \in Nat, NEW params, NEW state \in {"dec", "def"},
         IsWithFun(d, c, f, n, params, state),
         Len(ns) \in Nat, Prolongs(ns, ms), Len(ms) = Len(ns) + 1,
         ms[Len(ms)].kind \in {"fun", "fundec"}, ms[Len(ms)].name = f,
         Len(ms[Len(ms)].params) = n,
         ms[Len(ms)].kind = "fun" => state = "def" /\ ms[Len(ms)].sym = Len(c.symbols),
         ~Closed(p, ms[Len(ms)]),
         \A i \in 1 .. Len(ns) : ns[i].kind = "fun" => (Closed(p, ns[i]) <=> Closed(o, ns[i]))
  PROVE  Adds(d, c, p, ms, Len(c.symbols), state)
<1>0. /\ Len(c.symbols) \in 1 .. Len(c.symbols)
      /\ c.symbols[Len(c.symbols)].name = f /\ c.symbols[Len(c.symbols)].cls = "func"
      /\ c.symbols[Len(c.symbols)].argc = n /\ c.symbols[Len(c.symbols)].state = state
  <2>1. Len(d.symbols) \in Nat
    BY DbParts
  <2>2. Len(c.symbols) = Len(d.symbols) + n + 1
    BY DEF IsWithFun
  <2>3. c.symbols[Len(c.symbols)] = NewSymbol(f, "func", n, state)
    BY <2>2 DEF IsWithFun
  <2>4. /\ NewSymbol(f, "func", n, state).name = f
        /\ NewSymbol(f, "func", n, state).cls = "func"
        /\ NewSymbol(f, "func", n, state).argc = n
        /\ NewSymbol(f, "func", n, state).state = state
    BY NewSymbols
  <2> QED BY <2>1, <2>2, <2>3, <2>4
<1> DEFINE N == Len(d.symbols)
           S == Len(c.symbols)
           J == Len(ms)
<1>1. /\ N \in Nat /\ N >= 2 /\ S = N + n + 1 /\ S \in Nat
      /\ WellFormed(c) /\ Grows(d, c) /\ Unique(c) /\ (c.passed => d.passed)
      /\ Library(d) /\ Introduced(d, ns) /\ Bodies(d, ns)
  BY DbParts DEF IsWithFun, FunsInv, Library
<1>2. /\ S \in 1 .. S /\ c.symbols[S].name = f /\ c.symbols[S].cls = "func"
      /\ c.symbols[S].argc = n /\ c.symbols[S].state = state
  BY <1>0
<1> HIDE DEF N, S
<1>3. /\ S \in 3 .. S /\ S > N /\ IsFun(c, S)
  BY <1>1, <1>2 DEF IsFun
<1>4. Declares(c, ms[J], S)
  BY <1>2 DEF Declares, S
<1>5. \A s \in 1 .. N : c.symbols[s] = d.symbols[s]
  BY DEF IsWithFun, N
<1>6. ASSUME NEW s \in 1 .. S, IsFun(c, s)
      PROVE  s \in 1 .. N \/ s = S
  <2>1. \/ s \in 1 .. N
        \/ s - N \in 1 .. n /\ s = N + (s - N)
        \/ s = S
    BY <1>1
  <2>2. \A i \in 1 .. n : c.symbols[N + i].cls # "func"
    <3>1. \A i \in 1 .. n : c.symbols[N + i] = NewSymbol(params[i], "int", 0, "dec")
      BY DEF IsWithFun, N
    <3>2. \A x : NewSymbol(x, "int", 0, "dec").cls = "int"
      BY DEF NewSymbol
    <3> QED BY <3>1, <3>2
  <2> QED BY <1>6, <2>1, <2>2 DEF IsFun
<1>7. /\ \A i \in 1 .. Len(ns) : i \in 1 .. J /\ ms[i] = ns[i]
      /\ \A i \in 1 .. J : i \in 1 .. Len(ns) \/ i = J
      /\ J \in 1 .. J /\ J \notin 1 .. Len(ns) /\ J \in Nat
  BY DEF Prolongs
<1> HIDE DEF J
<1>8. KeepsDefined(d, c)
  BY <1>5 DEF KeepsDefined, N
<1>9. Library(c)
  <2>1. \A r \in {1, 2} : r \in 1 .. N /\ d.symbols[r].state = "def"
    BY <1>1 DEF Library
  <2>2. \A r \in {1, 2} : c.symbols[r].state = "def"
    BY <1>5, <2>1
  <2> QED BY <1>1, <2>2, LibraryStays
<1>10. Introduced(c, ms)
  <2> SUFFICES ASSUME NEW s \in 3 .. S, IsFun(c, s)
               PROVE  \E i \in 1 .. J : Declares(c, ms[i], s)
    BY DEF Introduced, S, J
  <2>1. CASE s = S
    BY <1>4, <1>7, <2>1
  <2>2. CASE s # S
    <3>1. s \in 1 .. S
      OBVIOUS
    <3>2. s \in 1 .. N /\ s \in 3 .. N
      BY <1>1, <1>6, <2>2, <3>1
    <3>3. IsFun(d, s)
      BY <1>5, <3>2 DEF IsFun
    <3>4. PICK i \in 1 .. Len(ns) : Declares(d, ns[i], s)
      BY <1>1, <3>2, <3>3 DEF Introduced, N
    <3>5. Declares(c, ns[i], s)
      BY <1>1, <3>2, <3>4, DeclaresStays DEF N
    <3> QED BY <1>7, <3>5
  <2> QED BY <2>1, <2>2
<1>11. ASSUME NEW i \in 1 .. Len(ns), ns[i].kind = "fun"
       PROVE  IsBody(c, ns[i]) /\ ns[i].sym \in 1 .. N
  <2>1. IsBody(d, ns[i])
    BY <1>1, <1>11 DEF Bodies
  <2>2. /\ ns[i].sym \in 1 .. N /\ IsFun(d, ns[i].sym)
        /\ d.symbols[ns[i].sym].state = "def"
    BY <1>1, <2>1 DEF IsBody, N
  <2>3. c.symbols[ns[i].sym].state = "def"
    BY <1>5, <2>2
  <2> QED BY <1>1, <2>1, <2>2, <2>3, IsBodyStays
<1>12. Bodies(c, ms)
  <2>1. ASSUME NEW i \in 1 .. J, ms[i].kind = "fun"
        PROVE  IsBody(c, ms[i])
    <3>1. CASE i \in 1 .. Len(ns)
      BY <1>7, <1>11, <2>1, <3>1
    <3>2. CASE i = J
      <4>1. ms[J].sym = S /\ c.symbols[S].state = "def"
        BY <1>2, <2>1, <3>2 DEF J, S
      <4> QED BY <1>3, <1>4, <3>2, <4>1 DEF IsBody, S
    <3> QED BY <1>7, <3>1, <3>2
  <2>2. ASSUME NEW i \in 1 .. J, ms[i].kind = "fun",
               NEW k \in 1 .. J, ms[k].kind = "fun", ms[k].sym = ms[i].sym
        PROVE  k = i
    <3>1. \A l \in 1 .. Len(ns) : ms[l].kind = "fun" => ms[l].sym # S
      <4> TAKE l \in 1 .. Len(ns)
      <4>1. ms[l].kind = "fun" => ms[l].sym \in 1 .. N
        BY <1>7, <1>11
      <4> QED BY <1>1, <1>3, <4>1
    <3>2. ms[J].kind = "fun" => ms[J].sym = S
      BY DEF J, S
    <3>3. CASE i \in 1 .. Len(ns) /\ k \in 1 .. Len(ns)
      BY <1>1, <1>7, <2>2, <3>3 DEF Bodies
    <3> QED BY <1>7, <2>2, <3>1, <3>2, <3>3
  <2> QED BY <2>1, <2>2 DEF Bodies, J
<1>13. ASSUME NEW i \in 1 .. J, Closed(p, ms[i])
       PROVE  i \in 1 .. Len(ns) /\ ms[i] = ns[i] /\ Closed(o, ns[i])
  <2>1. i # J
    BY <1>13 DEF J
  <2>2. i \in 1 .. Len(ns) /\ ms[i] = ns[i]
    BY <1>7, <2>1
  <2>3. ns[i].kind = "fun"
    BY <1>13, <2>2 DEF Closed
  <2> QED BY <1>13, <2>2, <2>3
<1>14. \A i \in 1 .. Len(ns) : Closed(o, ns[i]) => Closed(p, ns[i])
  BY DEF Closed
<1>15. d.tables[1] = c.tables[1]
  <2>1. 1 \in 1 .. Len(d.tables)
    <3>1. Len(d.tables) \in Nat /\ Len(d.tables) >= 1
      BY DbParts
    <3> QED BY <3>1
  <2> QED BY <2>1 DEF IsWithFun
<1>16. ASSUME c.passed
       PROVE  /\ HaveSymbolsBut(c, p, ms, J) /\ OneBody(p, ms)
              /\ HaveBodies(c, p, ms) /\ Calls(c, ms)
  <2>1. HaveSymbols(d, o, ns) /\ OneBody(o, ns) /\ HaveBodies(d, o, ns) /\ Calls(d, ns)
    BY <1>1, <1>16 DEF FunsInv
  <2>2. ASSUME NEW i \in 1 .. J, i # J, Closed(p, ms[i]) \/ ms[i].kind = "fundec"
        PROVE  HasSymbol(c, p, ms, i)
    <3>1. i \in 1 .. Len(ns) /\ ms[i] = ns[i]
      BY <1>7, <2>2
    <3>2. HasSymbol(d, o, ns, i)
      BY <1>13, <2>1, <2>2, <3>1 DEF HaveSymbols
    <3>3. Closed(p, ns[i]) => Closed(o, ns[i])
      BY <1>13, <3>1
    <3>4. J = Len(ms)
      BY DEF J
    <3> QED BY <1>1, <1>7, <1>8, <3>1, <3>2, <3>3, <3>4, SymbolStays
  <2>3. OneBody(p, ms)
    BY <1>13, <2>1 DEF OneBody, J
  <2>4. HaveBodies(c, p, ms)
    <3> SUFFICES ASSUME NEW s \in c.tables[1].syms, IsFun(c, s), s \notin {1, 2},
                        c.symbols[s].state = "def"
                 PROVE  \E i \in 1 .. J : Closed(p, ms[i]) /\ ms[i].name = c.symbols[s].name
      BY DEF HaveBodies, J
    <3>1. s \in d.tables[1].syms /\ s \in 1 .. N
      <4>1. 1 \in 1 .. Len(d.tables)
        <5>1. Len(d.tables) \in Nat /\ Len(d.tables) >= 1
          BY DbParts
        <5> QED BY <5>1
      <4> QED BY <1>15, <4>1, TableParts DEF N
    <3>2. IsFun(d, s) /\ d.symbols[s] = c.symbols[s]
      BY <1>5, <3>1 DEF IsFun
    <3>3. PICK i \in 1 .. Len(ns) : Closed(o, ns[i]) /\ ns[i].name = d.symbols[s].name
      BY <2>1, <3>1, <3>2 DEF HaveBodies
    <3>4. i \in 1 .. J /\ ms[i] = ns[i] /\ Closed(p, ns[i])
      BY <1>7, <1>14, <3>3
    <3> QED BY <3>2, <3>3, <3>4
  <2>5. Calls(c, ms)
    <3> SUFFICES ASSUME NEW i \in 1 .. J, ms[i].kind = "call" PROVE IsCall(c, ms[i])
      BY DEF Calls, J
    <3>1. i # J
      BY DEF J
    <3>2. i \in 1 .. Len(ns) /\ ms[i] = ns[i]
      BY <1>7, <3>1
    <3>3. IsCall(d, ns[i])
      BY <2>1, <3>2 DEF Calls
    <3> QED BY <1>1, <3>2, <3>3, IsCallStays
  <2> QED BY <2>2, <2>3, <2>4, <2>5 DEF HaveSymbolsBut, J
<1> QED BY <1>2, <1>3, <1>4, <1>9, <1>10, <1>12, <1>16 DEF Adds, N, S, J

-----------------------------------------------------------------------------
(* The steps that are quiet. *)

\* The functions are as they were.
SameFuns(d, e) ==
  /\ \A s \in 1 .. Len(d.symbols) : IsFun(d, s) => e.symbols[s].state = d.symbols[s].state
  /\ \A s \in Len(d.symbols) + 1 .. Len(e.symbols) : ~IsFun(e, s)
  /\ \A s \in e.tables[1].syms : IsFun(e, s) => s \in d.tables[1].syms

LEMMA SameSymbols ==
  ASSUME NEW d, NEW e, WellFormed(d), e.symbols = d.symbols, e.tables[1].syms = d.tables[1].syms
  PROVE  SameFuns(d, e)
<1>1. Len(d.symbols) \in Nat
  BY DbParts
<1>2. Len(d.symbols) + 1 .. Len(e.symbols) = {}
  BY <1>1
<1> QED BY <1>2 DEF SameFuns

LEMMA TagsAreNoFuns ==
  ASSUME NEW d, NEW e, WellFormed(d), OnlyTags(d, e)
  PROVE  SameFuns(d, e)
<1>1. /\ WellFormed(e) /\ Len(d.symbols) \in Nat /\ Len(e.symbols) \in Nat
      /\ 1 \in 1 .. Len(e.tables)
  <2>1. WellFormed(e)
    BY DEF OnlyTags
  <2>2. Len(e.tables) \in Nat /\ Len(e.tables) >= 1
    BY <2>1, DbParts
  <2> QED BY <2>1, <2>2, DbParts
<1>2. ASSUME NEW s \in 1 .. Len(d.symbols), IsFun(d, s)
      PROVE  e.symbols[s].state = d.symbols[s].state
  BY <1>2 DEF OnlyTags, IsFun
<1>3. ASSUME NEW s \in Len(d.symbols) + 1 .. Len(e.symbols) PROVE ~IsFun(e, s)
  BY DEF OnlyTags, IsFun
<1>4. ASSUME NEW s \in e.tables[1].syms, IsFun(e, s) PROVE s \in d.tables[1].syms
  <2> SUFFICES ASSUME s \notin d.tables[1].syms PROVE FALSE
    OBVIOUS
  <2>1. s > Len(d.symbols)
    BY DEF OnlyTags
  <2>2. s \in 1 .. Len(e.symbols)
    BY <1>1, TableParts
  <2>3. s \in Len(d.symbols) + 1 .. Len(e.symbols)
    BY <1>1, <2>1, <2>2
  <2> QED BY <1>3, <1>4, <2>3
<1> QED BY <1>2, <1>3, <1>4 DEF SameFuns

LEMMA DefinesNoFuns ==
  ASSUME NEW d, NEW e, WellFormed(d), NEW t, NEW n, NEW names, IsDefined(d, e, t, n, names)
  PROVE  SameFuns(d, e)
<1>1. /\ WellFormed(e) /\ Len(d.symbols) \in Nat /\ Len(e.symbols) \in Nat
      /\ 1 \in 1 .. Len(d.tables) /\ 1 \in 1 .. Len(e.tables)
  <2>1. WellFormed(e)
    BY DEF IsDefined
  <2>2. /\ Len(e.tables) \in Nat /\ Len(e.tables) >= 1
        /\ Len(d.tables) \in Nat /\ Len(d.tables) >= 1
    BY <2>1, DbParts
  <2> QED BY <2>1, <2>2, DbParts
<1>2. ASSUME NEW s \in 1 .. Len(d.symbols), IsFun(d, s)
      PROVE  e.symbols[s].state = d.symbols[s].state
  BY <1>2 DEF IsDefined, IsFun
<1>3. ASSUME NEW s \in Len(d.symbols) + 1 .. Len(e.symbols) PROVE ~IsFun(e, s)
  <2>1. e.symbols[s].cls \in Values \cup {"type"}
    BY DEF IsDefined
  <2> QED BY <2>1 DEF IsFun, Values
<1>4. ASSUME NEW s \in e.tables[1].syms, IsFun(e, s) PROVE s \in d.tables[1].syms
  <2> SUFFICES ASSUME s \notin d.tables[1].syms PROVE FALSE
    OBVIOUS
  <2>1. s > Len(d.symbols)
    BY <1>1 DEF IsDefined
  <2>2. s \in 1 .. Len(e.symbols)
    BY <1>1, TableParts
  <2>3. s \in Len(d.symbols) + 1 .. Len(e.symbols)
    BY <1>1, <2>1, <2>2
  <2> QED BY <1>3, <1>4, <2>3
<1> QED BY <1>2, <1>3, <1>4 DEF SameFuns

\* What is new in the program is no function, and a call only if it is right.
NoNewFuns(e, ns, ms) ==
  \A k \in Len(ns) + 1 .. Len(ms) :
    /\ ms[k].kind \notin {"fun", "fundec"}
    /\ e.passed /\ ms[k].kind = "call" => IsCall(e, ms[k])

\* No body is begun, and none ends.
SameBodies(o, p) ==
  /\ \A i \in 1 .. Len(p) : p[i].fun # None => i <= Len(o)
  /\ \A i \in 1 .. Len(o) : o[i].fun # None => i <= Len(p)

LEMMA QuietStep ==
  ASSUME TypeInv, Unique(db), Proceeds, SameFuns(db, db'), NoNewFuns(db', nodes, nodes'),
         SameBodies(open, open')
  PROVE  Quiet(db, db', open, open', nodes, nodes')
<1>1. /\ WellFormed(db) /\ WellFormed(db') /\ Grows(db, db') /\ Unique(db')
      /\ (db'.passed => db.passed)
  BY HereParts DEF Proceeds, Evolves
<1>2. /\ Len(nodes) \in Nat /\ Len(nodes') \in Nat /\ Prolongs(nodes, nodes')
      /\ Len(open) \in Nat /\ Len(open') \in Nat
  BY HereParts, NestedParts DEF Proceeds, TypeInv
<1>3. ASSUME NEW i \in 1 .. Len(open'), open'[i].fun # None
      PROVE  i <= Len(open) /\ open'[i].fun = open[i].fun /\ open'[i].kind = open[i].kind
  BY <1>3 DEF SameBodies, Proceeds, Kept
<1>4. ASSUME NEW i \in 1 .. Len(open), open[i].fun # None
      PROVE  i <= Len(open') /\ open'[i].fun = open[i].fun
  <2>1. i <= Len(open') /\ i <= Len(open)
    BY <1>2, <1>4 DEF SameBodies
  <2>2. i \in 1 .. Len(open')
    BY <1>2, <2>1
  <2> QED BY <2>1, <2>2 DEF Proceeds, Kept
<1> QED BY <1>1, <1>2, <1>3, <1>4 DEF Quiet, SameFuns, NoNewFuns

LEMMA SameOpen ==
  ASSUME NEW o, NEW p, Len(o) \in Nat, Len(p) = Len(o)
  PROVE  SameBodies(o, p)
BY DEF SameBodies

LEMMA MoreOpen ==
  ASSUME NEW o, NEW p, Len(o) \in Nat, Len(p) = Len(o) + 1, p[Len(o) + 1].fun = None
  PROVE  SameBodies(o, p)
<1>1. \A i \in 1 .. Len(p) : i <= Len(o) \/ i = Len(o) + 1
  OBVIOUS
<1> QED BY <1>1 DEF SameBodies

LEMMA FewerOpen ==
  ASSUME NEW o, NEW p, Len(o) \in Nat, Len(p) = Len(o) - 1, o[Len(o)].fun = None
  PROVE  SameBodies(o, p)
<1>1. \A i \in 1 .. Len(o) : i <= Len(p) \/ i = Len(o)
  OBVIOUS
<1> QED BY <1>1 DEF SameBodies

LEMMA NothingNew ==
  ASSUME NEW e, NEW ns, Len(ns) \in Nat
  PROVE  NoNewFuns(e, ns, ns)
<1>1. Len(ns) + 1 .. Len(ns) = {}
  OBVIOUS
<1> QED BY <1>1 DEF NoNewFuns

LEMMA ContextParts ==
  ASSUME NEW kind, NEW table, NEW tag, NEW fun
  PROVE  /\ Context(kind, table, tag, fun).fun = fun
         /\ Context(kind, table, tag, fun).kind = kind
         /\ Context(kind, table, tag, fun).table = table
BY DEF Context

LEMMA NodeParts ==
  ASSUME NEW kind, NEW name, NEW table, NEW sym, NEW params
  PROVE  /\ Node(kind, name, table, sym, params).kind = kind
         /\ Node(kind, name, table, sym, params).name = name
         /\ Node(kind, name, table, sym, params).table = table
         /\ Node(kind, name, table, sym, params).sym = sym
         /\ Node(kind, name, table, sym, params).params = params
BY DEF Node

\* The steps of the analysis that neither add to the program, nor define anything.
LEMMA QuietBrackets ==
  ASSUME TypeInv, Unique(db), Proceeds, OpenBodies(open, nodes),
         \/ TypeSpecifier
         \/ \E tag \in TagNames : TagSpecifier(tag) \/ OpenStruct(tag)
         \/ CloseStruct \/ OpenBlock
         \/ CloseBlock /\ Here.fun = None
         \/ \E f \in FunNames, params \in SeqsUpTo(ParamNames, MaxParams) :
              ExtDefFunAborts(f, params)
         \/ Finish
  PROVE  Quiet(db, db', open, open', nodes, nodes')
<1>1. /\ WellFormed(db) /\ Len(open) \in Nat /\ Len(open) >= 1 /\ Len(open) \in 1 .. Len(open)
      /\ Here = open[Len(open)]
      /\ Len(nodes) \in Nat /\ Nested(open, db)
      /\ 1 \in 1 .. Len(db.tables)
  <2>1. Len(db.tables) \in Nat /\ Len(db.tables) >= 1
    BY HereParts, DbParts
  <2> QED BY <2>1, HereParts DEF TypeInv
<1>2. nodes' = nodes
  BY DEF TypeSpecifier, TagSpecifier, OpenStruct, CloseStruct, OpenBlock, CloseBlock,
         ExtDefFunAborts, Finish
<1>3. NoNewFuns(db', nodes, nodes')
  BY <1>1, <1>2, NothingNew
<1>4. ASSUME NEW spec \in Spec0, MayDefine, open' = With(spec), UNCHANGED <<db, nodes>>
      PROVE  SameFuns(db, db') /\ SameBodies(open, open')
  <2>1. Len(open') = Len(open)
    BY <1>4, SpecifierStep DEF IsWith
  <2> QED BY <1>1, <1>4, <2>1, SameSymbols, SameOpen
<1>5. ASSUME TypeSpecifier PROVE SameFuns(db, db') /\ SameBodies(open, open')
  BY <1>4, <1>5, NoSpecIsSpec DEF TypeSpecifier
<1>6. ASSUME NEW tag \in TagNames, TagSpecifier(tag)
      PROVE  SameFuns(db, db') /\ SameBodies(open, open')
  <2>1. [tag |-> tag, tp |-> "null"] \in Spec0
    BY DEF Spec0, StructSpec
  <2> QED BY <1>4, <1>6, <2>1 DEF TagSpecifier
<1>7. ASSUME NEW tag \in TagNames, OpenStruct(tag)
      PROVE  SameFuns(db, db') /\ SameBodies(open, open')
  <2>1. /\ db'.symbols = db.symbols
        /\ \A t \in 1 .. Len(db.tables) : db'.tables[t] = db.tables[t]
        /\ Len(open') = Len(open) + 1
        /\ open'[Len(open) + 1] = Context("struct", Len(db.tables) + 1, tag, None)
    BY <1>7, OpenStructStep
  <2>2. open'[Len(open) + 1].fun = None
    BY <2>1, ContextParts
  <2>3. db'.tables[1].syms = db.tables[1].syms
    BY <1>1, <2>1
  <2> QED BY <1>1, <2>1, <2>2, <2>3, SameSymbols, MoreOpen
<1>8. ASSUME CloseStruct PROVE SameFuns(db, db') /\ SameBodies(open, open')
  <2>1. Len(open') = Len(open) - 1 /\ db' = db
    BY <1>8, CloseStructStep DEF CloseStruct
  <2>2. Here.fun = None
    BY <1>1, <1>8 DEF OpenBodies, CloseStruct
  <2> QED BY <1>1, <2>1, <2>2, SameSymbols, FewerOpen
<1>9. ASSUME OpenBlock PROVE SameFuns(db, db') /\ SameBodies(open, open')
  <2>1. /\ db'.symbols = db.symbols
        /\ \A t \in 1 .. Len(db.tables) : db'.tables[t] = db.tables[t]
        /\ Len(open') = Len(open) + 1
        /\ open'[Len(open) + 1] = Context("block", Len(db.tables) + 1, NoName, None)
    BY <1>9, OpenBlockStep
  <2>2. open'[Len(open) + 1].fun = None
    BY <2>1, ContextParts
  <2>3. db'.tables[1].syms = db.tables[1].syms
    BY <1>1, <2>1
  <2> QED BY <1>1, <2>1, <2>2, <2>3, SameSymbols, MoreOpen
<1>10. ASSUME CloseBlock, Here.fun = None PROVE SameFuns(db, db') /\ SameBodies(open, open')
  <2>1. Len(open') = Len(open) - 1 /\ db' = db
    BY <1>10, CloseBlockStep
  <2> QED BY <1>1, <1>10, <2>1, SameSymbols, FewerOpen
<1>11. ASSUME NEW f \in FunNames, NEW params \in SeqsUpTo(ParamNames, MaxParams),
              ExtDefFunAborts(f, params)
       PROVE  SameFuns(db, db') /\ SameBodies(open, open')
  BY <1>1, <1>11, SameSymbols, SameOpen DEF ExtDefFunAborts
<1>12. ASSUME Finish PROVE SameFuns(db, db') /\ SameBodies(open, open')
  <2>1. db'.symbols = db.symbols /\ db'.tables = db.tables /\ open' = open
    BY <1>12, FinishStep DEF Finish
  <2> QED BY <1>1, <2>1, SameSymbols, SameOpen
<1> QED BY <1>3, <1>5, <1>6, <1>7, <1>8, <1>9, <1>10, <1>11, <1>12, QuietStep

LEMMA QuietDefinitions ==
  ASSUME TypeInv, Unique(db), Proceeds,
         \/ ExtDefStruct
         \/ \E names \in SeqsUpTo(VarNames, MaxDecs) \ {<< >>} : ExtDefVars(names)
         \/ \E decs \in SeqsUpTo(Decs, MaxDecs) \ {<< >>} : Def(decs)
  PROVE  Quiet(db, db', open, open', nodes, nodes')
<1>1. /\ WellFormed(db) /\ Len(open) \in Nat /\ nodes \in Seq(Nodes) /\ Len(nodes) \in Nat
  BY HereParts DEF TypeInv
<1>2. SameBodies(open, open')
  <2>1. open' = With(NoSpec)
    BY DEF ExtDefStruct, ExtDefVars, Def
  <2>2. Evolves(db, db')
    BY DEF Proceeds
  <2>3. Len(open') = Len(open)
    BY <2>1, <2>2, WithNoSpec DEF IsWith
  <2> QED BY <1>1, <2>3, SameOpen
<1>3. ASSUME ExtDefStruct
      PROVE  SameFuns(db, db') /\ NoNewFuns(db', nodes, nodes')
  <2>1. OnlyTags(db, db') /\ nodes' = nodes
    BY <1>3, ExtDefStructStep DEF ExtDefStruct
  <2> QED BY <1>1, <2>1, TagsAreNoFuns, NothingNew
<1>4. ASSUME NEW names \in SeqsUpTo(VarNames, MaxDecs) \ {<< >>}, ExtDefVars(names)
      PROVE  SameFuns(db, db') /\ NoNewFuns(db', nodes, nodes')
  <2>1. PICK n \in Nodes : n = Node("extvars", NoName, 1, None, names)
    BY <1>4, ExtDefVarsStep
  <2>2. IsDefined(db, db', 1, Len(names), names) /\ nodes' = Append(nodes, n)
    BY <1>4, <2>1, ExtDefVarsStep DEF ExtDefVars
  <2>3. SameFuns(db, db')
    BY <1>1, <2>2, DefinesNoFuns
  <2>4. n.kind = "extvars"
    BY <2>1, NodeParts
  <2>5. Len(nodes') = Len(nodes) + 1 /\ nodes'[Len(nodes) + 1] = n
    BY <1>1, <2>2, ProlongsAppend
  <2>6. \A k \in Len(nodes) + 1 .. Len(nodes') : nodes'[k] = n
    BY <1>1, <2>5
  <2> QED BY <2>3, <2>4, <2>6 DEF NoNewFuns
<1>5. ASSUME NEW decs \in SeqsUpTo(Decs, MaxDecs) \ {<< >>}, Def(decs)
      PROVE  SameFuns(db, db') /\ NoNewFuns(db', nodes, nodes')
  <2>1. /\ IsDefined(db, db', Here.table, Len(decs), DecNames(decs))
        /\ Here.kind \in {"block", "struct"}
        /\ Here.kind = "struct" => nodes' = nodes
        /\ Here.kind = "block" =>
             AreVisited(nodes, nodes', Len(decs), Len(db'.symbols) - Len(decs))
    BY <1>5, DefStep
  <2>2. SameFuns(db, db')
    BY <1>1, <2>1, DefinesNoFuns
  <2>3. CASE Here.kind = "struct"
    BY <1>1, <2>1, <2>2, <2>3, NothingNew
  <2>4. CASE Here.kind = "block"
    <3>1. \A k \in Len(nodes) + 1 .. Len(nodes') : nodes'[k].kind \in {"dec", "id"}
      BY <2>1, <2>4 DEF AreVisited
    <3> QED BY <2>2, <3>1 DEF NoNewFuns
  <2> QED BY <2>1, <2>3, <2>4
<1> QED BY <1>2, <1>3, <1>4, <1>5, QuietStep

LEMMA CallArgs ==
  ASSUME NEW args \in SeqsUpTo({NoName}, 1)
  PROVE  args \in Seq(Names \cup {NoName})
<1>1. Len(args) \in Nat /\ args \in [1 .. Len(args) -> {NoName}]
  BY SeqUpTo
<1>2. args \in [1 .. Len(args) -> Names \cup {NoName}]
  BY <1>1
<1>3. Len(args) \in Nat
  BY <1>1
<1> QED BY <1>2, <1>3

\* A use is quiet: if it is a call without an error, the analysis has found the
\* function and counted the arguments.
LEMMA QuietUse ==
  ASSUME TypeInv, Unique(db), Proceeds,
         NEW kind \in {"id", "neg", "call"}, NEW name \in UseNames,
         NEW args \in Seq(Names \cup {NoName}), Use(kind, name, args)
  PROVE  Quiet(db, db', open, open', nodes, nodes')
<1>1. PICK s, t : s = st_find(db, Here.table, name) /\ t = Here.table
  OBVIOUS
<1>2. PICK n : n = Node(kind, name, t, s, args)
  OBVIOUS
<1>3. /\ db'.symbols = db.symbols /\ db'.tables = db.tables
      /\ nodes' = Append(nodes, n) /\ n \in Nodes
      /\ IsWith(open, open', NoSpec, TRUE)
      /\ db'.passed => /\ s # None
                       /\ kind = "call" => /\ db.symbols[s].cls = "func"
                                           /\ db.symbols[s].argc = Len(args)
  BY <1>1, <1>2, UseStep
<1>4. /\ WellFormed(db) /\ Len(open) \in Nat /\ nodes \in Seq(Nodes) /\ Len(nodes) \in Nat
      /\ t \in 1 .. Len(db.tables)
  BY <1>1, HereParts DEF TypeInv
<1>5. Len(nodes') = Len(nodes) + 1 /\ nodes'[Len(nodes) + 1] = n
  BY <1>3, <1>4, ProlongsAppend
<1>6. \A k \in Len(nodes) + 1 .. Len(nodes') : nodes'[k] = n
  BY <1>4, <1>5
<1>7. n.kind = kind /\ n.name = name /\ n.sym = s /\ n.params = args
  BY <1>2, NodeParts
<1>8. s # None => s \in 1 .. Len(db.symbols) /\ db.symbols[s].name = name
  BY <1>1, <1>4, FindParts
<1>9. db'.passed /\ kind = "call" => IsCall(db', n)
  BY <1>3, <1>7, <1>8 DEF IsCall, IsFun
<1>10. NoNewFuns(db', nodes, nodes')
  BY <1>6, <1>7, <1>9 DEF NoNewFuns
<1>11. SameFuns(db, db') /\ SameBodies(open, open')
  BY <1>3, <1>4, SameSymbols, SameOpen DEF IsWith
<1> QED BY <1>10, <1>11, QuietStep

\* The translation does not touch the functions either.
LEMMA QuietTranslation ==
  ASSUME TypeInv, Unique(db), Proceeds, Translate
  PROVE  Quiet(db, db', open, open', nodes, nodes')
<1>1. /\ WellFormed(db) /\ Len(open) \in Nat /\ Len(nodes) \in Nat /\ Len(db.symbols) \in Nat
      /\ 1 \in 1 .. Len(db.tables)
  <2>1. Len(db.tables) \in Nat /\ Len(db.tables) >= 1 /\ Len(db.symbols) \in Nat
    BY HereParts, DbParts
  <2> QED BY <2>1, HereParts DEF TypeInv
<1>2. /\ UNCHANGED <<open, nodes>> /\ db'.tables = db.tables
      /\ Len(db'.symbols) = Len(db.symbols)
      /\ \A s \in 1 .. Len(db.symbols) : db'.symbols[s].state = db.symbols[s].state
  BY TranslateStep
<1>3. SameFuns(db, db')
  <2>1. Len(db.symbols) + 1 .. Len(db'.symbols) = {}
    BY <1>1, <1>2
  <2> QED BY <1>2, <2>1 DEF SameFuns
<1> QED BY <1>1, <1>2, <1>3, NothingNew, SameOpen, QuietStep

-----------------------------------------------------------------------------
(* The steps that declare, open and close a function. *)

LEMMA ExtDefFunDecFuns ==
  ASSUME TypeInv, Unique(db), FunsInv(db, open, nodes), NEW f \in FunNames,
         NEW params \in SeqsUpTo(ParamNames, MaxParams), ExtDefFunDec(f, params)
  PROVE  FunsInv(db', open', nodes')
<1>1. PICK d : /\ IsWithFun(db, d, f, Len(params), params, "dec")
               /\ IsRegistered(d, db', Len(d.symbols))
  BY ExtDefFunDecStep
<1>2. Len(params) \in Nat /\ f \in Names /\ Evolves(db, db')
  BY ExtDefFunDecStep
<1>3. PICK n \in Nodes : n = Node("fundec", f, 1, None, params)
  BY ExtDefFunDecStep
<1>4. n.kind = "fundec" /\ n.name = f /\ n.params = params
  BY <1>3, NodeParts
<1>5. /\ WellFormed(db) /\ nodes \in Seq(Nodes) /\ Len(nodes) \in Nat
      /\ Len(open) = 1 /\ open[1].fun = None
  BY HereParts DEF ExtDefFunDec, TypeInv, Nested
<1>6. nodes' = Append(nodes, n)
  BY <1>3 DEF ExtDefFunDec
<1>7. /\ Prolongs(nodes, nodes') /\ Len(nodes') = Len(nodes) + 1
      /\ nodes'[Len(nodes')] = n
  BY <1>5, <1>6, ProlongsAppend
<1>8. Len(open') = 1 /\ open'[1].fun = None
  <2>1. IsWith(open, open', NoSpec, Here.stmts)
    BY <1>2, WithNoSpec DEF ExtDefFunDec
  <2> QED BY <1>5, <2>1 DEF IsWith
<1>9. \A m : Closed(open', m) <=> Closed(open, m)
  BY <1>5, <1>8 DEF Closed
<1>10. Adds(db, d, open', nodes', Len(d.symbols), "dec")
  <2>1. /\ nodes'[Len(nodes')].kind \in {"fun", "fundec"} /\ nodes'[Len(nodes')].name = f
        /\ Len(nodes'[Len(nodes')].params) = Len(params)
        /\ nodes'[Len(nodes')].kind # "fun"
        /\ ~Closed(open', nodes'[Len(nodes')])
    BY <1>4, <1>7 DEF Closed
  <2> QED BY <1>1, <1>2, <1>5, <1>7, <1>9, <2>1, FunAdds
<1>11. OpenBodies(open', nodes')
  BY <1>8 DEF OpenBodies
<1>12. Pending(d, open', nodes', Len(nodes'), Len(d.symbols))
  <2>1. Len(nodes') \in Nat /\ Len(nodes') \in 1 .. Len(nodes')
    BY <1>5, <1>7
  <2>2. d.passed => OneBodyBut(open', nodes', Len(nodes'))
    BY <1>10 DEF Adds, OneBody, OneBodyBut
  <2>3. nodes'[Len(nodes')].kind = "fundec"
    BY <1>4, <1>7
  <2> QED BY <1>10, <1>11, <2>1, <2>2, <2>3 DEF Pending, Adds
<1>13. WellFormed(d) /\ Unique(d)
  BY <1>1 DEF IsWithFun
<1> QED BY <1>1, <1>12, <1>13, PendingRegistered

LEMMA OpenFunFuns ==
  ASSUME TypeInv, Unique(db), FunsInv(db, open, nodes), NEW f \in FunNames,
         NEW params \in SeqsUpTo(ParamNames, MaxParams), OpenFun(f, params)
  PROVE  FunsInv(db', open', nodes')
<1>1. PICK d : /\ IsWithFun(db, d, f, Len(params), params, "def")
               /\ db'.symbols = d.symbols /\ db'.passed = d.passed
               /\ \A t \in 1 .. Len(d.tables) : db'.tables[t] = d.tables[t]
               /\ Len(db'.tables) = Len(d.tables) + 1
               /\ open' = Append(With(NoSpec),
                                 Context("block", Len(d.tables) + 1, NoName, Len(d.symbols)))
               /\ nodes' = Append(nodes, Node("fun", f, Len(d.tables), Len(d.symbols), params))
  BY OpenFunStep
<1>2. /\ Len(params) \in Nat /\ f \in Names /\ Evolves(db, db')
      /\ Nested(open', db')
      /\ nodes' \in Seq(Nodes) /\ Len(nodes') = Len(nodes) + 1
      /\ \A i \in 1 .. Len(nodes) : nodes'[i] = nodes[i]
  BY OpenFunStep
<1>3. PICK n : n = Node("fun", f, Len(d.tables), Len(d.symbols), params)
  OBVIOUS
<1>4. PICK c : c = Context("block", Len(d.tables) + 1, NoName, Len(d.symbols))
  OBVIOUS
<1>5. n.kind = "fun" /\ n.name = f /\ n.sym = Len(d.symbols) /\ n.params = params
      /\ c.kind = "block" /\ c.fun = Len(d.symbols)
  BY <1>3, <1>4, NodeParts, ContextParts
<1>6. /\ WellFormed(db) /\ nodes \in Seq(Nodes) /\ Len(nodes) \in Nat
      /\ Nested(open, db) /\ Len(open) = 1 /\ open[1].fun = None
      /\ ~Here.stmts \/ Here.stmts
  BY HereParts DEF OpenFun, TypeInv, Nested
<1>7. /\ Prolongs(nodes, nodes') /\ nodes'[Len(nodes')] = n
      /\ Len(nodes') \in Nat /\ Len(nodes') \in 1 .. Len(nodes')
  BY <1>1, <1>2, <1>3, <1>6 DEF Prolongs
<1>8. Len(open') = 2 /\ open'[1].fun = None /\ open'[2] = c
  <2>1. Nested(With(NoSpec), db) /\ IsWith(open, With(NoSpec), NoSpec, Here.stmts)
    BY NoSpecIsSpec, WithSpec
  <2>2. PICK q : q = With(NoSpec)
    OBVIOUS
  <2>3. q \in Seq(Contexts) /\ Len(q) = 1 /\ q[1].fun = None
    BY <1>6, <2>1, <2>2 DEF IsWith, Nested
  <2>4. open' = Append(q, c)
    BY <1>1, <1>4, <2>2
  <2>5. PICK S : S = Contexts \cup {c}
    OBVIOUS
  <2>6. q \in Seq(S) /\ c \in S
    BY <2>3, <2>5
  <2>7. PICK r : r = Append(q, c)
    OBVIOUS
  <2>8. Len(r) = Len(q) + 1 /\ r[Len(q) + 1] = c /\ \A i \in 1 .. Len(q) : r[i] = q[i]
    BY <2>6, <2>7, AppendProperties
  <2>9. 1 \in 1 .. Len(q)
    BY <2>3
  <2>10. Len(r) = 2 /\ r[2] = c /\ r[1] = q[1]
    BY <2>3, <2>8, <2>9
  <2> QED BY <2>3, <2>4, <2>7, <2>10
<1>9. WellFormed(d) /\ Unique(d) /\ Len(d.symbols) = Len(db.symbols) + Len(params) + 1
      /\ Len(db.symbols) \in Nat
  BY <1>1, <1>6, DbParts DEF IsWithFun
<1>10. ASSUME NEW i \in 1 .. Len(nodes), nodes[i].kind = "fun"
       PROVE  Closed(open', nodes[i]) /\ Closed(open, nodes[i])
  <2>1. nodes[i].sym \in 3 .. Len(db.symbols)
    BY <1>10 DEF FunsInv, Bodies, IsBody
  <2>2. nodes[i].sym # None /\ nodes[i].sym # Len(d.symbols)
    BY <1>2, <1>9, <2>1 DEF None
  <2>3. \A k \in 1 .. 2 : k = 1 \/ k = 2
    OBVIOUS
  <2> QED BY <1>5, <1>6, <1>8, <1>10, <2>2, <2>3 DEF Closed
<1>11. ~Closed(open', n)
  <2>1. 2 \in 1 .. Len(open')
    BY <1>8
  <2> QED BY <1>5, <1>8, <2>1 DEF Closed
<1>12. Adds(db, d, open', nodes', Len(d.symbols), "def")
  <2>1. /\ nodes'[Len(nodes')].kind \in {"fun", "fundec"} /\ nodes'[Len(nodes')].name = f
        /\ Len(nodes'[Len(nodes')].params) = Len(params)
        /\ nodes'[Len(nodes')].kind = "fun" =>
             "def" = "def" /\ nodes'[Len(nodes')].sym = Len(d.symbols)
        /\ ~Closed(open', nodes'[Len(nodes')])
    BY <1>5, <1>7, <1>11
  <2>2. \A i \in 1 .. Len(nodes) : nodes[i].kind = "fun" =>
          (Closed(open', nodes[i]) <=> Closed(open, nodes[i]))
    BY <1>10
  <2>3. Len(nodes') = Len(nodes) + 1 /\ Prolongs(nodes, nodes') /\ Len(nodes) \in Nat
    BY <1>2, <1>6, <1>7
  <2>4. IsWithFun(db, d, f, Len(params), params, "def") /\ Len(params) \in Nat /\ f \in Names
    BY <1>1, <1>2
  <2> QED BY <1>6, <2>1, <2>2, <2>3, <2>4, FunAdds
<1>13. OpenBodies(open', nodes')
  <2> SUFFICES ASSUME NEW i \in 1 .. Len(open'), open'[i].fun # None
               PROVE  /\ i = 2 /\ open'[i].kind = "block"
                      /\ \E j \in 1 .. Len(nodes') :
                           /\ nodes'[j].kind = "fun" /\ nodes'[j].sym = open'[i].fun
                           /\ \A k \in 1 .. Len(nodes') : nodes'[k].kind = "fundec" => k < j
    BY DEF OpenBodies
  <2>1. i = 2
    <3>1. i = 1 \/ i = 2
      BY <1>8
    <3> QED BY <1>8, <3>1
  <2>2. nodes'[Len(nodes')].kind = "fun" /\ nodes'[Len(nodes')].sym = open'[i].fun
    BY <1>5, <1>7, <1>8, <2>1
  <2>3. \A k \in 1 .. Len(nodes') : nodes'[k].kind = "fundec" => k < Len(nodes')
    <3> TAKE k \in 1 .. Len(nodes')
    <3>1. k = Len(nodes') \/ k < Len(nodes')
      BY <1>7
    <3>2. nodes'[Len(nodes')].kind # "fundec"
      BY <2>2
    <3> QED BY <3>1, <3>2
  <2> QED BY <1>5, <1>7, <1>8, <2>1, <2>2, <2>3
<1>14. FunsInv(d, open', nodes')
  <2>1. ~Closed(open', nodes'[Len(nodes')]) /\ nodes'[Len(nodes')].kind # "fundec"
    BY <1>5, <1>7, <1>11
  <2>2. HaveSymbolsBut(d, open', nodes', Len(nodes')) => HaveSymbols(d, open', nodes')
    BY <2>1 DEF HaveSymbolsBut, HaveSymbols
  <2> QED BY <1>12, <1>13, <2>2 DEF FunsInv, Adds
<1>15. Quiet(d, db', open', open', nodes', nodes')
  <2>1. WellFormed(db') /\ Unique(db')
    BY <1>2 DEF Evolves
  <2>2. 1 \in 1 .. Len(d.tables) /\ Len(d.tables) \in Nat /\ Len(d.symbols) \in Nat
    <3>1. Len(d.tables) \in Nat /\ Len(d.tables) >= 1 /\ Len(d.symbols) \in Nat
      BY <1>9, DbParts
    <3> QED BY <3>1
  <2>3. Grows(d, db')
    BY <1>1, <2>2 DEF Grows
  <2>4. Len(d.symbols) + 1 .. Len(db'.symbols) = {} /\ Len(nodes') + 1 .. Len(nodes') = {}
    BY <1>1, <1>7, <2>2
  <2>5. Prolongs(nodes', nodes')
    BY <1>7, ProlongsReflexive
  <2>6. Len(open') \in Nat /\ \A i \in 1 .. Len(open') : i <= Len(open')
    BY <1>8
  <2> QED BY <1>1, <1>7, <1>9, <2>1, <2>2, <2>3, <2>4, <2>5, <2>6 DEF Quiet
<1> QED BY <1>14, <1>15, QuietFuns

LEMMA CloseBlockFuns ==
  ASSUME TypeInv, Unique(db), FunsInv(db, open, nodes), CloseBlock, Here.fun # None
  PROVE  FunsInv(db', open', nodes')
<1>1. PICK s : s = Here.fun
  OBVIOUS
<1>2. /\ WellFormed(db) /\ Nested(open, db)
      /\ Len(open) \in Nat /\ Len(open) \in 1 .. Len(open) /\ open[Len(open)].fun = s
      /\ Len(nodes) \in Nat /\ s # None
  BY <1>1, HereParts DEF TypeInv
<1>3. /\ IsRegistered(db, db', s)
      /\ Len(open') = Len(open) - 1
      /\ \A i \in 1 .. Len(open) - 1 : open'[i] = open[i]
      /\ nodes' = nodes
  BY <1>1, CloseBlockStep DEF CloseBlock
<1>4. /\ Library(db) /\ Introduced(db, nodes) /\ Bodies(db, nodes) /\ OpenBodies(open, nodes)
  BY DEF FunsInv
<1>5. Len(open) = 2
  BY <1>2, <1>4 DEF OpenBodies
<1>6. Len(open') = 1 /\ open'[1].fun = None
  BY <1>2, <1>3, <1>5 DEF Nested
<1>7. PICK j \in 1 .. Len(nodes) :
        /\ nodes[j].kind = "fun" /\ nodes[j].sym = s
        /\ \A k \in 1 .. Len(nodes) : nodes[k].kind = "fundec" => k < j
  BY <1>2, <1>4 DEF OpenBodies
<1>8. ASSUME NEW i \in 1 .. Len(nodes), nodes[i].kind = "fun"
      PROVE  Closed(open', nodes[i]) /\ (i # j => Closed(open, nodes[i]))
  <2>1. nodes[i].sym \in 3 .. Len(db.symbols)
    BY <1>4, <1>8 DEF Bodies, IsBody
  <2>2. nodes[i].sym # None
    BY <2>1 DEF None
  <2>3. Closed(open', nodes[i])
    BY <1>6, <1>8, <2>2 DEF Closed
  <2>4. i # j => nodes[i].sym # s
    BY <1>4, <1>7, <1>8 DEF Bodies
  <2>5. \A k \in 1 .. Len(open) : open[k].fun = None \/ open[k].fun = s
    BY <1>2, <1>4, <1>5 DEF OpenBodies
  <2> QED BY <1>8, <2>2, <2>3, <2>4, <2>5 DEF Closed
<1>9. \A i \in 1 .. Len(nodes) : Closed(open, nodes[i]) => Closed(open', nodes[i])
  BY <1>8 DEF Closed
<1>10. IsBody(db, nodes[j])
  BY <1>4, <1>7 DEF Bodies
<1>11. ASSUME db.passed
       PROVE  /\ HaveSymbolsBut(db, open', nodes, j) /\ OneBodyBut(open', nodes, j)
              /\ HaveBodies(db, open', nodes) /\ Calls(db, nodes)
  <2>1. /\ HaveSymbols(db, open, nodes) /\ OneBody(open, nodes)
        /\ HaveBodies(db, open, nodes) /\ Calls(db, nodes)
    BY <1>11 DEF FunsInv
  <2>2. \A i \in 1 .. Len(nodes) : i # j /\ Closed(open', nodes[i]) => Closed(open, nodes[i])
    BY <1>8 DEF Closed
  <2>3. ASSUME NEW i \in 1 .. Len(nodes), i # j, Closed(open', nodes[i]) \/ nodes[i].kind = "fundec"
        PROVE  HasSymbol(db, open', nodes, i)
    <3>1. HasSymbol(db, open, nodes, i)
      BY <2>1, <2>2, <2>3 DEF HaveSymbols
    <3> QED BY <2>2, <2>3, <3>1 DEF HasSymbol
  <2>4. OneBodyBut(open', nodes, j)
    BY <2>1, <2>2 DEF OneBody, OneBodyBut
  <2>5. HaveBodies(db, open', nodes)
    BY <1>9, <2>1 DEF HaveBodies
  <2> QED BY <2>1, <2>3, <2>4, <2>5 DEF HaveSymbolsBut
<1>12. OpenBodies(open', nodes)
  BY <1>6 DEF OpenBodies
<1>13. Pending(db, open', nodes, j, s)
  <2>1. s \in 3 .. Len(db.symbols) /\ IsFun(db, s) /\ db.symbols[s].state = "def"
        /\ Declares(db, nodes[j], s)
    BY <1>7, <1>10 DEF IsBody
  <2>2. Closed(open', nodes[j])
    BY <1>7, <1>8
  <2> QED BY <1>2, <1>4, <1>7, <1>11, <1>12, <2>1, <2>2 DEF Pending
<1> QED BY <1>2, <1>3, <1>13, PendingRegistered

-----------------------------------------------------------------------------
(* The invariant of the functions. *)

LEMMA FunInit == Init => FunInv
<1> SUFFICES ASSUME Init PROVE FunInv
  OBVIOUS
<1>1. PICK read, write : /\ read = NewSymbol(ReadName, "func", 0, "def")
                         /\ write = NewSymbol(WriteName, "func", 1, "def")
  OBVIOUS
<1>2. /\ read.name = ReadName /\ read.cls = "func" /\ read.argc = 0 /\ read.state = "def"
      /\ write.name = WriteName /\ write.cls = "func" /\ write.argc = 1 /\ write.state = "def"
  BY <1>1 DEF NewSymbol
<1>3. db = [symbols |-> <<read, write>>, tables |-> <<[parent |-> None, syms |-> {1, 2}]>>,
            passed |-> TRUE]
  BY <1>1 DEF Init
<1>4. /\ Len(db.symbols) = 2 /\ db.symbols[1] = read /\ db.symbols[2] = write
      /\ db.tables[1].syms = {1, 2}
  BY <1>3
<1>5. Len(nodes) = 0 /\ phase = "analyse" /\ open = <<Context("unit", 1, NoName, None)>>
  BY DEF Init
<1>6. Len(open) = 1 /\ open[1].fun = None
  <2>1. PICK c : c = Context("unit", 1, NoName, None)
    OBVIOUS
  <2>2. open = <<c>> /\ c.fun = None
    BY <1>5, <2>1, ContextParts
  <2> QED BY <2>2
<1>7. Library(db)
  <2>1. \A s \in {1, 2} : s = 1 \/ s = 2
    OBVIOUS
  <2> QED BY <1>2, <1>4, <2>1 DEF Library, IsFun
<1>8. 3 .. Len(db.symbols) = {} /\ 1 .. Len(nodes) = {}
  BY <1>4, <1>5
<1>9. Introduced(db, nodes) /\ Bodies(db, nodes) /\ OpenBodies(open, nodes)
  <2>1. \A i \in 1 .. Len(open) : i = 1
    BY <1>6
  <2> QED BY <1>6, <1>8, <2>1 DEF Introduced, Bodies, OpenBodies
<1>10. HaveSymbols(db, open, nodes) /\ OneBody(open, nodes) /\ HaveBodies(db, open, nodes)
       /\ Calls(db, nodes)
  BY <1>4, <1>8 DEF HaveSymbols, OneBody, HaveBodies, Calls
<1>11. ~Accepted
  BY <1>5 DEF Accepted
<1> QED BY <1>7, <1>9, <1>10, <1>11 DEF FunInv, FunsInv

\* An analysis that ends well leaves no function without a body.
LEMMA AcceptedStep ==
  ASSUME TypeInv, FunInv, [Next]_vars, Accepted'
  PROVE  /\ db'.passed /\ Len(open') = 1
         /\ \A s \in db'.tables[1].syms : IsFun(db', s) => db'.symbols[s].state = "def"
<1>1. CASE Analyse
  <2>1. Finish
    <3>1. phase' = "translate" /\ phase = "analyse"
      BY <1>1, AnalyseProceeds DEF Accepted
    <3> QED BY <1>1, <3>1
       DEF Analyse, MayDefine, TypeSpecifier, TagSpecifier, OpenStruct, CloseStruct, ExtDefStruct,
           ExtDefVars, ExtDefFunAborts, ExtDefFunDec, OpenFun, OpenBlock, CloseBlock, Def, Use
  <2>2. phase' = "translate"
    BY <2>1, FinishStep DEF Accepted
  <2>3. /\ db'.symbols = db.symbols /\ db'.tables = db.tables /\ db'.passed
        /\ \A s \in db.tables[1].syms : db.symbols[s].cls = "func" => db.symbols[s].state = "def"
    BY <2>1, <2>2, FinishStep
  <2>4. open' = open /\ Len(open) = 1
    BY <2>1, HereParts DEF Finish
  <2> QED BY <2>3, <2>4 DEF IsFun
<1>2. CASE Translate
  <2>1. /\ phase = "translate" /\ UNCHANGED <<open, nodes>>
        /\ Evolves(db, db') /\ db'.tables = db.tables /\ db'.passed = db.passed
        /\ \A s \in 1 .. Len(db.symbols) : db'.symbols[s].state = db.symbols[s].state
    BY <1>2, TranslateStep
  <2>2. /\ db.passed /\ Len(open) = 1
        /\ \A s \in db.tables[1].syms : IsFun(db, s) => db.symbols[s].state = "def"
    BY <2>1 DEF FunInv, Accepted
  <2>3. \A s \in db.tables[1].syms : s \in 1 .. Len(db.symbols)
    <3>1. WellFormed(db) /\ Len(db.tables) \in Nat /\ Len(db.tables) >= 1
      BY HereParts, DbParts
    <3>2. 1 \in 1 .. Len(db.tables)
      BY <3>1
    <3> QED BY <3>1, <3>2, TableParts
  <2>4. \A s \in 1 .. Len(db.symbols) : IsFun(db', s) => IsFun(db, s)
    BY <2>1 DEF Evolves, Grows, IsFun
  <2> QED BY <2>1, <2>2, <2>3, <2>4
<1>3. CASE UNCHANGED vars
  BY <1>3 DEF vars, FunInv, Accepted
<1> QED BY <1>1, <1>2, <1>3 DEF Next, Over

LEMMA FunStep ==
  ASSUME TypeInv, Unique(db), FunInv, [Next]_vars
  PROVE  FunInv'
<1>1. Proceeds /\ FunsInv(db, open, nodes)
  BY NextProceeds DEF FunInv
<1>2. OpenBodies(open, nodes)
  BY <1>1 DEF FunsInv
<1>3. CASE Analyse
  <2> SUFFICES FunsInv(db', open', nodes')
    BY AcceptedStep DEF FunInv
  <2>1. CASE \E f \in FunNames, params \in SeqsUpTo(ParamNames, MaxParams) :
               ExtDefFunDec(f, params)
    BY <1>1, <2>1, ExtDefFunDecFuns
  <2>2. CASE \E f \in FunNames, params \in SeqsUpTo(ParamNames, MaxParams) : OpenFun(f, params)
    BY <1>1, <2>2, OpenFunFuns
  <2>3. CASE CloseBlock /\ Here.fun # None
    BY <1>1, <2>3, CloseBlockFuns
  <2>4. CASE \/ TypeSpecifier
             \/ \E tag \in TagNames : TagSpecifier(tag) \/ OpenStruct(tag)
             \/ CloseStruct \/ OpenBlock
             \/ CloseBlock /\ Here.fun = None
             \/ \E f \in FunNames, params \in SeqsUpTo(ParamNames, MaxParams) :
                  ExtDefFunAborts(f, params)
             \/ Finish
    <3>1. Quiet(db, db', open, open', nodes, nodes')
      BY <1>1, <1>2, <2>4, QuietBrackets
    <3> QED BY <1>1, <3>1, QuietFuns
  <2>5. CASE \/ ExtDefStruct
             \/ \E names \in SeqsUpTo(VarNames, MaxDecs) \ {<< >>} : ExtDefVars(names)
             \/ \E decs \in SeqsUpTo(Decs, MaxDecs) \ {<< >>} : Def(decs)
    <3>1. Quiet(db, db', open, open', nodes, nodes')
      BY <1>1, <2>5, QuietDefinitions
    <3> QED BY <1>1, <3>1, QuietFuns
  <2>6. ASSUME NEW kind \in {"id", "neg", "call"}, NEW name \in UseNames,
               NEW args \in Seq(Names \cup {NoName}), Use(kind, name, args)
        PROVE  FunsInv(db', open', nodes')
    <3>1. Quiet(db, db', open, open', nodes, nodes')
      BY <1>1, <2>6, QuietUse
    <3> QED BY <1>1, <3>1, QuietFuns
  <2>7. << >> \in Seq(Names \cup {NoName})
        /\ \A args \in SeqsUpTo({NoName}, 1) : args \in Seq(Names \cup {NoName})
    <3>1. << >> \in Seq(Names \cup {NoName})
      OBVIOUS
    <3> QED BY <3>1, CallArgs
  <2>8. CASE \/ BareUses /\ \E name \in UseNames : Use("id", name, << >>)
             \/ \E name \in UseNames : Use("neg", name, << >>)
             \/ \E name \in UseNames, args \in SeqsUpTo({NoName}, 1) : Use("call", name, args)
    BY <2>6, <2>7, <2>8
  <2> QED BY <1>3, <2>1, <2>2, <2>3, <2>4, <2>5, <2>8 DEF Analyse
<1>4. CASE Translate
  <2>1. Quiet(db, db', open, open', nodes, nodes')
    BY <1>1, <1>4, QuietTranslation
  <2>2. FunsInv(db', open', nodes')
    BY <1>1, <2>1, QuietFuns
  <2> QED BY <2>2, AcceptedStep DEF FunInv
<1>5. CASE UNCHANGED vars
  BY <1>5 DEF vars, FunInv, Accepted
<1> QED BY <1>3, <1>4, <1>5 DEF Next, Over

\* Every function of the tables comes from a node of the program, bodies have
\* symbols of their own, and without an error there is at most one body of a
\* name, which declarations and calls agree with.
THEOREM FunctionsAreKept == Spec => [](TypeInv /\ Unique(db) /\ FunInv)
<1>1. Init => TypeInv /\ Unique(db) /\ FunInv
  BY TypeInit, FunInit
<1>2. TypeInv /\ Unique(db) /\ FunInv /\ [Next]_vars => (TypeInv /\ Unique(db) /\ FunInv)'
  <2> SUFFICES ASSUME TypeInv, Unique(db), FunInv, [Next]_vars
               PROVE  TypeInv' /\ Unique(db') /\ FunInv'
    BY DEF Unique
  <2> QED BY TypeStep, FunStep DEF Evolves
<1> QED BY <1>1, <1>2, PTL DEF Spec

\* What FunInv says when the analysis has accepted the program.
LEMMA AcceptedBodies ==
  ASSUME TypeInv, Unique(db), FunInv, Accepted
  PROVE  \A i \in 1 .. Len(nodes) : nodes[i].kind \in {"fun", "fundec"} =>
           /\ nodes[i].name \notin {ReadName, WriteName}
           /\ \E b \in 1 .. Len(nodes) :
                /\ nodes[b].kind = "fun" /\ nodes[b].name = nodes[i].name
                /\ Len(nodes[b].params) = Len(nodes[i].params)
                /\ \A k \in 1 .. Len(nodes) :
                     nodes[k].kind = "fun" /\ nodes[k].name = nodes[i].name => k = b
<1>1. /\ WellFormed(db) /\ Len(open) = 1 /\ open[1].fun = None
      /\ 1 \in 1 .. Len(db.tables)
  <2>1. WellFormed(db) /\ Len(db.tables) \in Nat /\ Len(db.tables) >= 1
    BY HereParts, DbParts
  <2>2. 1 \in 1 .. Len(db.tables)
    BY <2>1
  <2> QED BY <2>1, <2>2 DEF FunInv, TypeInv, Nested
<1>2. /\ Library(db) /\ Bodies(db, nodes)
      /\ HaveSymbols(db, open, nodes) /\ OneBody(open, nodes) /\ HaveBodies(db, open, nodes)
      /\ \A s \in db.tables[1].syms : IsFun(db, s) => db.symbols[s].state = "def"
  BY DEF FunInv, FunsInv
<1>3. \A i \in 1 .. Len(nodes) : nodes[i].kind = "fun" => Closed(open, nodes[i])
  <2> SUFFICES ASSUME NEW i \in 1 .. Len(nodes), nodes[i].kind = "fun"
               PROVE  Closed(open, nodes[i])
    OBVIOUS
  <2>1. nodes[i].sym \in 3 .. Len(db.symbols)
    BY <1>2 DEF Bodies, IsBody
  <2>2. nodes[i].sym # None
    BY <2>1 DEF None
  <2> QED BY <1>1, <2>2 DEF Closed
<1>4. ASSUME NEW i \in 1 .. Len(nodes), nodes[i].kind \in {"fun", "fundec"}
      PROVE  /\ nodes[i].name \notin {ReadName, WriteName}
             /\ st_findonly(db, 1, nodes[i].name) \in db.tables[1].syms
             /\ IsFun(db, st_findonly(db, 1, nodes[i].name))
             /\ st_findonly(db, 1, nodes[i].name) \notin {1, 2}
             /\ db.symbols[st_findonly(db, 1, nodes[i].name)].name = nodes[i].name
             /\ db.symbols[st_findonly(db, 1, nodes[i].name)].argc = Len(nodes[i].params)
  <2>1. HasSymbol(db, open, nodes, i)
    BY <1>2, <1>3, <1>4 DEF HaveSymbols
  <2>2. PICK s : s = st_findonly(db, 1, nodes[i].name)
    OBVIOUS
  <2>3. s # None /\ s \notin {1, 2} /\ IsFun(db, s) /\ db.symbols[s].argc = Len(nodes[i].params)
    BY <2>1, <2>2 DEF HasSymbol
  <2>4. s \in db.tables[1].syms /\ db.symbols[s].name = nodes[i].name
    BY <1>1, <2>2, <2>3, FindOnly
  <2>5. \A r \in {1, 2} : nodes[i].name # db.symbols[r].name
    <3> SUFFICES ASSUME NEW r \in {1, 2}, nodes[i].name = db.symbols[r].name PROVE FALSE
      OBVIOUS
    <3>1. r \in db.tables[1].syms
      BY <1>2 DEF Library
    <3>2. s = r
      BY <1>1, <2>4, <3>1 DEF Unique
    <3> QED BY <2>3, <3>2
  <2>6. nodes[i].name \notin {ReadName, WriteName}
    BY <1>2, <2>5 DEF Library
  <2> QED BY <2>2, <2>3, <2>4, <2>6
<1>5. ASSUME NEW i \in 1 .. Len(nodes), nodes[i].kind \in {"fun", "fundec"}
      PROVE  \E b \in 1 .. Len(nodes) :
               /\ nodes[b].kind = "fun" /\ nodes[b].name = nodes[i].name
               /\ Len(nodes[b].params) = Len(nodes[i].params)
               /\ \A k \in 1 .. Len(nodes) :
                    nodes[k].kind = "fun" /\ nodes[k].name = nodes[i].name => k = b
  <2>1. PICK s : s = st_findonly(db, 1, nodes[i].name)
    OBVIOUS
  <2>2. /\ s \in db.tables[1].syms /\ IsFun(db, s) /\ s \notin {1, 2}
        /\ db.symbols[s].name = nodes[i].name
        /\ db.symbols[s].argc = Len(nodes[i].params)
    BY <1>4, <1>5, <2>1
  <2>3. PICK b \in 1 .. Len(nodes) : Closed(open, nodes[b]) /\ nodes[b].name = nodes[i].name
    BY <1>2, <2>2 DEF HaveBodies
  <2>4. nodes[b].kind = "fun"
    BY <2>3 DEF Closed
  <2>5. db.symbols[s].argc = Len(nodes[b].params)
    BY <1>4, <2>1, <2>3, <2>4
  <2>6. \A k \in 1 .. Len(nodes) :
          nodes[k].kind = "fun" /\ nodes[k].name = nodes[i].name => k = b
    BY <1>2, <1>3, <2>3 DEF OneBody
  <2> QED BY <2>2, <2>3, <2>4, <2>5, <2>6
<1> QED BY <1>4, <1>5

LEMMA LibraryAlone ==
  ASSUME TypeInv, Unique(db), FunInv, Accepted,
         NEW i \in 1 .. Len(nodes), nodes[i].name \in {ReadName, WriteName},
         nodes[i].kind \in {"fun", "fundec", "call"}
  PROVE  /\ nodes[i].kind = "call"
         /\ Len(nodes[i].params) = IF nodes[i].name = ReadName THEN 0 ELSE 1
<1>1. nodes[i].kind = "call"
  BY AcceptedBodies
<1>2. Library(db) /\ Introduced(db, nodes) /\ IsCall(db, nodes[i])
  BY <1>1 DEF FunInv, FunsInv, Calls
<1>3. PICK s : s = nodes[i].sym
  OBVIOUS
<1>4. /\ s \in 1 .. Len(db.symbols) /\ IsFun(db, s)
      /\ db.symbols[s].name = nodes[i].name /\ db.symbols[s].argc = Len(nodes[i].params)
  BY <1>2, <1>3 DEF IsCall
<1>5. s \notin 3 .. Len(db.symbols)
  <2> SUFFICES ASSUME s \in 3 .. Len(db.symbols) PROVE FALSE
    OBVIOUS
  <2>1. PICK k \in 1 .. Len(nodes) : Declares(db, nodes[k], s)
    BY <1>2, <1>4 DEF Introduced
  <2>2. nodes[k].kind \in {"fun", "fundec"} /\ nodes[k].name = nodes[i].name
    BY <1>4, <2>1 DEF Declares
  <2> QED BY <2>2, AcceptedBodies
<1>6. s \in {1, 2}
  <2>1. Len(db.symbols) \in Nat
    BY HereParts, DbParts
  <2> QED BY <1>4, <1>5, <2>1
<1>7. /\ s = 1 => nodes[i].name = ReadName /\ db.symbols[s].argc = 0
      /\ s = 2 => nodes[i].name = WriteName /\ db.symbols[s].argc = 1
  <2>1. /\ db.symbols[1].name = ReadName /\ db.symbols[2].name = WriteName
        /\ db.symbols[1].argc = 1 - 1 /\ db.symbols[2].argc = 2 - 1
    BY <1>2 DEF Library
  <2>2. 1 - 1 = 0 /\ 2 - 1 = 1
    OBVIOUS
  <2>3. CASE s = 1
    BY <1>4, <2>1, <2>2, <2>3
  <2>4. CASE s = 2
    BY <1>4, <2>1, <2>2, <2>4
  <2> QED BY <1>6, <2>3, <2>4
<1> QED BY <1>1, <1>4, <1>6, <1>7, BoundsAssumption

\* In every program that the analysis accepts, each function that is declared,
\* defined or called has exactly one body with the same number of parameters,
\* and the library's functions have none.
THEOREM AcceptedFunctions == Spec => []FunctionsAreDefined
<1>1. TypeInv /\ Unique(db) /\ FunInv => FunctionsAreDefined
  <2> SUFFICES ASSUME TypeInv, Unique(db), FunInv, phase \notin {"analyse", "aborted", "rejected"}
               PROVE  FunctionsAreDefined
    BY DEF FunctionsAreDefined
  <2>1. Accepted /\ DOMAIN nodes = 1 .. Len(nodes)
    BY DEF TypeInv, Phases, Accepted
  <2> DEFINE bodies(f) == {i \in DOMAIN nodes : nodes[i].kind = "fun" /\ nodes[i].name = f}
  <2>2. ASSUME NEW i \in 1 .. Len(nodes), nodes[i].kind \in {"fun", "fundec", "call"},
               nodes[i].name \in {ReadName, WriteName}
        PROVE  /\ bodies(nodes[i].name) = {} /\ nodes[i].kind # "fundec"
               /\ Len(nodes[i].params) = IF nodes[i].name = ReadName THEN 0 ELSE 1
    <3>1. \A k \in 1 .. Len(nodes) : nodes[k].kind = "fun" => nodes[k].name # nodes[i].name
      BY <2>1, <2>2, AcceptedBodies
    <3>2. bodies(nodes[i].name) = {}
      BY <2>1, <3>1
    <3> QED BY <2>1, <2>2, <3>2, LibraryAlone
  <2>3. ASSUME NEW i \in 1 .. Len(nodes), nodes[i].kind \in {"fun", "fundec"}
        PROVE  \E body \in bodies(nodes[i].name) :
                 /\ bodies(nodes[i].name) = {body}
                 /\ Len(nodes[body].params) = Len(nodes[i].params)
    <3>1. PICK b \in 1 .. Len(nodes) :
            /\ nodes[b].kind = "fun" /\ nodes[b].name = nodes[i].name
            /\ Len(nodes[b].params) = Len(nodes[i].params)
            /\ \A k \in 1 .. Len(nodes) :
                 nodes[k].kind = "fun" /\ nodes[k].name = nodes[i].name => k = b
      BY <2>1, <2>3, AcceptedBodies
    <3>2. bodies(nodes[i].name) = {b}
      BY <2>1, <3>1
    <3> QED BY <3>1, <3>2
  <2>4. ASSUME NEW i \in 1 .. Len(nodes), nodes[i].kind = "call",
               nodes[i].name \notin {ReadName, WriteName}
        PROVE  \E body \in bodies(nodes[i].name) :
                 /\ bodies(nodes[i].name) = {body}
                 /\ Len(nodes[body].params) = Len(nodes[i].params)
    <3>1. Library(db) /\ Introduced(db, nodes) /\ IsCall(db, nodes[i])
      BY <2>1, <2>4 DEF FunInv, FunsInv, Calls
    <3>2. PICK s : s = nodes[i].sym
      OBVIOUS
    <3>3. /\ s \in 1 .. Len(db.symbols) /\ IsFun(db, s) /\ Len(db.symbols) \in Nat
          /\ db.symbols[s].name = nodes[i].name /\ db.symbols[s].argc = Len(nodes[i].params)
      BY <3>1, <3>2, HereParts, DbParts DEF IsCall
    <3>4. s # 1 /\ s # 2
      BY <2>4, <3>1, <3>3 DEF Library
    <3>5. s \in 3 .. Len(db.symbols)
      BY <3>3, <3>4
    <3>6. PICK k \in 1 .. Len(nodes) : Declares(db, nodes[k], s)
      BY <3>1, <3>3, <3>5 DEF Introduced
    <3>7. /\ nodes[k].kind \in {"fun", "fundec"} /\ nodes[k].name = nodes[i].name
          /\ Len(nodes[k].params) = Len(nodes[i].params)
      BY <3>3, <3>6 DEF Declares
    <3> HIDE DEF bodies
    <3> QED BY <2>3, <3>7
  <2>5. ASSUME NEW i \in DOMAIN nodes, nodes[i].kind \in {"fun", "fundec", "call"},
               nodes[i].name \notin {ReadName, WriteName}
        PROVE  \E body \in bodies(nodes[i].name) :
                 /\ bodies(nodes[i].name) = {body}
                 /\ Len(nodes[body].params) = Len(nodes[i].params)
    <3> HIDE DEF bodies
    <3> QED BY <2>1, <2>3, <2>4, <2>5
  <2> QED BY <2>1, <2>2, <2>5 DEF FunctionsAreDefined
<1> QED BY <1>1, FunctionsAreKept, PTL

-----------------------------------------------------------------------------
(* Variables, and the translation. *)

\* The variable s gets its place in the code where node n is translated.
Introduces(d, n, s) ==
  \/ n.kind = "extvars"
  \/ /\ n.kind = "fun" /\ s \in d.tables[n.table].syms
     /\ \E k \in 1 .. Len(n.params) : n.params[k] = d.symbols[s].name
  \/ n.kind = "dec" /\ n.sym = s

\* While the analysis goes on: the variables in scope have their nodes.
HaveNodes(d, o, ns) ==
  \A i \in 1 .. Len(o) : o[i].kind # "struct" =>
    \A u \in Enclosing(d, o[i].table) : \A s \in d.tables[u].syms :
      IsVar(d, s) => \E j \in 1 .. Len(ns) : Introduces(d, ns[j], s)

\* The parameters of the function of node n are in its table.
ParamsFound(d, n) ==
  \A k \in 1 .. Len(n.params) :
    LET s == st_findonly(d, n.table, n.params[k])
    IN s # None /\ IsVar(d, s)

\* What the translation needs at node i comes from nodes before it.
IsPrepared(d, ns, i) ==
  LET n == ns[i]
  IN /\ n.kind = "id" => Inits \/ BareUses
     /\ n.kind = "dec" => n.sym \in 1 .. Len(d.symbols) /\ IsVar(d, n.sym)
     /\ n.kind = "fun" => n.table \in 2 .. Len(d.tables)
     /\ d.passed =>
          /\ n.kind = "fun" => ParamsFound(d, n)
          /\ n.kind = "neg" => /\ n.sym \in 1 .. Len(d.symbols) /\ IsVar(d, n.sym)
                               /\ \E j \in 1 .. i - 1 : Introduces(d, ns[j], n.sym)
          /\ n.kind = "call" => n.sym \in {1, 2} \/ \E j \in 1 .. i - 1 :
               ns[j].kind = "fundec" \/ (ns[j].kind = "fun" /\ ns[j].sym = n.sym)

\* Every node is prepared.
Prepared(d, ns) == \A i \in 1 .. Len(ns) : IsPrepared(d, ns, i)

\* The nodes before p have been translated.
Translated(d, ns, p) ==
  \A j \in 1 .. p - 1 :
    /\ ns[j].kind \notin {"extvars", "fundec"}
    /\ ns[j].kind = "fun" => d.symbols[ns[j].sym].ir = "label"
    /\ \A s \in 1 .. Len(d.symbols) :
         IsVar(d, s) /\ Introduces(d, ns[j], s) => d.symbols[s].ir = "var"

\* While the analysis goes on, variables in scope have nodes; what is translated
\* later is prepared; and then the nodes so far have given all variables and
\* labels that are theirs.
TransInv ==
  /\ phase = "analyse" => pc = 1 /\ HaveNodes(db, open, nodes)
  /\ Prepared(db, nodes)
  /\ phase = "translate" => Translated(db, nodes, pc)
  /\ ~Inits /\ ~BareUses => phase # "dangling"

-----------------------------------------------------------------------------
(* What stays when the program and the tables grow. *)

LEMMA TableStays ==
  ASSUME NEW d, NEW e, WellFormed(d), WellFormed(e), Grows(d, e), NEW t \in 1 .. Len(d.tables)
  PROVE  /\ t \in 1 .. Len(e.tables)
         /\ d.tables[t].syms \subseteq 1 .. Len(d.symbols)
         /\ d.tables[t].syms \subseteq e.tables[t].syms
         /\ \A s \in d.tables[t].syms : /\ e.symbols[s].name = d.symbols[s].name
                                        /\ IsVar(e, s) <=> IsVar(d, s)
<1>1. /\ Len(d.tables) \in Nat /\ Len(e.tables) \in Nat /\ Len(d.tables) <= Len(e.tables)
  BY DbParts DEF Grows
<1>2. t \in 1 .. Len(e.tables)
  BY <1>1
<1>3. d.tables[t].syms \subseteq 1 .. Len(d.symbols)
  BY TableParts
<1> QED BY <1>2, <1>3 DEF Grows, IsVar

LEMMA IntroducesStays ==
  ASSUME NEW d, NEW e, WellFormed(d), WellFormed(e), Grows(d, e), NEW n,
         NEW s \in 1 .. Len(d.symbols), n.kind = "fun" => n.table \in 1 .. Len(d.tables),
         Introduces(d, n, s)
  PROVE  Introduces(e, n, s)
<1>1. e.symbols[s].name = d.symbols[s].name
  BY DEF Grows
<1>2. n.kind = "fun" => d.tables[n.table].syms \subseteq e.tables[n.table].syms
  BY DEF Grows
<1> QED BY <1>1, <1>2 DEF Introduces

LEMMA ParamsStay ==
  ASSUME NEW d, NEW e, WellFormed(d), WellFormed(e), Grows(d, e), Unique(e),
         NEW n, n.table \in 1 .. Len(d.tables), ParamsFound(d, n)
  PROVE  ParamsFound(e, n)
<1> SUFFICES ASSUME NEW k \in 1 .. Len(n.params)
             PROVE  /\ st_findonly(e, n.table, n.params[k]) # None
                    /\ IsVar(e, st_findonly(e, n.table, n.params[k]))
  BY DEF ParamsFound
<1>1. PICK s, t, name : s = st_findonly(d, t, name) /\ t = n.table /\ name = n.params[k]
  OBVIOUS
<1>2. s # None /\ IsVar(d, s) /\ t \in 1 .. Len(d.tables)
  BY <1>1 DEF ParamsFound
<1>3. st_findonly(e, t, name) = s
  BY <1>1, <1>2, FindOnlyStays
<1>4. s \in d.tables[t].syms
  BY <1>1, <1>2, FindOnly
<1>5. IsVar(e, s)
  BY <1>2, <1>4, TableStays
<1> QED BY <1>1, <1>2, <1>3, <1>5

LEMMA PreparedStays ==
  ASSUME NEW d, NEW e, WellFormed(d), WellFormed(e), Grows(d, e), Unique(e), e.passed => d.passed,
         NEW ns, NEW ms, Len(ns) \in Nat, Prolongs(ns, ms),
         \A i \in 1 .. Len(ns) : IsPrepared(d, ns, i), NEW i \in 1 .. Len(ns)
  PROVE  IsPrepared(e, ms, i)
<1>1. /\ Len(d.tables) \in Nat /\ Len(e.tables) \in Nat /\ Len(d.tables) <= Len(e.tables)
      /\ Len(d.symbols) \in Nat /\ Len(e.symbols) \in Nat /\ Len(d.symbols) <= Len(e.symbols)
  BY DbParts DEF Grows
<1>2. PICK n : n = ns[i]
  OBVIOUS
<1>3. /\ ms[i] = n
      /\ \A j \in 1 .. i - 1 : j \in 1 .. Len(ns) /\ ms[j] = ns[j]
  <2>1. \A j \in 1 .. i - 1 : j \in 1 .. Len(ns)
    OBVIOUS
  <2> QED BY <1>2, <2>1 DEF Prolongs
<1>4. /\ n.kind = "id" => Inits \/ BareUses
      /\ n.kind = "dec" => n.sym \in 1 .. Len(d.symbols) /\ IsVar(d, n.sym)
      /\ n.kind = "fun" => n.table \in 2 .. Len(d.tables)
      /\ d.passed =>
           /\ n.kind = "fun" => ParamsFound(d, n)
           /\ n.kind = "neg" => /\ n.sym \in 1 .. Len(d.symbols) /\ IsVar(d, n.sym)
                                /\ \E j \in 1 .. i - 1 : Introduces(d, ns[j], n.sym)
           /\ n.kind = "call" => n.sym \in {1, 2} \/ \E j \in 1 .. i - 1 :
                ns[j].kind = "fundec" \/ (ns[j].kind = "fun" /\ ns[j].sym = n.sym)
  BY <1>2 DEF IsPrepared
<1>5. \A s \in 1 .. Len(d.symbols) : s \in 1 .. Len(e.symbols) /\ (IsVar(d, s) => IsVar(e, s))
  BY <1>1 DEF Grows, IsVar
<1>6. n.kind = "fun" => n.table \in 2 .. Len(e.tables) /\ n.table \in 1 .. Len(d.tables)
  BY <1>1, <1>4
<1>7. d.passed /\ n.kind = "fun" => ParamsFound(e, n)
  BY <1>4, <1>6, ParamsStay
<1>8. ASSUME d.passed, n.kind = "neg"
      PROVE  \E j \in 1 .. i - 1 : Introduces(e, ms[j], n.sym)
  <2>1. PICK j \in 1 .. i - 1 : Introduces(d, ns[j], n.sym)
    BY <1>4, <1>8
  <2>2. j \in 1 .. Len(ns) /\ ms[j] = ns[j]
    BY <1>3
  <2>3. ns[j].kind = "fun" => ns[j].table \in 1 .. Len(d.tables)
    <3>1. ns[j].kind = "fun" => ns[j].table \in 2 .. Len(d.tables)
      BY <2>2 DEF IsPrepared
    <3> QED BY <1>1, <3>1
  <2>4. Introduces(e, ns[j], n.sym)
    BY <1>4, <1>8, <2>1, <2>3, IntroducesStays
  <2> QED BY <2>2, <2>4
<1>9. ASSUME d.passed, n.kind = "call", n.sym \notin {1, 2}
      PROVE  \E j \in 1 .. i - 1 :
               ms[j].kind = "fundec" \/ (ms[j].kind = "fun" /\ ms[j].sym = n.sym)
  BY <1>3, <1>4, <1>9
<1> QED BY <1>3, <1>4, <1>5, <1>6, <1>7, <1>8, <1>9 DEF IsPrepared

-----------------------------------------------------------------------------
(* The variables in scope. *)

\* No table gets a variable.
NoNewVars(d, e) ==
  \A u \in 1 .. Len(d.tables) : \A s \in e.tables[u].syms :
    IsVar(e, s) => s \in d.tables[u].syms

LEMMA SameTables ==
  ASSUME NEW d, NEW e, \A u \in 1 .. Len(d.tables) : e.tables[u].syms = d.tables[u].syms
  PROVE  NoNewVars(d, e)
BY DEF NoNewVars

LEMMA TagsAreNoVars ==
  ASSUME NEW d, NEW e, WellFormed(d), OnlyTags(d, e)
  PROVE  NoNewVars(d, e)
<1> SUFFICES ASSUME NEW u \in 1 .. Len(d.tables), NEW s \in e.tables[u].syms, IsVar(e, s),
                    s \notin d.tables[u].syms
             PROVE  FALSE
  BY DEF NoNewVars
<1>1. /\ WellFormed(e) /\ Len(e.tables) = Len(d.tables)
      /\ Len(d.symbols) \in Nat /\ Len(e.symbols) \in Nat
  BY DbParts DEF OnlyTags
<1>2. u = 1
  <2>1. u \in 2 .. Len(d.tables) => e.tables[u] = d.tables[u]
    BY DEF OnlyTags
  <2>2. u \notin 2 .. Len(d.tables)
    BY <2>1
  <2> QED BY <2>2
<1>3. s > Len(d.symbols) /\ s \in 1 .. Len(e.symbols)
  BY <1>1, <1>2, TableParts DEF OnlyTags
<1>4. s \in Len(d.symbols) + 1 .. Len(e.symbols)
  BY <1>1, <1>3
<1>5. e.symbols[s].cls = "type"
  BY <1>4 DEF OnlyTags
<1> QED BY <1>5 DEF IsVar, Values

LEMMA FunsAreNoVars ==
  ASSUME NEW d, NEW e, WellFormed(d), NEW s \in 1 .. Len(d.symbols), IsFun(d, s),
         IsRegistered(d, e, s)
  PROVE  NoNewVars(d, e)
<1> SUFFICES ASSUME NEW u \in 1 .. Len(d.tables), NEW r \in e.tables[u].syms, IsVar(e, r),
                    r \notin d.tables[u].syms
             PROVE  FALSE
  BY DEF NoNewVars
<1>1. u = 1
  <2>1. u \in 2 .. Len(d.tables) => e.tables[u] = d.tables[u]
    BY DEF IsRegistered
  <2>2. u \notin 2 .. Len(d.tables)
    BY <2>1
  <2> QED BY <2>2
<1>2. r = s
  BY <1>1 DEF IsRegistered, Registers
<1>3. IsFun(e, s)
  BY DEF IsRegistered, Grows, IsFun
<1> QED BY <1>2, <1>3 DEF IsVar, IsFun, Values

\* The variables in scope have their nodes after a step if those that are new
\* have theirs, and if those have that are in scope of a construct that is new.
LEMMA NodesStay ==
  ASSUME TypeInv, Proceeds, HaveNodes(db, open, nodes),
         Prepared(db, nodes),
         \A i \in 1 .. Len(open) : open[i].kind # "struct" =>
           \A u \in Enclosing(db, open[i].table) : \A s \in db'.tables[u].syms :
             IsVar(db', s) /\ s \notin db.tables[u].syms =>
               \E j \in 1 .. Len(nodes') : Introduces(db', nodes'[j], s),
         \A i \in 1 .. Len(open') : i > Len(open) /\ open'[i].kind # "struct" =>
           \A u \in Enclosing(db', open'[i].table) : \A s \in db'.tables[u].syms :
             IsVar(db', s) => \E j \in 1 .. Len(nodes') : Introduces(db', nodes'[j], s)
  PROVE  HaveNodes(db', open', nodes')
<1> SUFFICES ASSUME NEW i \in 1 .. Len(open'), open'[i].kind # "struct",
                    NEW u \in Enclosing(db', open'[i].table), NEW s \in db'.tables[u].syms,
                    IsVar(db', s)
             PROVE  \E j \in 1 .. Len(nodes') : Introduces(db', nodes'[j], s)
  BY DEF HaveNodes
<1>1. /\ WellFormed(db) /\ WellFormed(db') /\ Grows(db, db')
      /\ Len(open) \in Nat /\ Len(nodes) \in Nat /\ Len(nodes') \in Nat
      /\ Len(db.tables) \in Nat /\ Len(db'.tables) \in Nat
  <2>1. WellFormed(db) /\ WellFormed(db') /\ Grows(db, db')
    BY HereParts DEF Proceeds, Evolves
  <2> QED BY <2>1, HereParts, DbParts DEF Proceeds, TypeInv
<1>2. CASE i > Len(open)
  BY <1>2
<1>3. CASE ~(i > Len(open))
  <2>1. i \in 1 .. Len(open) /\ i <= Len(open)
    BY <1>1, <1>3
  <2>2. PICK t : t = open[i].table
    OBVIOUS
  <2>3. open'[i].table = t /\ open[i].kind # "struct"
    BY <2>1, <2>2 DEF Proceeds, Kept
  <2>4. t \in 1 .. Len(db.tables)
    BY <2>1, <2>2 DEF TypeInv, Nested
  <2>5. Enclosing(db', t) = Enclosing(db, t)
    BY <1>1, <2>4, EnclosingStays
  <2>6. u \in Enclosing(db, open[i].table)
    BY <2>2, <2>3, <2>5
  <2>7. CASE s \notin db.tables[u].syms
    BY <2>1, <2>3, <2>6, <2>7
  <2>8. CASE s \in db.tables[u].syms
    <3>1. u \in 1 .. Len(db.tables)
      <4>1. u \in 1 .. t
        BY <1>1, <2>2, <2>4, <2>6, EnclosingParts
      <4> QED BY <1>1, <2>4, <4>1
    <3>2. IsVar(db, s) /\ s \in 1 .. Len(db.symbols)
      BY <1>1, <2>8, <3>1, TableStays
    <3>3. PICK j \in 1 .. Len(nodes) : Introduces(db, nodes[j], s)
      BY <2>1, <2>3, <2>6, <2>8, <3>2 DEF HaveNodes
    <3>4. nodes[j].kind = "fun" => nodes[j].table \in 1 .. Len(db.tables)
      <4>1. nodes[j].kind = "fun" => nodes[j].table \in 2 .. Len(db.tables)
        BY DEF Prepared, IsPrepared
      <4> QED BY <1>1, <4>1
    <3>5. Introduces(db', nodes[j], s)
      BY <1>1, <3>2, <3>3, <3>4, IntroducesStays
    <3>6. j \in 1 .. Len(nodes') /\ nodes'[j] = nodes[j]
      BY <1>1 DEF Proceeds, Prolongs
    <3> QED BY <3>5, <3>6
  <2> QED BY <2>7, <2>8
<1> QED BY <1>2, <1>3

LEMMA NodesStayQuietly ==
  ASSUME TypeInv, Proceeds, HaveNodes(db, open, nodes), NoNewVars(db, db'),
         Prepared(db, nodes),
         \A i \in 1 .. Len(open') : i > Len(open) => open'[i].kind = "struct"
  PROVE  HaveNodes(db', open', nodes')
<1>1. ASSUME NEW i \in 1 .. Len(open), NEW u \in Enclosing(db, open[i].table)
      PROVE  u \in 1 .. Len(db.tables)
  <2>1. /\ WellFormed(db) /\ Len(db.tables) \in Nat /\ open[i].table \in 1 .. Len(db.tables)
    BY HereParts, DbParts DEF Nested
  <2>2. u \in 1 .. open[i].table
    BY <2>1, EnclosingParts
  <2> QED BY <2>1, <2>2
<1>2. ASSUME NEW i \in 1 .. Len(open), NEW u \in Enclosing(db, open[i].table),
             NEW s \in db'.tables[u].syms, IsVar(db', s)
      PROVE  s \in db.tables[u].syms
  BY <1>1, <1>2 DEF NoNewVars
<1> QED BY <1>2, NodesStay


LEMMA NodesOfBrackets ==
  ASSUME TypeInv, Proceeds, HaveNodes(db, open, nodes), Prepared(db, nodes),
         \/ TypeSpecifier
         \/ \E tag \in TagNames : TagSpecifier(tag) \/ OpenStruct(tag)
         \/ CloseStruct \/ ExtDefStruct \/ CloseBlock \/ Finish
         \/ \E f \in FunNames, params \in SeqsUpTo(ParamNames, MaxParams) :
              ExtDefFunAborts(f, params)
  PROVE  HaveNodes(db', open', nodes')
<1>1. WellFormed(db) /\ Len(open) \in Nat
  BY HereParts
<1>2. ASSUME NoNewVars(db, db'), Len(open') <= Len(open)
      PROVE  HaveNodes(db', open', nodes')
  <2>1. Len(open') \in Nat
    BY NestedParts DEF Proceeds
  <2>2. \A i \in 1 .. Len(open') : ~(i > Len(open))
    BY <1>1, <1>2, <2>1
  <2> QED BY <1>2, <2>2, NodesStayQuietly
<1>3. db' = db => NoNewVars(db, db')
  BY SameTables
<1>4. ASSUME NEW spec \in Spec0, MayDefine, open' = With(spec), UNCHANGED <<db, nodes>>
      PROVE  HaveNodes(db', open', nodes')
  <2>1. Len(open') = Len(open)
    BY <1>4, SpecifierStep DEF IsWith
  <2> QED BY <1>1, <1>2, <1>3, <1>4, <2>1
<1>5. CASE TypeSpecifier
  BY <1>4, <1>5, NoSpecIsSpec DEF TypeSpecifier
<1>6. ASSUME NEW tag \in TagNames, TagSpecifier(tag)
      PROVE  HaveNodes(db', open', nodes')
  <2>1. [tag |-> tag, tp |-> "null"] \in Spec0
    BY DEF Spec0, StructSpec
  <2> QED BY <1>4, <1>6, <2>1 DEF TagSpecifier
<1>7. ASSUME NEW tag \in TagNames, OpenStruct(tag)
      PROVE  HaveNodes(db', open', nodes')
  <2>1. /\ \A t \in 1 .. Len(db.tables) : db'.tables[t] = db.tables[t]
        /\ Len(open') = Len(open) + 1
        /\ open'[Len(open) + 1] = Context("struct", Len(db.tables) + 1, tag, None)
    BY <1>7, OpenStructStep
  <2>2. NoNewVars(db, db')
    BY <2>1, SameTables
  <2>3. \A i \in 1 .. Len(open') : i > Len(open) => open'[i].kind = "struct"
    <3>1. \A i \in 1 .. Len(open') : i > Len(open) => i = Len(open) + 1
      BY <1>1, <2>1
    <3> QED BY <2>1, <3>1, ContextParts
  <2> QED BY <2>2, <2>3, NodesStayQuietly
<1>8. CASE CloseStruct
  <2>1. Len(open') <= Len(open)
    BY <1>1, <1>8, CloseStructStep
  <2> QED BY <1>2, <1>3, <1>8, <2>1 DEF CloseStruct
<1>9. CASE ExtDefStruct
  <2>1. OnlyTags(db, db') /\ Evolves(db, db') /\ open' = With(NoSpec)
    BY <1>9, ExtDefStructStep DEF ExtDefStruct
  <2>2. Len(open') = Len(open)
    BY <2>1, WithNoSpec DEF IsWith
  <2> QED BY <1>1, <1>2, <2>1, <2>2, TagsAreNoVars
<1>10. CASE CloseBlock
  <2>1. Len(open') <= Len(open)
    BY <1>1, <1>10, CloseBlockStep
  <2>2. NoNewVars(db, db')
    <3>1. CASE Here.fun = None
      BY <1>3, <1>10, <3>1, CloseBlockStep
    <3>2. CASE Here.fun # None
      BY <1>1, <1>10, <3>2, CloseBlockStep, HereParts, FunsAreNoVars DEF IsFun
    <3> QED BY <3>1, <3>2
  <2> QED BY <1>2, <2>1, <2>2
<1>11. CASE Finish
  <2>1. NoNewVars(db, db')
    BY <1>11, FinishStep, SameTables
  <2> QED BY <1>1, <1>2, <1>11, <2>1 DEF Finish
<1>12. ASSUME NEW f \in FunNames, NEW params \in SeqsUpTo(ParamNames, MaxParams),
              ExtDefFunAborts(f, params)
       PROVE  HaveNodes(db', open', nodes')
  BY <1>1, <1>2, <1>3, <1>12 DEF ExtDefFunAborts
<1> QED BY <1>5, <1>6, <1>7, <1>8, <1>9, <1>10, <1>11, <1>12

LEMMA NodesOfUse ==
  ASSUME TypeInv, HaveNodes(db, open, nodes), Prepared(db, nodes),
         NEW kind \in {"id", "neg", "call"}, NEW name \in UseNames,
         NEW args \in Seq(Names \cup {NoName}), Use(kind, name, args)
  PROVE  HaveNodes(db', open', nodes')
<1>1. Proceeds /\ db'.tables = db.tables /\ IsWith(open, open', NoSpec, TRUE)
  BY UseStep
<1>2. NoNewVars(db, db')
  BY <1>1, SameTables
<1>3. Len(open') = Len(open) /\ Len(open) \in Nat
  BY <1>1, HereParts DEF IsWith
<1>4. \A i \in 1 .. Len(open') : ~(i > Len(open))
  BY <1>3
<1> QED BY <1>1, <1>2, <1>4, NodesStayQuietly

\* The table of a function that is declared is no construct's.
LEMMA NodesOfFunDec ==
  ASSUME TypeInv, Proceeds, HaveNodes(db, open, nodes), Prepared(db, nodes),
         NEW f \in FunNames, NEW params \in SeqsUpTo(ParamNames, MaxParams),
         ExtDefFunDec(f, params)
  PROVE  HaveNodes(db', open', nodes')
<1>1. PICK d : /\ IsWithFun(db, d, f, Len(params), params, "dec")
               /\ IsRegistered(d, db', Len(d.symbols))
  BY ExtDefFunDecStep
<1>2. Len(params) \in Nat /\ f \in Names
  BY ExtDefFunDecStep
<1>3. WellFormed(db) /\ WellFormed(d) /\ Len(db.tables) \in Nat
      /\ Len(d.tables) = Len(db.tables) + 1
  BY <1>1, HereParts, DbParts DEF IsWithFun
<1>4. Len(d.symbols) \in 1 .. Len(d.symbols) /\ IsFun(d, Len(d.symbols))
  BY <1>1, <1>2, <1>3, FunSymbol DEF IsFun
<1>5. NoNewVars(d, db')
  BY <1>1, <1>3, <1>4, FunsAreNoVars
<1>6. \A u \in 1 .. Len(db.tables) : u \in 1 .. Len(d.tables) /\ d.tables[u] = db.tables[u]
  <2>1. \A u \in 1 .. Len(db.tables) : u \in 1 .. Len(d.tables)
    BY <1>3
  <2> QED BY <1>1, <2>1 DEF IsWithFun
<1>7. NoNewVars(db, db')
  BY <1>5, <1>6 DEF NoNewVars
<1>8. Len(open') = Len(open) /\ Len(open) \in Nat
  <2>1. open' = With(NoSpec) /\ Evolves(db, db')
    BY ExtDefFunDecStep DEF ExtDefFunDec
  <2> QED BY <2>1, WithNoSpec, HereParts DEF IsWith
<1>9. \A i \in 1 .. Len(open') : ~(i > Len(open))
  BY <1>8
<1> QED BY <1>7, <1>9, NodesStayQuietly

LEMMA NodesOfExtVars ==
  ASSUME TypeInv, Proceeds, HaveNodes(db, open, nodes), Prepared(db, nodes),
         NEW names \in SeqsUpTo(VarNames, MaxDecs), ExtDefVars(names)
  PROVE  HaveNodes(db', open', nodes')
<1>1. PICK n : n = Node("extvars", NoName, 1, None, names)
  OBVIOUS
<1>2. nodes \in Seq(Nodes) /\ n \in Nodes /\ nodes' = Append(nodes, n)
  BY <1>1, ExtDefVarsStep DEF TypeInv, ExtDefVars
<1>3. n.kind = "extvars"
  BY <1>1, NodeParts
<1>4. Len(nodes') = Len(nodes) + 1 /\ nodes'[Len(nodes) + 1] = n /\ Len(nodes) \in Nat
  BY <1>2, ProlongsAppend
<1>5. Len(nodes) + 1 \in 1 .. Len(nodes')
  BY <1>4
<1>6. \A s : \E j \in 1 .. Len(nodes') : Introduces(db', nodes'[j], s)
  BY <1>3, <1>4, <1>5 DEF Introduces
<1>7. Len(open') = Len(open) /\ Len(open) \in Nat
  <2>1. open' = With(NoSpec) /\ Evolves(db, db')
    BY DEF ExtDefVars, Proceeds
  <2> QED BY <2>1, WithNoSpec, HereParts DEF IsWith
<1> QED BY <1>6 DEF HaveNodes

LEMMA NodesOfDef ==
  ASSUME TypeInv, HaveNodes(db, open, nodes), Prepared(db, nodes),
         NEW decs \in SeqsUpTo(Decs, MaxDecs), Def(decs)
  PROVE  HaveNodes(db', open', nodes')
<1>1. PICK n, m : n = Len(decs) /\ m = Len(db'.symbols) - n
  OBVIOUS
<1>2. /\ Proceeds /\ IsDefined(db, db', Here.table, n, DecNames(decs))
      /\ Here.kind \in {"block", "struct"} /\ n \in Nat
      /\ IsWith(open, open', NoSpec, Here.stmts)
      /\ Here.kind = "block" => AreVisited(nodes, nodes', n, m)
  BY <1>1, DefStep
<1>3. /\ WellFormed(db) /\ Nested(open, db) /\ Len(open) \in Nat /\ Len(open) \in 1 .. Len(open)
      /\ Here = open[Len(open)] /\ Len(db.tables) \in Nat /\ Len(nodes) \in Nat
      /\ Here.table \in Nat
  BY HereParts, DbParts DEF TypeInv
<1>4. ASSUME NEW i \in 1 .. Len(open), open[i].kind # "struct",
             NEW u \in Enclosing(db, open[i].table), NEW s \in db'.tables[u].syms,
             IsVar(db', s), s \notin db.tables[u].syms
      PROVE  \E j \in 1 .. Len(nodes') : Introduces(db', nodes'[j], s)
  <2>1. open[i].table \in 1 .. Len(db.tables) /\ u \in 1 .. open[i].table
    BY <1>3, EnclosingParts DEF Nested
  <2>2. u \in 1 .. Len(db.tables)
    BY <1>3, <2>1
  <2>3. u = Here.table /\ \E k \in 1 .. n : s = Len(db'.symbols) - n + k
    BY <1>2, <1>4, <2>2 DEF IsDefined, IsVar
  <2>4. PICK k \in 1 .. n : s = m + k
    BY <1>1, <2>3
  <2>5. i = Len(open)
    <3> SUFFICES ASSUME i # Len(open) PROVE FALSE
      OBVIOUS
    <3>1. i \in 1 .. Len(open) - 1
      BY <1>3
    <3>2. open[i].table < Here.table
      BY <1>3, <3>1 DEF Nested
    <3> QED BY <1>3, <2>1, <2>3, <3>2
  <2>6. Here.kind = "block"
    BY <1>2, <1>3, <1>4, <2>5
  <2>7. PICK j \in Len(nodes) + 1 .. Len(nodes') : nodes'[j].kind = "dec" /\ nodes'[j].sym = m + k
    BY <1>2, <2>6 DEF AreVisited
  <2>8. j \in 1 .. Len(nodes')
    BY <1>3
  <2> QED BY <2>4, <2>7, <2>8 DEF Introduces
<1>5. \A i \in 1 .. Len(open') : ~(i > Len(open))
  <2>1. Len(open') = Len(open)
    BY <1>2 DEF IsWith
  <2> QED BY <1>3, <2>1
<1> QED BY <1>2, <1>4, <1>5, NodesStay
LEMMA NodesOfOpenBlock ==
  ASSUME TypeInv, Proceeds, HaveNodes(db, open, nodes), Prepared(db, nodes), OpenBlock
  PROVE  HaveNodes(db', open', nodes')
<1>1. PICK M, n : M = Len(db.tables) /\ n = Len(open)
  OBVIOUS
<1>2. /\ WellFormed(db) /\ Nested(open, db) /\ n \in Nat /\ n \in 1 .. Len(open)
      /\ Here = open[n] /\ M \in Nat /\ M >= 1 /\ Len(nodes) \in Nat
      /\ Here.table \in 1 .. M
  BY <1>1, HereParts, DbParts DEF TypeInv
<1>3. /\ Evolves(db, db') /\ db'.symbols = db.symbols
      /\ Len(db'.tables) = M + 1
      /\ db'.tables[M + 1].parent = Here.table
      /\ db'.tables[M + 1].syms = {}
      /\ \A t \in 1 .. M : db'.tables[t] = db.tables[t]
      /\ Len(open') = n + 1
      /\ open'[n + 1] = Context("block", M + 1, NoName, None)
  BY <1>1, OpenBlockStep
<1>4. WellFormed(db') /\ Grows(db, db')
  BY <1>3 DEF Evolves
<1>5. nodes' = nodes /\ Here.kind = "block"
  BY DEF OpenBlock
<1>6. Enclosing(db', M + 1) = {M + 1} \cup Enclosing(db, Here.table)
  <2>1. M + 1 \in 0 .. Len(db'.tables) /\ M + 1 # 0
    BY <1>2, <1>3
  <2>2. Enclosing(db', M + 1) = {M + 1} \cup Enclosing(db', Here.table)
    BY <1>3, <1>4, <2>1, EnclosingEquation
  <2> QED BY <1>1, <1>2, <1>4, <2>2, EnclosingStays
<1>7. ASSUME NEW u \in Enclosing(db', M + 1), NEW s \in db'.tables[u].syms, IsVar(db', s)
      PROVE  \E j \in 1 .. Len(nodes') : Introduces(db', nodes'[j], s)
  <2>1. u # M + 1
    BY <1>3
  <2>2. u \in Enclosing(db, Here.table)
    BY <1>6, <2>1
  <2>3. u \in 1 .. M
    <3>1. u \in 1 .. Here.table
      BY <1>1, <1>2, <2>2, EnclosingParts
    <3> QED BY <1>2, <3>1
  <2>4. s \in db.tables[u].syms /\ IsVar(db, s)
    BY <1>3, <1>7, <2>3 DEF IsVar
  <2>5. s \in 1 .. Len(db.symbols)
    BY <1>1, <1>2, <2>3, <2>4, TableParts
  <2>6. PICK j \in 1 .. Len(nodes) : Introduces(db, nodes[j], s)
    BY <1>2, <1>5, <2>2, <2>4 DEF HaveNodes
  <2>7. nodes[j].kind = "fun" => nodes[j].table \in 1 .. Len(db.tables)
    <3>1. nodes[j].kind = "fun" => nodes[j].table \in 2 .. Len(db.tables)
      BY DEF Prepared, IsPrepared
    <3> QED BY <1>1, <1>2, <3>1
  <2> QED BY <1>2, <1>4, <1>5, <2>5, <2>6, <2>7, IntroducesStays
<1>8. \A i \in 1 .. Len(open') : i > Len(open) => open'[i].table = M + 1
  <2>1. \A i \in 1 .. Len(open') : i > Len(open) => i = n + 1
    BY <1>1, <1>2, <1>3
  <2> QED BY <1>3, <2>1, ContextParts
<1>9. \A i \in 1 .. Len(open) : \A u \in Enclosing(db, open[i].table) :
        db'.tables[u].syms = db.tables[u].syms
  <2> SUFFICES ASSUME NEW i \in 1 .. Len(open), NEW u \in Enclosing(db, open[i].table)
               PROVE  u \in 1 .. M
    BY <1>3
  <2>1. open[i].table \in 1 .. Len(db.tables)
    BY <1>2 DEF Nested
  <2>2. u \in 1 .. open[i].table
    BY <1>2, <2>1, EnclosingParts
  <2> QED BY <1>1, <1>2, <2>1, <2>2
<1> QED BY <1>7, <1>8, <1>9, NodesStay

LEMMA Offset ==
  ASSUME NEW N \in Nat, NEW n \in Nat, NEW s \in N + 1 .. N + n + 1, s # N + n + 1
  PROVE  \E k \in 1 .. n : s = N + k
<1>1. s - N \in 1 .. n /\ s = N + (s - N)
  OBVIOUS
<1> QED BY <1>1

\* The parameters are the variables in the table of the function.
LEMMA NodesOfOpenFun ==
  ASSUME TypeInv, Proceeds, HaveNodes(db, open, nodes), Prepared(db, nodes),
         NEW f \in FunNames, NEW params \in SeqsUpTo(ParamNames, MaxParams), OpenFun(f, params)
  PROVE  HaveNodes(db', open', nodes')
<1>1. PICK d : /\ IsWithFun(db, d, f, Len(params), params, "def")
               /\ db'.symbols = d.symbols /\ db'.passed = d.passed
               /\ Len(db'.tables) = Len(d.tables) + 1
               /\ db'.tables[Len(d.tables) + 1].parent = Len(d.tables)
               /\ db'.tables[Len(d.tables) + 1].syms = {}
               /\ \A t \in 1 .. Len(d.tables) : db'.tables[t] = d.tables[t]
               /\ open' = Append(With(NoSpec),
                                 Context("block", Len(d.tables) + 1, NoName, Len(d.symbols)))
               /\ nodes' = Append(nodes, Node("fun", f, Len(d.tables), Len(d.symbols), params))
  BY OpenFunStep
<1>2. PICK n, N, M, o :
        n = Len(params) /\ N = Len(db.symbols) /\ M = Len(db.tables) /\ o = Len(open)
  OBVIOUS
<1>3. n \in Nat /\ f \in Names /\ Evolves(db, db') /\ Len(nodes') = Len(nodes) + 1
  BY <1>2, OpenFunStep
<1>4. /\ WellFormed(db) /\ Nested(open, db) /\ o \in Nat /\ o \in 1 .. Len(open)
      /\ M \in Nat /\ M >= 1 /\ N \in Nat /\ Len(nodes) \in Nat
      /\ WellFormed(db') /\ Grows(db, db')
  BY <1>2, <1>3, HereParts, DbParts DEF TypeInv, Evolves
<1>5. /\ Len(d.tables) = M + 1 /\ Len(d.symbols) = N + n + 1
      /\ \A i \in 1 .. n : d.symbols[N + i] = NewSymbol(params[i], "int", 0, "dec")
      /\ d.symbols[N + n + 1] = NewSymbol(f, "func", n, "def")
      /\ \A s \in 1 .. N : d.symbols[s] = db.symbols[s]
      /\ \A t \in 1 .. M : d.tables[t] = db.tables[t]
      /\ d.tables[M + 1].parent = 1
      /\ d.tables[M + 1].syms \subseteq N + 1 .. N + n + 1
  BY <1>1, <1>2 DEF IsWithFun
<1>6. /\ Len(db'.tables) = M + 2
      /\ db'.tables[M + 2].parent = M + 1 /\ db'.tables[M + 2].syms = {}
      /\ db'.tables[M + 1] = d.tables[M + 1]
      /\ \A t \in 1 .. M : db'.tables[t] = db.tables[t]
      /\ db'.symbols = d.symbols
  <2>1. M + 1 + 1 = M + 2 /\ M + 1 \in 1 .. M + 1 /\ \A t \in 1 .. M : t \in 1 .. M + 1
    BY <1>4
  <2> QED BY <1>1, <1>5, <2>1
<1>7. PICK node : node = Node("fun", f, M + 1, N + n + 1, params)
  OBVIOUS
<1>8. /\ node.kind = "fun" /\ node.table = M + 1 /\ node.params = params
      /\ nodes'[Len(nodes) + 1] = node
  <2>1. nodes' = Append(nodes, node) /\ nodes \in Seq(Nodes)
    BY <1>1, <1>5, <1>7 DEF TypeInv
  <2>2. nodes'[Len(nodes) + 1] = node
    BY <2>1, AppendProperties
  <2> QED BY <1>7, <2>2, NodeParts
<1>9. Enclosing(db', M + 2) = {M + 2, M + 1} \cup Enclosing(db', 1) /\ Enclosing(db', 1) = {1}
  <2>1. /\ M + 2 \in 0 .. Len(db'.tables) /\ M + 2 # 0
        /\ M + 1 \in 0 .. Len(db'.tables) /\ M + 1 # 0
        /\ 1 \in 0 .. Len(db'.tables) /\ 0 \in 0 .. Len(db'.tables)
        /\ 1 \in 1 .. Len(db'.tables)
    BY <1>4, <1>6
  <2>2. Enclosing(db', M + 2) = {M + 2} \cup Enclosing(db', M + 1)
    BY <1>4, <1>6, <2>1, EnclosingEquation
  <2>3. Enclosing(db', M + 1) = {M + 1} \cup Enclosing(db', 1)
    BY <1>4, <1>5, <1>6, <2>1, EnclosingEquation
  <2>4. Enclosing(db', 1) \subseteq 1 .. 1 /\ 1 \in Enclosing(db', 1)
    BY <1>4, <2>1, EnclosingParts
  <2>5. Enclosing(db', 1) = {1}
    BY <2>4
  <2> QED BY <2>2, <2>3, <2>5
<1>10. ASSUME NEW s \in db'.tables[M + 1].syms, IsVar(db', s)
       PROVE  Introduces(db', node, s)
  <2>1. s \in N + 1 .. N + n + 1
    BY <1>5, <1>6, <1>10
  <2>2. s # N + n + 1
    <3>1. db'.symbols[N + n + 1].cls = "func"
      BY <1>5, <1>6 DEF NewSymbol
    <3> QED BY <1>10, <3>1 DEF IsVar, Values
  <2>3. PICK k \in 1 .. n : s = N + k
    BY <1>3, <1>4, <2>1, <2>2, Offset
  <2>4. db'.symbols[s].name = params[k]
    <3>1. db'.symbols[s] = NewSymbol(params[k], "int", 0, "dec")
      BY <1>5, <1>6, <2>3
    <3> QED BY <3>1 DEF NewSymbol
  <2> QED BY <1>2, <1>8, <2>4 DEF Introduces
<1>11. ASSUME NEW s \in db'.tables[1].syms, IsVar(db', s)
       PROVE  \E j \in 1 .. Len(nodes') : Introduces(db', nodes'[j], s)
  <2>1. 1 \in 1 .. M /\ M = Len(db.tables)
    BY <1>2, <1>4
  <2>2. s \in db.tables[1].syms
    BY <1>6, <2>1
  <2>3. s \in 1 .. Len(db.symbols)
    BY <1>4, <2>1, <2>2, TableParts
  <2>4. IsVar(db, s)
    BY <1>2, <1>5, <1>6, <1>11, <2>3 DEF IsVar
  <2>5. 1 \in 1 .. Len(open) /\ open[1].kind # "struct" /\ open[1].table = 1
    BY <1>2, <1>4 DEF Nested
  <2>6. 1 \in Enclosing(db, 1)
    BY <1>4, <2>1, EnclosingParts
  <2>7. PICK j \in 1 .. Len(nodes) : Introduces(db, nodes[j], s)
    BY <2>2, <2>4, <2>5, <2>6 DEF HaveNodes
  <2>8. nodes[j].kind = "fun" => nodes[j].table \in 1 .. Len(db.tables)
    <3>1. nodes[j].kind = "fun" => nodes[j].table \in 2 .. Len(db.tables)
      BY DEF Prepared, IsPrepared
    <3> QED BY <1>2, <1>4, <3>1
  <2>9. Introduces(db', nodes[j], s)
    BY <1>4, <2>3, <2>7, <2>8, IntroducesStays
  <2>10. j \in 1 .. Len(nodes') /\ nodes'[j] = nodes[j]
    BY DEF Proceeds, Prolongs
  <2> QED BY <2>9, <2>10
<1>12. ASSUME NEW u \in Enclosing(db', M + 2), NEW s \in db'.tables[u].syms, IsVar(db', s)
       PROVE  \E j \in 1 .. Len(nodes') : Introduces(db', nodes'[j], s)
  <2>1. u \in {M + 2, M + 1, 1}
    BY <1>9
  <2>2. CASE u = M + 2
    BY <1>6, <1>12, <2>2
  <2>3. CASE u = M + 1
    <3>1. Len(nodes) + 1 \in 1 .. Len(nodes')
      BY <1>3, <1>4
    <3> QED BY <1>8, <1>10, <1>12, <2>3, <3>1
  <2>4. CASE u = 1
    BY <1>11, <1>12, <2>4
  <2> QED BY <2>1, <2>2, <2>3, <2>4
<1>13. \A i \in 1 .. Len(open') : i > Len(open) => open'[i].table = M + 2
  <2>1. Len(With(NoSpec)) = o /\ With(NoSpec) \in Seq(Contexts)
    BY <1>2, HereParts, WithSpec, NoSpecIsSpec, NestedParts DEF IsWith
  <2>2. PICK c, w : c = Context("block", M + 2, NoName, N + n + 1) /\ w = With(NoSpec)
    OBVIOUS
  <2>3. M + 1 + 1 = M + 2
    BY <1>4
  <2>4. open' = Append(w, c)
    BY <1>1, <1>5, <2>2, <2>3
  <2>5. Len(open') = o + 1 /\ open'[o + 1] = c
    <3>1. Len(w) = o /\ w \in Seq(Contexts)
      BY <2>1, <2>2
    <3> QED BY <2>4, <3>1, AppendProperties
  <2>6. \A i \in 1 .. Len(open') : i > Len(open) => i = o + 1
    BY <1>2, <1>4, <2>5
  <2> QED BY <2>2, <2>5, <2>6, ContextParts
<1>14. \A i \in 1 .. Len(open) : \A u \in Enclosing(db, open[i].table) :
         db'.tables[u].syms = db.tables[u].syms
  <2> SUFFICES ASSUME NEW i \in 1 .. Len(open), NEW u \in Enclosing(db, open[i].table)
               PROVE  u \in 1 .. M
    BY <1>6
  <2>1. open[i].table \in 1 .. Len(db.tables)
    BY <1>4 DEF Nested
  <2>2. u \in 1 .. open[i].table
    BY <1>4, <2>1, EnclosingParts
  <2> QED BY <1>2, <1>4, <2>1, <2>2
<1> QED BY <1>12, <1>13, <1>14, NodesStay

LEMMA NodesOfAnalyse ==
  ASSUME TypeInv, HaveNodes(db, open, nodes), Prepared(db, nodes), Analyse
  PROVE  HaveNodes(db', open', nodes')
<1>1. Proceeds
  BY AnalyseProceeds
<1>2. CASE \/ TypeSpecifier
           \/ \E tag \in TagNames : TagSpecifier(tag) \/ OpenStruct(tag)
           \/ CloseStruct \/ ExtDefStruct \/ CloseBlock \/ Finish
           \/ \E f \in FunNames, params \in SeqsUpTo(ParamNames, MaxParams) :
                ExtDefFunAborts(f, params)
  BY <1>1, <1>2, NodesOfBrackets
<1>3. CASE \E names \in SeqsUpTo(VarNames, MaxDecs) \ {<< >>} : ExtDefVars(names)
  BY <1>1, <1>3, NodesOfExtVars
<1>4. CASE \E f \in FunNames, params \in SeqsUpTo(ParamNames, MaxParams) :
             ExtDefFunDec(f, params) \/ OpenFun(f, params)
  BY <1>1, <1>4, NodesOfFunDec, NodesOfOpenFun
<1>5. CASE OpenBlock
  BY <1>1, <1>5, NodesOfOpenBlock
<1>6. CASE \E decs \in SeqsUpTo(Decs, MaxDecs) \ {<< >>} : Def(decs)
  BY <1>6, NodesOfDef
<1>7. << >> \in Seq(Names \cup {NoName})
      /\ \A args \in SeqsUpTo({NoName}, 1) : args \in Seq(Names \cup {NoName})
  <2>1. << >> \in Seq(Names \cup {NoName})
    OBVIOUS
  <2> QED BY <2>1, CallArgs
<1>8. CASE \/ BareUses /\ \E name \in UseNames : Use("id", name, << >>)
           \/ \E name \in UseNames : Use("neg", name, << >>)
           \/ \E name \in UseNames, args \in SeqsUpTo({NoName}, 1) : Use("call", name, args)
  BY <1>7, <1>8, NodesOfUse
<1> QED BY <1>2, <1>3, <1>4, <1>5, <1>6, <1>8 DEF Analyse

-----------------------------------------------------------------------------
(* What the translation needs at a new node. *)

LEMMA PreparedGrows ==
  ASSUME TypeInv, Unique(db'), Proceeds, Prepared(db, nodes),
         \A i \in Len(nodes) + 1 .. Len(nodes') : IsPrepared(db', nodes', i)
  PROVE  Prepared(db', nodes')
<1>1. /\ WellFormed(db) /\ WellFormed(db') /\ Grows(db, db') /\ Len(nodes) \in Nat
      /\ Len(nodes') \in Nat /\ db'.passed => db.passed
      /\ Prolongs(nodes, nodes')
  BY HereParts DEF Proceeds, Evolves, TypeInv
<1>2. \A i \in 1 .. Len(nodes) : IsPrepared(db', nodes', i)
  BY <1>1, PreparedStays DEF Prepared
<1>3. \A i \in 1 .. Len(nodes') : i \in 1 .. Len(nodes) \/ i \in Len(nodes) + 1 .. Len(nodes')
  BY <1>1
<1> QED BY <1>2, <1>3 DEF Prepared

LEMMA NoNodes ==
  ASSUME TypeInv, Unique(db'), Proceeds, Prepared(db, nodes), nodes' = nodes
  PROVE  Prepared(db', nodes')
<1>1. Len(nodes) \in Nat
  BY DEF TypeInv
<1>2. \A i : i \notin Len(nodes) + 1 .. Len(nodes)
  BY <1>1
<1> QED BY <1>2, PreparedGrows

\* One node is added.
LEMMA OneNode ==
  ASSUME TypeInv, Unique(db'), Proceeds, Prepared(db, nodes),
         NEW n \in Nodes, nodes' = Append(nodes, n), IsPrepared(db', nodes', Len(nodes) + 1)
  PROVE  Prepared(db', nodes')
<1>1. nodes \in Seq(Nodes) /\ Len(nodes) \in Nat
  BY DEF TypeInv
<1>2. Len(nodes') = Len(nodes) + 1
  BY <1>1, ProlongsAppend
<1>3. \A i \in Len(nodes) + 1 .. Len(nodes') : i = Len(nodes) + 1
  BY <1>1, <1>2
<1> QED BY <1>3, PreparedGrows

\* Variables and functions that are declared outside of functions need nothing.
LEMMA PreparedDeclarations ==
  ASSUME TypeInv, Unique(db'), Proceeds, Prepared(db, nodes),
         \/ \E names \in SeqsUpTo(VarNames, MaxDecs) \ {<< >>} : ExtDefVars(names)
         \/ \E f \in FunNames, params \in SeqsUpTo(ParamNames, MaxParams) :
              ExtDefFunDec(f, params)
  PROVE  Prepared(db', nodes')
<1>1. ASSUME NEW n \in Nodes, n.kind \in {"extvars", "fundec"}, nodes' = Append(nodes, n)
      PROVE  Prepared(db', nodes')
  <2>1. nodes'[Len(nodes) + 1] = n
    BY <1>1, ProlongsAppend DEF TypeInv
  <2>2. IsPrepared(db', nodes', Len(nodes) + 1)
    BY <1>1, <2>1 DEF IsPrepared
  <2> QED BY <1>1, <2>2, OneNode
<1>2. ASSUME NEW names \in SeqsUpTo(VarNames, MaxDecs), ExtDefVars(names)
      PROVE  Prepared(db', nodes')
  <2>1. PICK n : n = Node("extvars", NoName, 1, None, names)
    OBVIOUS
  <2>2. n \in Nodes /\ n.kind = "extvars"
    BY <1>2, <2>1, ExtDefVarsStep, NodeParts
  <2> QED BY <1>1, <1>2, <2>1, <2>2 DEF ExtDefVars
<1>3. ASSUME NEW f \in FunNames, NEW params \in SeqsUpTo(ParamNames, MaxParams),
             ExtDefFunDec(f, params)
      PROVE  Prepared(db', nodes')
  <2>1. PICK n : n = Node("fundec", f, 1, None, params)
    OBVIOUS
  <2>2. n \in Nodes /\ n.kind = "fundec"
    BY <1>3, <2>1, ExtDefFunDecStep, NodeParts
  <2> QED BY <1>1, <1>3, <2>1, <2>2 DEF ExtDefFunDec
<1> QED BY <1>2, <1>3

\* The parameters of a function are in its table, unless an error has been
\* reported.
LEMMA PreparedOpenFun ==
  ASSUME TypeInv, Unique(db'), Proceeds, Prepared(db, nodes),
         NEW f \in FunNames, NEW params \in SeqsUpTo(ParamNames, MaxParams), OpenFun(f, params)
  PROVE  Prepared(db', nodes')
<1>1. PICK d : /\ IsWithFun(db, d, f, Len(params), params, "def")
               /\ db'.symbols = d.symbols /\ db'.passed = d.passed
               /\ Len(db'.tables) = Len(d.tables) + 1
               /\ \A t \in 1 .. Len(d.tables) : db'.tables[t] = d.tables[t]
               /\ nodes' = Append(nodes, Node("fun", f, Len(d.tables), Len(d.symbols), params))
  BY OpenFunStep
<1>2. PICK n, N, M : n = Len(params) /\ N = Len(db.symbols) /\ M = Len(db.tables)
  OBVIOUS
<1>3. /\ n \in Nat /\ WellFormed(db) /\ M \in Nat /\ M >= 1 /\ N \in Nat /\ WellFormed(db')
      /\ Len(nodes) \in Nat /\ Len(nodes') = Len(nodes) + 1
  BY <1>2, OpenFunStep, HereParts, DbParts DEF TypeInv, Proceeds, Evolves
<1>4. /\ Len(d.tables) = M + 1 /\ Len(d.symbols) = N + n + 1
      /\ \A i \in 1 .. n : d.symbols[N + i] = NewSymbol(params[i], "int", 0, "dec")
      /\ d.passed => \A i \in 1 .. n : N + i \in d.tables[M + 1].syms
  BY <1>1, <1>2 DEF IsWithFun
<1>5. /\ Len(db'.tables) = M + 2 /\ db'.tables[M + 1] = d.tables[M + 1]
      /\ M + 1 \in 1 .. Len(db'.tables)
  <2>1. M + 1 + 1 = M + 2 /\ M + 1 \in 1 .. M + 1 /\ M + 1 \in 1 .. M + 2
    BY <1>3
  <2> QED BY <1>1, <1>4, <2>1
<1>6. PICK node : node = Node("fun", f, M + 1, N + n + 1, params)
  OBVIOUS
<1>7. /\ node.kind = "fun" /\ node.table = M + 1 /\ node.params = params
      /\ nodes' = Append(nodes, node)
  BY <1>1, <1>4, <1>6, NodeParts
<1>8. nodes'[Len(nodes) + 1] = node
  BY <1>7, AppendProperties DEF TypeInv
<1>9. db'.passed => ParamsFound(db', node)
  <2> SUFFICES ASSUME db'.passed, NEW k \in 1 .. n
               PROVE  /\ st_findonly(db', M + 1, params[k]) # None
                      /\ IsVar(db', st_findonly(db', M + 1, params[k]))
    BY <1>2, <1>7 DEF ParamsFound
  <2>1. N + k \in db'.tables[M + 1].syms
    BY <1>1, <1>4, <1>5
  <2>2. db'.symbols[N + k] = NewSymbol(params[k], "int", 0, "dec")
    BY <1>1, <1>4
  <2>3. db'.symbols[N + k].name = params[k] /\ db'.symbols[N + k].cls = "int"
    BY <2>2 DEF NewSymbol
  <2>4. st_findonly(db', M + 1, params[k]) = N + k
    BY <1>3, <1>5, <2>1, <2>3, FindOnlyUnique
  <2>5. N + k # None
    BY <1>3 DEF None
  <2> QED BY <2>3, <2>4, <2>5 DEF IsVar, Values
<1>10. M + 1 \in 2 .. Len(db'.tables)
  BY <1>3, <1>5
<1>11. IsPrepared(db', nodes', Len(nodes) + 1)
  BY <1>7, <1>8, <1>9, <1>10 DEF IsPrepared
<1>12. \A i \in Len(nodes) + 1 .. Len(nodes') : i = Len(nodes) + 1
  BY <1>3
<1> QED BY <1>11, <1>12, PreparedGrows

LEMMA PreparedDef ==
  ASSUME TypeInv, Unique(db'), Prepared(db, nodes),
         NEW decs \in SeqsUpTo(Decs, MaxDecs), Def(decs)
  PROVE  Prepared(db', nodes')
<1>1. PICK n, m : n = Len(decs) /\ m = Len(db'.symbols) - n
  OBVIOUS
<1>2. /\ Proceeds /\ IsDefined(db, db', Here.table, n, DecNames(decs)) /\ n \in Nat
      /\ Here.kind = "struct" => nodes' = nodes
      /\ Here.kind \in {"block", "struct"}
      /\ Here.kind = "block" => AreVisited(nodes, nodes', n, m)
  BY <1>1, DefStep
<1>3. CASE Here.kind = "struct"
  BY <1>2, <1>3, NoNodes
<1>4. CASE Here.kind = "block"
  <2>1. ASSUME NEW i \in 1 .. n
        PROVE  m + i \in 1 .. Len(db'.symbols) /\ IsVar(db', m + i)
    <3>1. Len(db'.symbols) \in Nat /\ Len(db.symbols) \in Nat
      BY <1>2, HereParts, DbParts DEF IsDefined
    <3>2. Len(db'.symbols) >= Len(db.symbols) + n /\ db'.symbols[m + i].cls \in Values
      BY <1>1, <1>2 DEF IsDefined
    <3>3. m + i \in 1 .. Len(db'.symbols)
      BY <1>1, <1>2, <3>1, <3>2
    <3> QED BY <3>2, <3>3 DEF IsVar
  <2>2. ASSUME NEW k \in Len(nodes) + 1 .. Len(nodes')
        PROVE  IsPrepared(db', nodes', k)
    <3>1. \/ nodes'[k].kind = "dec" /\ \E i \in 1 .. n : nodes'[k].sym = m + i
          \/ nodes'[k].kind = "id" /\ Inits
      BY <1>2, <1>4 DEF AreVisited
    <3> QED BY <2>1, <3>1 DEF IsPrepared
  <2> QED BY <1>2, <2>2, PreparedGrows
<1> QED BY <1>2, <1>3, <1>4

\* A variable that is used has its node, a function has one or is the library's.
LEMMA PreparedUse ==
  ASSUME TypeInv, Unique(db'), Prepared(db, nodes), HaveNodes(db, open, nodes),
         Introduced(db, nodes),
         NEW kind \in {"id", "neg", "call"}, kind = "id" => BareUses, NEW name \in UseNames,
         NEW args \in Seq(Names \cup {NoName}), Use(kind, name, args)
  PROVE  Prepared(db', nodes')
<1>1. PICK s, n : s = st_find(db, Here.table, name) /\ n = Node(kind, name, Here.table, s, args)
  OBVIOUS
<1>2. /\ Proceeds /\ db'.symbols = db.symbols /\ db'.tables = db.tables
      /\ nodes' = Append(nodes, n) /\ n \in Nodes
      /\ db'.passed => /\ db.passed /\ s # None
                       /\ kind = "neg" => db.symbols[s].cls = "int"
                       /\ kind = "call" => db.symbols[s].cls = "func"
  BY <1>1, UseStep
<1>3. /\ WellFormed(db) /\ WellFormed(db') /\ Grows(db, db') /\ Len(open) \in 1 .. Len(open)
      /\ Here = open[Len(open)] /\ Here.table \in 1 .. Len(db.tables) /\ Here.kind = "block"
      /\ Len(nodes) \in Nat /\ Len(db.symbols) \in Nat /\ Len(db.tables) \in Nat
  <2>1. Here.kind = "block" /\ Len(nodes) \in Nat
    BY DEF Use, TypeInv
  <2>2. WellFormed(db') /\ Grows(db, db')
    BY <1>2 DEF Proceeds, Evolves
  <2> QED BY <2>1, <2>2, HereParts, DbParts
<1>4. n.kind = kind /\ n.sym = s
  BY <1>1, NodeParts
<1>5. /\ nodes'[Len(nodes) + 1] = n
      /\ \A j \in 1 .. Len(nodes) : nodes'[j] = nodes[j]
  BY <1>2, ProlongsAppend DEF TypeInv, Prolongs
<1>6. s # None => /\ s \in 1 .. Len(db.symbols)
                  /\ \E u \in Enclosing(db, Here.table) : s \in db.tables[u].syms
  BY <1>1, <1>3, FindParts
<1>7. ASSUME db'.passed, kind = "neg"
      PROVE  /\ s \in 1 .. Len(db'.symbols) /\ IsVar(db', s)
             /\ \E j \in 1 .. Len(nodes) : Introduces(db', nodes'[j], s)
  <2>1. s \in 1 .. Len(db.symbols) /\ IsVar(db, s) /\ IsVar(db', s)
    BY <1>2, <1>6, <1>7 DEF IsVar, Values
  <2>2. PICK u \in Enclosing(db, Here.table) : s \in db.tables[u].syms
    BY <1>2, <1>6, <1>7
  <2>3. PICK j \in 1 .. Len(nodes) : Introduces(db, nodes[j], s)
    BY <1>3, <2>1, <2>2 DEF HaveNodes
  <2>4. nodes[j].kind = "fun" => nodes[j].table \in 1 .. Len(db.tables)
    <3>1. nodes[j].kind = "fun" => nodes[j].table \in 2 .. Len(db.tables)
      BY DEF Prepared, IsPrepared
    <3> QED BY <1>3, <3>1
  <2>5. Introduces(db', nodes[j], s)
    BY <1>3, <2>1, <2>3, <2>4, IntroducesStays
  <2> QED BY <1>2, <1>5, <2>1, <2>5
<1>8. ASSUME db'.passed, kind = "call", s \notin {1, 2}
      PROVE  \E j \in 1 .. Len(nodes) :
               nodes'[j].kind = "fundec" \/ (nodes'[j].kind = "fun" /\ nodes'[j].sym = s)
  <2>1. s \in 1 .. Len(db.symbols) /\ IsFun(db, s)
    BY <1>2, <1>6, <1>8 DEF IsFun
  <2>2. s \in 3 .. Len(db.symbols)
    BY <1>3, <1>8, <2>1
  <2>3. PICK j \in 1 .. Len(nodes) : Declares(db, nodes[j], s)
    BY <2>1, <2>2 DEF Introduced
  <2> QED BY <1>5, <2>3 DEF Declares
<1>9. Len(nodes) + 1 - 1 = Len(nodes)
  BY <1>3
<1>10. IsPrepared(db', nodes', Len(nodes) + 1)
  BY <1>4, <1>5, <1>7, <1>8, <1>9 DEF IsPrepared
<1> QED BY <1>2, <1>10, OneNode

LEMMA PreparedAnalyse ==
  ASSUME TypeInv, Unique(db'), Prepared(db, nodes), HaveNodes(db, open, nodes),
         Introduced(db, nodes), Analyse
  PROVE  Prepared(db', nodes')
<1>1. Proceeds
  BY AnalyseProceeds
<1>2. CASE \/ TypeSpecifier
           \/ \E tag \in TagNames : TagSpecifier(tag) \/ OpenStruct(tag)
           \/ CloseStruct \/ ExtDefStruct \/ OpenBlock \/ CloseBlock \/ Finish
           \/ \E f \in FunNames, params \in SeqsUpTo(ParamNames, MaxParams) :
                ExtDefFunAborts(f, params)
  <2>1. nodes' = nodes
    BY <1>2 DEF TypeSpecifier, TagSpecifier, OpenStruct, CloseStruct, ExtDefStruct, OpenBlock,
                CloseBlock, Finish, ExtDefFunAborts
  <2> QED BY <1>1, <2>1, NoNodes
<1>3. CASE \/ \E names \in SeqsUpTo(VarNames, MaxDecs) \ {<< >>} : ExtDefVars(names)
           \/ \E f \in FunNames, params \in SeqsUpTo(ParamNames, MaxParams) :
                ExtDefFunDec(f, params)
  BY <1>1, <1>3, PreparedDeclarations
<1>4. CASE \E f \in FunNames, params \in SeqsUpTo(ParamNames, MaxParams) : OpenFun(f, params)
  BY <1>1, <1>4, PreparedOpenFun
<1>5. CASE \E decs \in SeqsUpTo(Decs, MaxDecs) \ {<< >>} : Def(decs)
  BY <1>5, PreparedDef
<1>6. << >> \in Seq(Names \cup {NoName})
      /\ \A args \in SeqsUpTo({NoName}, 1) : args \in Seq(Names \cup {NoName})
  <2>1. << >> \in Seq(Names \cup {NoName})
    OBVIOUS
  <2> QED BY <2>1, CallArgs
<1>7. CASE \/ BareUses /\ \E name \in UseNames : Use("id", name, << >>)
           \/ \E name \in UseNames : Use("neg", name, << >>)
           \/ \E name \in UseNames, args \in SeqsUpTo({NoName}, 1) : Use("call", name, args)
  BY <1>6, <1>7, PreparedUse
<1> QED BY <1>2, <1>3, <1>4, <1>5, <1>7 DEF Analyse

-----------------------------------------------------------------------------
(* The translation. *)

\* A node is translated: what has a variable or a label keeps it.
LEMMA TranslatedStays ==
  ASSUME NEW d, NEW e, WellFormed(d), WellFormed(e), Grows(d, e), e.tables = d.tables,
         Len(e.symbols) = Len(d.symbols), NEW ns, NEW p \in 1 .. Len(ns), Len(ns) \in Nat,
         Translated(d, ns, p), Bodies(d, ns),
         \A s \in 1 .. Len(d.symbols) :
           /\ IsFun(d, s) /\ d.symbols[s].ir = "label" => e.symbols[s].ir = "label"
           /\ IsVar(d, s) /\ d.symbols[s].ir = "var" => e.symbols[s].ir = "var",
         ns[p].kind \notin {"extvars", "fundec"},
         ns[p].kind = "fun" => e.symbols[ns[p].sym].ir = "label",
         \A s \in 1 .. Len(d.symbols) :
           IsVar(d, s) /\ Introduces(d, ns[p], s) => e.symbols[s].ir = "var"
  PROVE  Translated(e, ns, p + 1)
<1>1. p + 1 - 1 = p /\ \A j \in 1 .. p : j \in 1 .. Len(ns) /\ (j = p \/ j \in 1 .. p - 1)
  OBVIOUS
<1>2. \A s \in 1 .. Len(d.symbols) :
        /\ IsVar(e, s) <=> IsVar(d, s)
        /\ \A n : Introduces(e, n, s) <=> Introduces(d, n, s)
  BY DEF Grows, IsVar, Introduces
<1>3. ASSUME NEW j \in 1 .. p
      PROVE  /\ ns[j].kind \notin {"extvars", "fundec"}
             /\ ns[j].kind = "fun" => e.symbols[ns[j].sym].ir = "label"
  <2>1. CASE j = p
    BY <2>1
  <2>2. CASE j \in 1 .. p - 1
    <3>1. /\ ns[j].kind \notin {"extvars", "fundec"}
          /\ ns[j].kind = "fun" => d.symbols[ns[j].sym].ir = "label"
      BY <2>2 DEF Translated
    <3>2. ns[j].kind = "fun" => /\ ns[j].sym \in 3 .. Len(d.symbols)
                                /\ IsFun(d, ns[j].sym)
      BY <1>1 DEF Bodies, IsBody
    <3>3. Len(d.symbols) \in Nat
      BY DbParts
    <3>4. ns[j].kind = "fun" => ns[j].sym \in 1 .. Len(d.symbols)
      BY <3>2, <3>3
    <3> QED BY <3>1, <3>2, <3>4
  <2> QED BY <1>1, <2>1, <2>2
<1>4. ASSUME NEW j \in 1 .. p, NEW s \in 1 .. Len(d.symbols), IsVar(e, s), Introduces(e, ns[j], s)
      PROVE  e.symbols[s].ir = "var"
  <2>1. IsVar(d, s) /\ Introduces(d, ns[j], s)
    BY <1>2, <1>4
  <2>2. CASE j = p
    BY <2>1, <2>2
  <2>3. CASE j \in 1 .. p - 1
    BY <2>1, <2>3 DEF Translated
  <2> QED BY <1>1, <2>2, <2>3
<1> QED BY <1>1, <1>3, <1>4 DEF Translated

\* What the analysis promises the translation.
LEMMA TranslationParts ==
  ASSUME TypeInv, Unique(db), StableInv, FunInv, TransInv, phase = "translate", pc <= Len(nodes)
  PROVE  /\ WellFormed(db) /\ Len(nodes) \in Nat /\ pc \in 1 .. Len(nodes) /\ db.passed
         /\ Translated(db, nodes, pc) /\ IsPrepared(db, nodes, pc)
         /\ Library(db) /\ Bodies(db, nodes) /\ HaveSymbols(db, open, nodes) /\ Calls(db, nodes)
         /\ At.kind = "fun" => Closed(open, At)
         /\ At.kind \in {"neg", "call"} => Found = At.sym
<1>1. WellFormed(db) /\ Len(nodes) \in Nat /\ db.passed
  BY HereParts DEF TypeInv, StableInv
<1>2. pc \in 1 .. Len(nodes)
  BY <1>1 DEF TypeInv
<1>3. Translated(db, nodes, pc) /\ IsPrepared(db, nodes, pc)
  BY <1>2 DEF TransInv, Prepared
<1>4. /\ Library(db) /\ Bodies(db, nodes) /\ HaveSymbols(db, open, nodes) /\ Calls(db, nodes)
      /\ Len(open) = 1
  BY <1>1 DEF FunInv, FunsInv, Accepted
<1>5. At.kind = "fun" => Closed(open, At)
  <2> SUFFICES ASSUME At.kind = "fun" PROVE Closed(open, At)
    OBVIOUS
  <2>1. At.sym \in 3 .. Len(db.symbols)
    BY <1>2, <1>4 DEF Bodies, IsBody, At
  <2>2. At.sym # None /\ open[1].fun = None
    BY <2>1, HereParts DEF None, Nested
  <2> QED BY <1>4, <2>2 DEF Closed
<1>6. At.kind \in {"neg", "call"} => Found = At.sym
  <2>1. At.kind \in {"neg", "call"} => At.kind \in Uses
    BY DEF Uses
  <2>2. At.kind \in Uses => Resolved(At, db, open)
    BY <1>1, <1>2 DEF StableInv, At
  <2> QED BY <2>1, <2>2 DEF Resolved, Found
<1> QED BY <1>1, <1>2, <1>3, <1>4, <1>5, <1>6

\* The label goes to the symbol of the body, and every parameter has its own.
LEMMA FunDecTranslated ==
  ASSUME TypeInv, Unique(db), StableInv, FunInv, TransInv, TranslateFunDec
  PROVE  phase' = "translate" /\ pc' = pc + 1 /\ Translated(db', nodes, pc + 1)
<1>1. /\ phase = "translate" /\ pc <= Len(nodes) /\ At.kind = "fun"
  BY DEF TranslateFunDec, Visit
<1>2. /\ WellFormed(db) /\ Len(nodes) \in Nat /\ pc \in 1 .. Len(nodes) /\ db.passed
      /\ Translated(db, nodes, pc) /\ IsPrepared(db, nodes, pc)
      /\ Bodies(db, nodes) /\ HaveSymbols(db, open, nodes) /\ Closed(open, At)
  BY <1>1, TranslationParts
<1>3. PICK f, P, t : /\ f = st_find(db, 1, At.name) /\ t = At.table
                     /\ P = {st_findonly(db, At.table, At.params[i]) : i \in DOMAIN At.params}
  OBVIOUS
<1>4. f = st_findonly(db, 1, At.name)
  <2>1. /\ 1 \in 1 .. Len(db.tables) /\ 1 \in 0 .. Len(db.tables) /\ 0 \in 0 .. Len(db.tables)
        /\ Len(db.tables) \in Nat
    <3>1. Len(db.tables) \in Nat /\ Len(db.tables) >= 1
      BY <1>2, DbParts
    <3> QED BY <3>1
  <2>2. db.tables[1].parent = 0
    BY <1>2, <2>1, TableParts
  <2>3. st_find(db, 0, At.name) = None
    BY <1>2, <2>1, FindEquation
  <2> QED BY <1>2, <1>3, <2>1, <2>2, <2>3, FindEquation
<1>5. f # None /\ f = At.sym /\ f \in 1 .. Len(db.symbols) /\ IsFun(db, f)
  <2>1. HasSymbol(db, open, nodes, pc)
    BY <1>2 DEF HaveSymbols, At
  <2>2. \A k \in 1 .. pc - 1 : nodes[k].kind # "fundec"
    BY <1>2 DEF Translated
  <2>3. f # None /\ f = At.sym /\ IsFun(db, f)
    BY <1>2, <1>4, <2>1, <2>2 DEF HasSymbol, At
  <2>4. At.sym \in 3 .. Len(db.symbols)
    BY <1>1, <1>2 DEF Bodies, IsBody, At
  <2>5. Len(db.symbols) \in Nat
    BY <1>2, DbParts
  <2> QED BY <2>3, <2>4, <2>5
<1>6. /\ DOMAIN At.params = 1 .. Len(At.params) /\ t \in 1 .. Len(db.tables)
      /\ ParamsFound(db, At)
  <2>1. At \in Nodes
    BY <1>2 DEF At, TypeInv
  <2>2. At.params \in Seq(Names \cup {NoName})
    BY <2>1 DEF Nodes
  <2>3. t \in 2 .. Len(db.tables) /\ ParamsFound(db, At)
    BY <1>1, <1>2, <1>3 DEF IsPrepared, At
  <2>4. Len(db.tables) \in Nat
    BY <1>2, DbParts
  <2> QED BY <2>2, <2>3, <2>4
<1>7. /\ None \notin P
      /\ \A s \in P : IsVar(db, s)
  BY <1>3, <1>6 DEF ParamsFound
<1>8. PICK d : d = SetIr(db, {f}, "label")
  OBVIOUS
<1>9. db' = SetIr(d, P, "var") /\ phase' = phase /\ pc' = pc + 1
  BY <1>3, <1>5, <1>7, <1>8 DEF TranslateFunDec, Advance
<1>10. IsSetIr(db, d, {f}, "label")
  BY <1>2, <1>8, IrIsSet
<1>11. WellFormed(d)
  BY <1>10 DEF IsSetIr
<1>12. IsSetIr(d, db', P, "var")
  BY <1>9, <1>11, IrIsSet
<1>13. /\ WellFormed(db') /\ Grows(db, db') /\ db'.tables = db.tables
       /\ Len(db'.symbols) = Len(db.symbols)
       /\ \A s \in 1 .. Len(db.symbols) :
            db'.symbols[s].ir = IF s \in P THEN "var"
                                ELSE IF s = f THEN "label" ELSE db.symbols[s].ir
  <2>1. WellFormed(db') /\ Grows(db, d) /\ Grows(d, db')
    BY <1>10, <1>12 DEF IsSetIr
  <2>2. Grows(db, db')
    BY <1>2, <1>11, <2>1, GrowsTransitive
  <2> QED BY <1>10, <1>12, <2>1, <2>2 DEF IsSetIr
<1>14. f \notin P
  BY <1>5, <1>7 DEF IsFun, IsVar, Values
<1>15. \A s \in 1 .. Len(db.symbols) :
         /\ IsFun(db, s) /\ db.symbols[s].ir = "label" => db'.symbols[s].ir = "label"
         /\ IsVar(db, s) /\ db.symbols[s].ir = "var" => db'.symbols[s].ir = "var"
  <2>1. \A s : ~(IsFun(db, s) /\ IsVar(db, s))
    BY DEF IsFun, IsVar, Values
  <2> QED BY <1>5, <1>7, <1>13, <2>1
<1>16. ASSUME NEW s \in 1 .. Len(db.symbols), IsVar(db, s), Introduces(db, At, s)
       PROVE  db'.symbols[s].ir = "var"
  <2>1. /\ s \in db.tables[t].syms
        /\ \E k \in 1 .. Len(At.params) : At.params[k] = db.symbols[s].name
    BY <1>1, <1>3, <1>16 DEF Introduces
  <2>2. PICK k \in 1 .. Len(At.params) : At.params[k] = db.symbols[s].name
    BY <2>1
  <2>3. st_findonly(db, t, db.symbols[s].name) = s
    BY <1>2, <1>6, <2>1, FindOnlyUnique
  <2>4. s \in P
    BY <1>3, <1>6, <2>2, <2>3
  <2> QED BY <1>13, <2>4
<1>17. db'.symbols[At.sym].ir = "label"
  BY <1>5, <1>13, <1>14
<1>18. Translated(db', nodes, pc + 1)
  BY <1>1, <1>2, <1>13, <1>15, <1>16, <1>17, TranslatedStays DEF At
<1> QED BY <1>1, <1>9, <1>18

LEMMA VarDecTranslated ==
  ASSUME TypeInv, Unique(db), StableInv, FunInv, TransInv, TranslateVarDec
  PROVE  phase' = "translate" /\ pc' = pc + 1 /\ Translated(db', nodes, pc + 1)
<1>1. /\ phase = "translate" /\ pc <= Len(nodes) /\ At.kind = "dec"
      /\ db' = SetIr(db, {At.sym}, "var") /\ pc' = pc + 1 /\ phase' = phase
  BY DEF TranslateVarDec, Visit, Advance
<1>2. /\ WellFormed(db) /\ Len(nodes) \in Nat /\ pc \in 1 .. Len(nodes)
      /\ Translated(db, nodes, pc) /\ IsPrepared(db, nodes, pc) /\ Bodies(db, nodes)
  BY <1>1, TranslationParts
<1>3. IsSetIr(db, db', {At.sym}, "var")
  BY <1>1, <1>2, IrIsSet
<1>4. At.sym \in 1 .. Len(db.symbols) /\ IsVar(db, At.sym)
  BY <1>1, <1>2 DEF IsPrepared, At
<1>5. /\ WellFormed(db') /\ Grows(db, db') /\ db'.tables = db.tables
      /\ Len(db'.symbols) = Len(db.symbols)
      /\ \A s \in 1 .. Len(db.symbols) :
           db'.symbols[s].ir = IF s = At.sym THEN "var" ELSE db.symbols[s].ir
  BY <1>3 DEF IsSetIr
<1>6. \A s \in 1 .. Len(db.symbols) :
        /\ IsFun(db, s) /\ db.symbols[s].ir = "label" => db'.symbols[s].ir = "label"
        /\ IsVar(db, s) /\ db.symbols[s].ir = "var" => db'.symbols[s].ir = "var"
  <2>1. \A s : ~(IsFun(db, s) /\ IsVar(db, s))
    BY DEF IsFun, IsVar, Values
  <2> QED BY <1>4, <1>5, <2>1
<1>7. \A s \in 1 .. Len(db.symbols) : Introduces(db, At, s) => db'.symbols[s].ir = "var"
  BY <1>1, <1>4, <1>5 DEF Introduces
<1>8. Translated(db', nodes, pc + 1)
  BY <1>1, <1>2, <1>5, <1>6, <1>7, TranslatedStays DEF At
<1> QED BY <1>1, <1>8

\* Nothing changes at a use.
LEMMA UseTranslated ==
  ASSUME TypeInv, Unique(db), StableInv, FunInv, TransInv,
         TranslateId \/ TranslateCall, phase' = "translate"
  PROVE  pc' = pc + 1 /\ Translated(db', nodes, pc + 1)
<1>1. /\ phase = "translate" /\ pc <= Len(nodes) /\ At.kind \in {"id", "neg", "call"}
      /\ db' = db /\ pc' = pc + 1
  BY DEF TranslateId, TranslateCall, Visit, Advance, Stop
<1>2. /\ WellFormed(db) /\ Len(nodes) \in Nat /\ pc \in 1 .. Len(nodes)
      /\ Translated(db, nodes, pc) /\ Bodies(db, nodes)
  BY <1>1, TranslationParts
<1>3. \A s : ~Introduces(db, At, s)
  BY <1>1 DEF Introduces
<1>4. Grows(db, db)
  BY <1>2, GrowsReflexive
<1>5. Translated(db, nodes, pc + 1)
  BY <1>1, <1>2, <1>3, <1>4, TranslatedStays DEF At
<1> QED BY <1>1, <1>5

\* An identifier has a variable, because what it means has been translated.
LEMMA IdHasVariable ==
  ASSUME TypeInv, Unique(db), StableInv, FunInv, TransInv, ~Inits, ~BareUses, TranslateId
  PROVE  phase' # "dangling"
<1>1. phase = "translate" /\ pc <= Len(nodes) /\ At.kind \in {"id", "neg"}
  BY DEF TranslateId, Visit
<1>2. /\ pc \in 1 .. Len(nodes) /\ db.passed
      /\ Translated(db, nodes, pc) /\ IsPrepared(db, nodes, pc)
      /\ At.kind \in {"neg", "call"} => Found = At.sym
  BY <1>1, TranslationParts
<1>3. At.kind = "neg"
  BY <1>1, <1>2 DEF IsPrepared, At
<1>4. /\ Found \in 1 .. Len(db.symbols) /\ IsVar(db, Found)
      /\ \E j \in 1 .. pc - 1 : Introduces(db, nodes[j], Found)
  BY <1>2, <1>3 DEF IsPrepared, At
<1>5. db.symbols[Found].ir = "var"
  BY <1>2, <1>4 DEF Translated
<1>6. Found # None
  BY <1>4 DEF None
<1> QED BY <1>1, <1>5, <1>6 DEF TranslateId, Advance

\* A function that is called is the library's, or its body has been translated:
\* the program has nothing but bodies.
LEMMA CallHasLabel ==
  ASSUME TypeInv, Unique(db), StableInv, FunInv, TransInv, TranslateCall
  PROVE  phase' # "dangling"
<1>1. phase = "translate" /\ pc <= Len(nodes) /\ At.kind = "call"
  BY DEF TranslateCall, Visit
<1>2. /\ pc \in 1 .. Len(nodes) /\ db.passed
      /\ Translated(db, nodes, pc) /\ IsPrepared(db, nodes, pc)
      /\ Library(db) /\ Calls(db, nodes) /\ Found = At.sym
  BY <1>1, TranslationParts
<1>3. IsCall(db, At)
  BY <1>1, <1>2 DEF Calls, At
<1>4. /\ Found \in 1 .. Len(db.symbols) /\ IsFun(db, Found)
      /\ db.symbols[Found].name = At.name /\ db.symbols[Found].argc = Len(At.params)
  BY <1>2, <1>3 DEF IsCall
<1>5. IsA(db, Found, "func")
  <2>1. Found # None
    BY <1>4 DEF None
  <2> QED BY <1>4, <2>1 DEF IsA, IsFun
<1>6. \/ At.name = IF At.params = << >> THEN ReadName ELSE WriteName
      \/ db.symbols[Found].ir = "label"
  <2>1. CASE Found = 1
    <3>1. db.symbols[1].name = ReadName /\ db.symbols[1].argc = 1 - 1
      BY <1>2 DEF Library
    <3>2. At.name = ReadName /\ Len(At.params) = 0
      <4>1. 1 - 1 = 0
        OBVIOUS
      <4> QED BY <1>4, <2>1, <3>1, <4>1
    <3>3. At.params \in Seq(Names \cup {NoName})
      <4>1. At \in Nodes
        BY <1>2 DEF At, TypeInv
      <4> QED BY <4>1 DEF Nodes
    <3>4. At.params = << >>
      BY <3>2, <3>3, EmptySeq
    <3> QED BY <3>2, <3>4
  <2>2. CASE Found = 2
    <3>1. db.symbols[2].name = WriteName /\ db.symbols[2].argc = 2 - 1
      BY <1>2 DEF Library
    <3>2. At.name = WriteName /\ Len(At.params) = 1
      <4>1. 2 - 1 = 1
        OBVIOUS
      <4> QED BY <1>4, <2>2, <3>1, <4>1
    <3>3. At.params # << >>
      BY <3>2
    <3> QED BY <3>2, <3>3
  <2>3. CASE Found \notin {1, 2}
    <3>1. PICK j \in 1 .. pc - 1 :
            nodes[j].kind = "fundec" \/ (nodes[j].kind = "fun" /\ nodes[j].sym = Found)
      BY <1>1, <1>2, <2>3 DEF IsPrepared, At
    <3> QED BY <1>2, <3>1 DEF Translated
  <2> QED BY <2>1, <2>2, <2>3
<1> QED BY <1>1, <1>5, <1>6 DEF TranslateCall, Advance

LEMMA TransInit == Init => TransInv
<1> SUFFICES ASSUME Init PROVE TransInv
  OBVIOUS
<1>1. nodes = << >> /\ phase = "analyse" /\ pc = 1 /\ open = <<Context("unit", 1, NoName, None)>>
  BY DEF Init
<1>2. WellFormed(db) /\ 1 \in 1 .. Len(db.tables)
  <2>1. WellFormed(db)
    BY TypeInit DEF TypeInv
  <2>2. Len(db.tables) \in Nat /\ Len(db.tables) >= 1
    BY <2>1, DbParts
  <2> QED BY <2>1, <2>2
<1>3. \A u \in Enclosing(db, 1) : u = 1
  BY <1>2, EnclosingParts
<1>4. \A s \in db.tables[1].syms : ~IsVar(db, s)
  <2>1. /\ db.tables[1].syms = {1, 2}
        /\ db.symbols[1] = NewSymbol(ReadName, "func", 0, "def")
        /\ db.symbols[2] = NewSymbol(WriteName, "func", 1, "def")
    BY DEF Init
  <2>2. db.symbols[1].cls = "func" /\ db.symbols[2].cls = "func"
    BY <2>1 DEF NewSymbol
  <2> QED BY <2>1, <2>2 DEF IsVar, Values
<1>5. \A i \in 1 .. Len(open) : open[i].table = 1
  BY <1>1, ContextParts
<1>6. HaveNodes(db, open, nodes)
  BY <1>3, <1>4, <1>5 DEF HaveNodes
<1>7. \A i : i \notin 1 .. Len(nodes)
  BY <1>1
<1> QED BY <1>1, <1>6, <1>7 DEF TransInv, Prepared

LEMMA TransStep ==
  ASSUME TypeInv, Unique(db), Unique(db'), StableInv, FunInv, TransInv, [Next]_vars
  PROVE  TransInv'
<1>1. Proceeds /\ Prepared(db, nodes)
  BY NextProceeds DEF Prepared, TransInv
<1>2. CASE Analyse
  <2>1. /\ phase = "analyse" /\ phase' \in {"analyse", "aborted", "translate", "rejected"}
        /\ pc' = pc /\ pc = 1 /\ HaveNodes(db, open, nodes) /\ Introduced(db, nodes)
    BY <1>2, AnalyseProceeds DEF TransInv, FunInv, FunsInv
  <2>2. HaveNodes(db', open', nodes') /\ Prepared(db', nodes')
    BY <1>1, <1>2, <2>1, NodesOfAnalyse, PreparedAnalyse
  <2>3. Translated(db', nodes', pc')
    BY <2>1 DEF Translated
  <2> QED BY <2>1, <2>2, <2>3 DEF TransInv, Prepared
<1>3. CASE Translate
  <2>1. phase = "translate" /\ phase' # "analyse" /\ nodes' = nodes
    BY <1>3, TranslateStep
  <2>2. Prepared(db', nodes')
    BY <1>1, <2>1, NoNodes
  <2>3. phase' = "translate" => Translated(db', nodes', pc')
    <3>1. CASE TranslateExt
      BY <3>1 DEF TranslateExt, Stop
    <3>2. CASE TranslateFunDec
      BY <2>1, <3>2, FunDecTranslated
    <3>3. CASE TranslateVarDec
      BY <2>1, <3>3, VarDecTranslated
    <3>4. CASE TranslateId \/ TranslateCall
      BY <2>1, <3>4, UseTranslated
    <3>5. CASE TranslationEnds
      BY <3>5 DEF TranslationEnds
    <3> QED BY <1>3, <3>1, <3>2, <3>3, <3>4, <3>5 DEF Translate
  <2>4. ~Inits /\ ~BareUses => phase' # "dangling"
    <3>1. CASE TranslateExt
      BY <3>1 DEF TranslateExt, Stop
    <3>2. CASE TranslateFunDec
      BY <3>2, FunDecTranslated
    <3>3. CASE TranslateVarDec
      BY <3>3, VarDecTranslated
    <3>4. CASE TranslateId
      BY <3>4, IdHasVariable
    <3>5. CASE TranslateCall
      BY <3>5, CallHasLabel
    <3>6. CASE TranslationEnds
      BY <3>6 DEF TranslationEnds
    <3> QED BY <1>3, <3>1, <3>2, <3>3, <3>4, <3>5, <3>6 DEF Translate
  <2> QED BY <2>1, <2>2, <2>3, <2>4 DEF TransInv, Prepared
<1>4. CASE UNCHANGED vars
  BY <1>4 DEF vars, TransInv, Prepared
<1> QED BY <1>2, <1>3, <1>4 DEF Next, Over

\* The invariants of Scopes hold together.  That of the translation is kept by
\* its lookups only because the others say that the names still mean what the
\* analysis took them for.
THEOREM TranslationIsPrepared ==
  Spec => [](TypeInv /\ Unique(db) /\ StableInv /\ FunInv /\ TransInv)
<1>1. Init => TransInv
  BY TransInit
<1>2. TypeInv /\ Unique(db) /\ Unique(db)' /\ StableInv /\ FunInv /\ TransInv /\ [Next]_vars
        => TransInv'
  <2> SUFFICES ASSUME TypeInv, Unique(db), Unique(db'), StableInv, FunInv, TransInv, [Next]_vars
               PROVE  TransInv'
    BY DEF Unique
  <2> QED BY TransStep
<1> QED BY <1>1, <1>2, FunctionsAreKept, UsesAreResolved, PTL DEF Spec

\* No assertion and no cast of translate_Exp or translate_FunDec fails in a
\* program that the analysis has accepted, if it has no initialisers and no
\* identifier is a statement; with either of these an assertion may fail.
THEOREM NamesAreFound ==
  ASSUME ~Inits, ~BareUses
  PROVE  Spec => []TranslationFindsNames
<1>1. TransInv => TranslationFindsNames
  BY DEF TransInv, TranslationFindsNames
<1> QED BY <1>1, TranslationIsPrepared, PTL
=============================================================================
