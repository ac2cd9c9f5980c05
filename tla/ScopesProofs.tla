----------------------------- MODULE ScopesProofs -----------------------------
(***************************************************************************)
(* What the operations on the symbol tables in Scopes do (symbol.c, and    *)
(* what semantics.c does with it): they keep the tables well formed, they  *)
(* only ever add to them, and they never put a second symbol of one name   *)
(* into a table; what a lookup finds, and what of it stays when the tables *)
(* grow.  Then the steps of Scopes, and what they keep: the types, one     *)
(* symbol of a name in each table, struct tags that are global, and names  *)
(* that mean the same when they are translated.                            *)
(***************************************************************************)
EXTENDS Scopes, Induction

\* A table, and the state of the symbol tables.
Table == [parent : Nat, syms : SUBSET Nat]
Db == [symbols : Seq(Symbol), tables : Seq(Table), passed : BOOLEAN]

\* There is an outermost table, the parent of a table is older than the
\* table, and what is in a table is a symbol.
WellFormed(d) ==
  /\ d \in Db
  /\ Len(d.tables) >= 1
  /\ \A t \in 1 .. Len(d.tables) :
       /\ d.tables[t].parent \in 0 .. t - 1
       /\ d.tables[t].parent = 0 <=> t = 1
       /\ d.tables[t].syms \subseteq 1 .. Len(d.symbols)

\* UniqueNames, of any state of the tables.
Unique(d) ==
  \A t \in 1 .. Len(d.tables) : \A r, s \in d.tables[t].syms :
    d.symbols[r].name = d.symbols[s].name => r = s

\* The symbols of d keep name, class and number of parameters in e, and the
\* tables of d their parents and their symbols.
Grows(d, e) ==
  /\ Len(d.symbols) <= Len(e.symbols)
  /\ \A s \in 1 .. Len(d.symbols) : /\ e.symbols[s].name = d.symbols[s].name
                                    /\ e.symbols[s].cls = d.symbols[s].cls
                                    /\ e.symbols[s].argc = d.symbols[s].argc
  /\ Len(d.tables) <= Len(e.tables)
  /\ \A t \in 1 .. Len(d.tables) : /\ e.tables[t].parent = d.tables[t].parent
                                   /\ d.tables[t].syms \subseteq e.tables[t].syms

-----------------------------------------------------------------------------
(* Parts of the tables. *)

LEMMA NamesHere == ReadName \in Names /\ WriteName \in Names /\ ReadName # WriteName
  BY BoundsAssumption DEF Names

LEMMA DbParts ==
  ASSUME NEW d, WellFormed(d)
  PROVE  /\ d.symbols \in Seq(Symbol) /\ Len(d.symbols) \in Nat
         /\ d.tables \in Seq(Table) /\ Len(d.tables) \in Nat /\ Len(d.tables) >= 1
         /\ d.passed \in BOOLEAN
         /\ d = [symbols |-> d.symbols, tables |-> d.tables, passed |-> d.passed]
<1>1. d \in Db
  BY DEF WellFormed
<1>2. d.symbols \in Seq(Symbol) /\ d.tables \in Seq(Table)
  BY <1>1 DEF Db
<1>3. d.passed \in BOOLEAN /\ d = [symbols |-> d.symbols, tables |-> d.tables, passed |-> d.passed]
  BY <1>1 DEF Db
<1>4. Len(d.tables) >= 1
  BY DEF WellFormed
<1> QED BY <1>2, <1>3, <1>4

LEMMA TableParts ==
  ASSUME NEW d, WellFormed(d), NEW t \in 1 .. Len(d.tables)
  PROVE  /\ d.tables[t] \in Table
         /\ d.tables[t].parent \in 0 .. t - 1
         /\ d.tables[t].parent = 0 <=> t = 1
         /\ d.tables[t].syms \subseteq 1 .. Len(d.symbols)
<1>1. d.tables[t] \in Table
  BY DbParts, ElementOfSeq
<1> QED BY <1>1 DEF WellFormed

LEMMA TableRecord ==
  ASSUME NEW r \in Table, NEW syms
  PROVE  [r EXCEPT !.syms = syms] = [parent |-> r.parent, syms |-> syms]
  BY DEF Table

LEMMA SymbolParts ==
  ASSUME NEW d, WellFormed(d), NEW s \in 1 .. Len(d.symbols)
  PROVE  /\ d.symbols[s] \in Symbol
         /\ d.symbols[s].name \in Names
         /\ d.symbols[s].cls \in Values \cup {"type", "func"}
         /\ d.symbols[s].argc \in Nat
         /\ d.symbols[s].state \in {"dec", "def"}
<1>1. d.symbols[s] \in Symbol
  BY DbParts, ElementOfSeq
<1> QED BY <1>1 DEF Symbol

\* st_findonly returns the symbol of the name, if the table has one.
LEMMA FindOnly ==
  ASSUME NEW d, WellFormed(d), NEW t \in 1 .. Len(d.tables), NEW name
  PROVE  /\ st_findonly(d, t, name) = None
              <=> \A s \in d.tables[t].syms : d.symbols[s].name # name
         /\ st_findonly(d, t, name) # None =>
              /\ st_findonly(d, t, name) \in d.tables[t].syms
              /\ st_findonly(d, t, name) \in 1 .. Len(d.symbols)
              /\ d.symbols[st_findonly(d, t, name)].name = name
<1> DEFINE found == {s \in d.tables[t].syms : d.symbols[s].name = name}
<1>1. st_findonly(d, t, name) = IF found = {} THEN None ELSE CHOOSE s \in found : TRUE
  BY DEF st_findonly
<1>2. found \subseteq 1 .. Len(d.symbols) /\ Len(d.symbols) \in Nat
  BY TableParts, DbParts
<1>3. CASE found = {}
  BY <1>1, <1>3
<1>4. CASE found # {}
  <2>1. st_findonly(d, t, name) \in found
    BY <1>1, <1>4
  <2>2. st_findonly(d, t, name) # None
    BY <2>1, <1>2 DEF None
  <2> QED BY <2>1, <2>2, <1>2
<1> QED BY <1>3, <1>4

\* Where names are unique it returns the only one.
LEMMA FindOnlyUnique ==
  ASSUME NEW d, WellFormed(d), Unique(d), NEW t \in 1 .. Len(d.tables),
         NEW s \in d.tables[t].syms
  PROVE  st_findonly(d, t, d.symbols[s].name) = s
<1>1. st_findonly(d, t, d.symbols[s].name) # None
  BY FindOnly
<1>2. /\ st_findonly(d, t, d.symbols[s].name) \in d.tables[t].syms
      /\ d.symbols[st_findonly(d, t, d.symbols[s].name)].name = d.symbols[s].name
  BY <1>1, FindOnly
<1> QED BY <1>2 DEF Unique

LEMMA GrowsReflexive == ASSUME NEW d, WellFormed(d) PROVE Grows(d, d)
  BY DbParts DEF Grows

LEMMA GrowsTransitive ==
  ASSUME NEW d, NEW e, NEW f, WellFormed(d), WellFormed(e), WellFormed(f),
         Grows(d, e), Grows(e, f)
  PROVE  Grows(d, f)
<1>1. /\ Len(d.symbols) \in Nat /\ Len(e.symbols) \in Nat /\ Len(f.symbols) \in Nat
      /\ Len(d.tables) \in Nat /\ Len(e.tables) \in Nat /\ Len(f.tables) \in Nat
  BY DbParts
<1>2. \A s \in 1 .. Len(d.symbols) : s \in 1 .. Len(e.symbols)
  BY <1>1 DEF Grows
<1>3. \A t \in 1 .. Len(d.tables) : t \in 1 .. Len(e.tables)
  BY <1>1 DEF Grows
<1>4. \A s \in 1 .. Len(d.symbols) : /\ f.symbols[s].name = d.symbols[s].name
                                     /\ f.symbols[s].cls = d.symbols[s].cls
                                     /\ f.symbols[s].argc = d.symbols[s].argc
  BY <1>2 DEF Grows
<1>5. \A t \in 1 .. Len(d.tables) : /\ f.tables[t].parent = d.tables[t].parent
                                    /\ d.tables[t].syms \subseteq f.tables[t].syms
  BY <1>3 DEF Grows
<1> QED BY <1>1, <1>4, <1>5 DEF Grows

-----------------------------------------------------------------------------
(* The operations. *)

\* A table gains symbols, new ones or others.
Gained(d, t, symbols, X, b) ==
  [symbols |-> symbols, tables |-> [d.tables EXCEPT ![t].syms = @ \cup X], passed |-> b]

AreGains(d, t, X, e) ==
  /\ WellFormed(e)
  /\ Grows(d, e)
  /\ Len(e.tables) = Len(d.tables)
  /\ e.tables[t].syms = d.tables[t].syms \cup X
  /\ \A u \in 1 .. Len(d.tables) : u # t => e.tables[u] = d.tables[u]
  /\ Unique(d) /\ (\A r \in X : \A s \in d.tables[t].syms \cup X :
                     e.symbols[r].name = e.symbols[s].name => r = s)
       => Unique(e)

LEMMA GainedParts ==
  ASSUME NEW d, NEW t, NEW symbols, NEW X, NEW b
  PROVE  /\ Gained(d, t, symbols, X, b).symbols = symbols
         /\ Gained(d, t, symbols, X, b).passed = b
  BY DEF Gained

\* The forms in which the operations change a table, as records.
LEMMA TableExcept ==
  ASSUME NEW d, d = [symbols |-> d.symbols, tables |-> d.tables, passed |-> d.passed],
         NEW t, NEW syms
  PROVE  [d EXCEPT !.tables[t].syms = syms]
           = [symbols |-> d.symbols, tables |-> [d.tables EXCEPT ![t].syms = syms],
              passed |-> d.passed]
<1>1. [d EXCEPT !.tables[t].syms = syms]
        = [symbols |-> d.symbols,
           tables |-> [d.tables EXCEPT ![t] = [d.tables[t] EXCEPT !.syms = syms]],
           passed |-> d.passed]
  OBVIOUS
<1>2. [d.tables EXCEPT ![t] = [d.tables[t] EXCEPT !.syms = syms]]
        = [d.tables EXCEPT ![t].syms = syms]
  OBVIOUS
<1> QED BY <1>1, <1>2

LEMMA GainedExcept ==
  ASSUME NEW d, d = [symbols |-> d.symbols, tables |-> d.tables, passed |-> d.passed],
         NEW t, NEW symbols, NEW X
  PROVE  /\ [d EXCEPT !.tables[t].syms = @ \cup X] = Gained(d, t, d.symbols, X, d.passed)
         /\ [d EXCEPT !.symbols = symbols, !.tables[t].syms = @ \cup X]
              = Gained(d, t, symbols, X, d.passed)
<1> DEFINE c == [d EXCEPT !.symbols = symbols]
<1>1. PICK syms : syms = d.tables[t].syms \cup X
  OBVIOUS
<1>2. [d EXCEPT !.tables[t].syms = @ \cup X] = Gained(d, t, d.symbols, X, d.passed)
  <2>1. [d EXCEPT !.tables[t].syms = syms]
          = [symbols |-> d.symbols, tables |-> [d.tables EXCEPT ![t].syms = syms],
             passed |-> d.passed]
    BY TableExcept
  <2> QED BY <1>1, <2>1 DEF Gained
<1>3. c = [symbols |-> symbols, tables |-> d.tables, passed |-> d.passed]
  OBVIOUS
<1>4. c.symbols = symbols /\ c.tables = d.tables /\ c.passed = d.passed
  BY <1>3
<1>5. [d EXCEPT !.symbols = symbols, !.tables[t].syms = @ \cup X]
        = [c EXCEPT !.tables[t].syms = d.tables[t].syms \cup X]
  BY <1>4
<1>6. [c EXCEPT !.tables[t].syms = d.tables[t].syms \cup X]
        = [symbols |-> symbols,
           tables |-> [d.tables EXCEPT ![t].syms = d.tables[t].syms \cup X],
           passed |-> d.passed]
  <2>1. c = [symbols |-> c.symbols, tables |-> c.tables, passed |-> c.passed]
    BY <1>3, <1>4
  <2> HIDE DEF c
  <2>2. [c EXCEPT !.tables[t].syms = syms]
          = [symbols |-> c.symbols, tables |-> [c.tables EXCEPT ![t].syms = syms],
             passed |-> c.passed]
    BY <2>1, TableExcept
  <2> QED BY <1>1, <1>4, <2>2
<1> QED BY <1>2, <1>5, <1>6 DEF Gained

LEMMA TableGains ==
  ASSUME NEW d, WellFormed(d), NEW t \in 1 .. Len(d.tables),
         NEW symbols \in Seq(Symbol), Len(d.symbols) <= Len(symbols),
         \A s \in 1 .. Len(d.symbols) : /\ symbols[s].name = d.symbols[s].name
                                        /\ symbols[s].cls = d.symbols[s].cls
                                        /\ symbols[s].argc = d.symbols[s].argc,
         NEW X \in SUBSET (1 .. Len(symbols)), NEW b \in BOOLEAN
  PROVE  AreGains(d, t, X, Gained(d, t, symbols, X, b))
<1> DEFINE e == Gained(d, t, symbols, X, b)
<1>0. e.symbols = symbols /\ e.passed = b /\ e.tables = [d.tables EXCEPT ![t].syms = @ \cup X]
  BY DEF Gained
<1>t. e = [symbols |-> e.symbols, tables |-> e.tables, passed |-> e.passed]
  BY DEF Gained
<1> HIDE DEF e
<1> DEFINE M == Len(d.tables)
           new == [parent |-> d.tables[t].parent, syms |-> d.tables[t].syms \cup X]
<1>1. /\ d.tables \in Seq(Table) /\ M \in Nat /\ M >= 1
      /\ d.symbols \in Seq(Symbol) /\ Len(d.symbols) \in Nat /\ Len(symbols) \in Nat
  BY DbParts
<1>2. d.tables[t] \in Table /\ d.tables[t].syms \subseteq 1 .. Len(d.symbols)
  BY TableParts
<1>3. [d.tables EXCEPT ![t].syms = @ \cup X] = [d.tables EXCEPT ![t] = new]
  <2>1. [d.tables[t] EXCEPT !.syms = @ \cup X] = new
    BY <1>2, TableRecord
  <2> HIDE DEF new
  <2> QED BY <2>1
<1>4. new \in Table
  <2>0. 1 .. Len(d.symbols) \subseteq Nat /\ 1 .. Len(symbols) \subseteq Nat
    OBVIOUS
  <2>1. d.tables[t].syms \cup X \subseteq Nat
    BY <1>2, <2>0
  <2>2. d.tables[t].parent \in Nat
    BY <1>2 DEF Table
  <2> QED BY <2>1, <2>2 DEF Table
<1>5. /\ e.tables \in Seq(Table)
      /\ Len(e.tables) = M
      /\ e.tables[t].parent = d.tables[t].parent
      /\ e.tables[t].syms = d.tables[t].syms \cup X
      /\ \A u \in 1 .. M : u # t => e.tables[u] = d.tables[u]
  <2>0. new.parent = d.tables[t].parent /\ new.syms = d.tables[t].syms \cup X
    OBVIOUS
  <2>1. e.tables = [d.tables EXCEPT ![t] = new]
    BY <1>0, <1>3
  <2> HIDE DEF new, M
  <2>2. [d.tables EXCEPT ![t] = new] \in Seq(Table)
    BY <1>1, <1>4, ExceptSeq
  <2>3. Len([d.tables EXCEPT ![t] = new]) = Len(d.tables)
    BY <1>1, <1>4, ExceptSeq
  <2>4. \A u \in 1 .. Len(d.tables) :
          [d.tables EXCEPT ![t] = new][u] = IF u = t THEN new ELSE d.tables[u]
    BY <1>1
  <2> QED BY <2>0, <2>1, <2>2, <2>3, <2>4 DEF M
<1> HIDE DEF new
<1>6. e.symbols = symbols /\ e.passed = b
  BY <1>0
<1>7. e \in Db
  BY <1>5, <1>6, <1>t DEF Db
<1> HIDE DEF M
<1>8. \A u \in 1 .. M : /\ e.tables[u].parent = d.tables[u].parent
                        /\ d.tables[u].syms \subseteq e.tables[u].syms
                        /\ e.tables[u].syms \subseteq 1 .. Len(symbols)
  <2> TAKE u \in 1 .. M
  <2>1. d.tables[u].syms \subseteq 1 .. Len(symbols)
    BY <1>1, TableParts DEF M
  <2>2. CASE u = t
    BY <2>1, <2>2, <1>5
  <2>3. CASE u # t
    BY <2>1, <2>3, <1>5
  <2> QED BY <2>2, <2>3
<1>9. WellFormed(e)
  <2>1. ASSUME NEW u \in 1 .. Len(e.tables)
        PROVE  /\ e.tables[u].parent \in 0 .. u - 1
               /\ e.tables[u].parent = 0 <=> u = 1
               /\ e.tables[u].syms \subseteq 1 .. Len(e.symbols)
    <3>1. u \in 1 .. Len(d.tables)
      BY <1>5 DEF M
    <3>2. d.tables[u].parent \in 0 .. u - 1 /\ (d.tables[u].parent = 0 <=> u = 1)
      BY <3>1, TableParts
    <3> QED BY <1>5, <1>6, <1>8, <3>1, <3>2 DEF M
  <2> QED BY <2>1, <1>7, <1>5, <1>1 DEF WellFormed
<1>10. Grows(d, e)
  BY <1>1, <1>5, <1>6, <1>8 DEF Grows, M
<1>11. ASSUME Unique(d), \A r \in X : \A s \in d.tables[t].syms \cup X :
                           symbols[r].name = symbols[s].name => r = s
       PROVE  Unique(e)
  <2> SUFFICES ASSUME NEW u \in 1 .. M, NEW r \in e.tables[u].syms, NEW s \in e.tables[u].syms,
                      symbols[r].name = symbols[s].name
               PROVE  r = s
    BY <1>5, <1>6 DEF Unique
  <2>1. ASSUME r \in d.tables[u].syms, s \in d.tables[u].syms PROVE r = s
    <3>1. r \in 1 .. Len(d.symbols) /\ s \in 1 .. Len(d.symbols)
      BY <2>1, TableParts DEF M
    <3> QED BY <2>1, <3>1, <1>11 DEF Unique, M
  <2>2. CASE u # t
    BY <2>1, <2>2, <1>5
  <2>3. CASE u = t
    BY <2>1, <2>3, <1>5, <1>11
  <2> QED BY <2>2, <2>3
<1> QED BY <1>5, <1>6, <1>9, <1>10, <1>11 DEF M, AreGains, e

\* The state of a symbol changes, or its variable or label is set.
LEMMA SymbolsChange ==
  ASSUME NEW d, WellFormed(d), NEW symbols \in Seq(Symbol), Len(symbols) = Len(d.symbols),
         \A s \in 1 .. Len(d.symbols) : /\ symbols[s].name = d.symbols[s].name
                                        /\ symbols[s].cls = d.symbols[s].cls
                                        /\ symbols[s].argc = d.symbols[s].argc,
         NEW b \in BOOLEAN,
         NEW e, e = [symbols |-> symbols, tables |-> d.tables, passed |-> b]
  PROVE  WellFormed(e) /\ Grows(d, e) /\ (Unique(d) => Unique(e))
<1>1. e.symbols = symbols /\ e.tables = d.tables /\ e.passed = b
  OBVIOUS
<1>2. d.tables \in Seq(Table) /\ Len(d.tables) \in Nat /\ Len(d.tables) >= 1 /\ Len(d.symbols) \in Nat
  BY DbParts
<1>3. e \in Db
  BY <1>1, <1>2 DEF Db
<1>4. WellFormed(e)
  BY <1>1, <1>2, <1>3 DEF WellFormed
<1>5. Grows(d, e)
  BY <1>1, <1>2 DEF Grows
<1>6. Unique(d) => Unique(e)
  <2> SUFFICES ASSUME Unique(d), NEW u \in 1 .. Len(d.tables),
                      NEW r \in d.tables[u].syms, NEW s \in d.tables[u].syms,
                      symbols[r].name = symbols[s].name
               PROVE  r = s
    BY <1>1 DEF Unique
  <2>1. r \in 1 .. Len(d.symbols) /\ s \in 1 .. Len(d.symbols)
    BY TableParts
  <2> QED BY <2>1 DEF Unique
<1> QED BY <1>4, <1>5, <1>6

\* A state of the tables with its symbol at s replaced.
LEMMA SymbolReplaced ==
  ASSUME NEW d, WellFormed(d), NEW s \in 1 .. Len(d.symbols), NEW state \in {"dec", "def"},
         NEW e, e = [d EXCEPT !.symbols[s].state = state]
  PROVE  /\ WellFormed(e) /\ Grows(d, e) /\ (Unique(d) => Unique(e))
         /\ Len(e.symbols) = Len(d.symbols) /\ e.tables = d.tables /\ e.passed = d.passed
         /\ e.symbols[s].state = state
         /\ \A r \in 1 .. Len(d.symbols) : r # s => e.symbols[r] = d.symbols[r]
<1> DEFINE new == [d.symbols[s] EXCEPT !.state = state]
           symbols == [d.symbols EXCEPT ![s] = new]
<1>1. /\ d.symbols \in Seq(Symbol) /\ Len(d.symbols) \in Nat /\ d.passed \in BOOLEAN
      /\ d = [symbols |-> d.symbols, tables |-> d.tables, passed |-> d.passed]
  BY DbParts
<1>2. e = [symbols |-> symbols, tables |-> d.tables, passed |-> d.passed]
  BY <1>1
<1>3. d.symbols[s] \in Symbol
  BY SymbolParts
<1>4. /\ new \in Symbol /\ new.name = d.symbols[s].name /\ new.cls = d.symbols[s].cls
      /\ new.argc = d.symbols[s].argc /\ new.state = state
  BY <1>3 DEF Symbol
<1> HIDE DEF new
<1>5. symbols \in Seq(Symbol) /\ Len(symbols) = Len(d.symbols)
  BY <1>1, <1>4, ExceptSeq
<1>6. \A r \in 1 .. Len(d.symbols) : symbols[r] = IF r = s THEN new ELSE d.symbols[r]
  BY <1>1
<1> HIDE DEF symbols
<1>7. \A r \in 1 .. Len(d.symbols) : /\ symbols[r].name = d.symbols[r].name
                                     /\ symbols[r].cls = d.symbols[r].cls
                                     /\ symbols[r].argc = d.symbols[r].argc
  BY <1>4, <1>6
<1>8. WellFormed(e) /\ Grows(d, e) /\ (Unique(d) => Unique(e))
  BY <1>1, <1>2, <1>5, <1>7, SymbolsChange
<1> QED BY <1>2, <1>4, <1>5, <1>6, <1>8

LEMMA Complained ==
  ASSUME NEW d, WellFormed(d), NEW cond \in BOOLEAN
  PROVE  /\ WellFormed(Complain(d, cond)) /\ Grows(d, Complain(d, cond))
         /\ Unique(d) => Unique(Complain(d, cond))
         /\ Complain(d, cond).symbols = d.symbols
         /\ Complain(d, cond).tables = d.tables
         /\ Complain(d, cond).passed = (d.passed /\ ~cond)
<1>1. /\ d.symbols \in Seq(Symbol) /\ d.passed \in BOOLEAN
      /\ d = [symbols |-> d.symbols, tables |-> d.tables, passed |-> d.passed]
  BY DbParts
<1> DEFINE b == d.passed /\ ~cond
<1>2. b \in BOOLEAN
  OBVIOUS
<1> HIDE DEF b
<1>3. PICK e : e = [symbols |-> d.symbols, tables |-> d.tables, passed |-> b]
  OBVIOUS
<1>4. Complain(d, cond) = e
  BY <1>1, <1>3 DEF Complain, b
<1>5. WellFormed(e) /\ Grows(d, e) /\ (Unique(d) => Unique(e))
  BY <1>1, <1>2, <1>3, SymbolsChange
<1>6. e.symbols = d.symbols /\ e.tables = d.tables /\ e.passed = b
  BY <1>3
<1> QED BY <1>4, <1>5, <1>6 DEF b

LEMMA NewTable ==
  ASSUME NEW d, WellFormed(d), NEW parent \in 1 .. Len(d.tables),
         NEW e, e = new_symbol_table(d, parent)
  PROVE  /\ WellFormed(e) /\ Grows(d, e) /\ (Unique(d) => Unique(e))
         /\ e.symbols = d.symbols /\ e.passed = d.passed
         /\ Len(e.tables) = Len(d.tables) + 1
         /\ e.tables[Len(d.tables) + 1].parent = parent
         /\ e.tables[Len(d.tables) + 1].syms = {}
         /\ \A t \in 1 .. Len(d.tables) : e.tables[t] = d.tables[t]
<1> DEFINE M == Len(d.tables)
           new == [parent |-> parent, syms |-> {}]
           tables == Append(d.tables, new)
<1>1. /\ d.tables \in Seq(Table) /\ M \in Nat /\ M >= 1
      /\ d.symbols \in Seq(Symbol) /\ Len(d.symbols) \in Nat /\ d.passed \in BOOLEAN
      /\ d = [symbols |-> d.symbols, tables |-> d.tables, passed |-> d.passed]
  BY DbParts
<1>2. new \in Table /\ new.parent = parent /\ new.syms = {}
  BY <1>1 DEF Table
<1>3. e = [symbols |-> d.symbols, tables |-> tables, passed |-> d.passed]
  BY <1>1 DEF new_symbol_table
<1> HIDE DEF new
<1>4. /\ tables \in Seq(Table) /\ Len(tables) = M + 1
      /\ \A t \in 1 .. M : tables[t] = d.tables[t]
      /\ tables[M + 1] = new
  BY <1>1, <1>2, AppendProperties
<1> HIDE DEF tables
<1>5. e.symbols = d.symbols /\ e.tables = tables /\ e.passed = d.passed
  BY <1>3
<1>6. e \in Db
  BY <1>1, <1>3, <1>4 DEF Db
<1> HIDE DEF M
<1>7. ASSUME NEW t \in 1 .. Len(e.tables)
      PROVE  /\ e.tables[t].parent \in 0 .. t - 1
             /\ e.tables[t].parent = 0 <=> t = 1
             /\ e.tables[t].syms \subseteq 1 .. Len(e.symbols)
  <2>1. CASE t = M + 1
    BY <2>1, <1>1, <1>2, <1>4, <1>5 DEF M
  <2>2. CASE t \in 1 .. M
    BY <2>2, <1>4, <1>5, TableParts DEF M
  <2> QED BY <2>1, <2>2, <1>1, <1>4, <1>5
<1>8. WellFormed(e)
  BY <1>1, <1>4, <1>5, <1>6, <1>7 DEF WellFormed
<1>9. Grows(d, e)
  BY <1>1, <1>4, <1>5 DEF Grows, M
<1>10. Unique(d) => Unique(e)
  <2> SUFFICES ASSUME Unique(d), NEW t \in 1 .. M + 1, NEW r \in tables[t].syms, NEW s \in tables[t].syms,
                      d.symbols[r].name = d.symbols[s].name
               PROVE  r = s
    BY <1>4, <1>5 DEF Unique
  <2>1. CASE t = M + 1
    BY <2>1, <1>2, <1>4
  <2>2. CASE t \in 1 .. M
    BY <2>2, <1>4 DEF Unique, M
  <2> QED BY <2>1, <2>2, <1>1
<1> QED BY <1>2, <1>4, <1>5, <1>8, <1>9, <1>10 DEF M

\* Whether Declare puts the i-th name into the table.
Free(d, t, names, i) ==
  /\ st_findonly(d, t, names[i]) = None
  /\ ~IsA(d, st_find(d, t, names[i]), "type")
  /\ \A j \in 1 .. i - 1 : names[j] # names[i]

LEMMA NewSymbols ==
  ASSUME NEW name \in Names, NEW cls \in Values \cup {"type", "func"}, NEW argc \in Nat,
         NEW state \in {"dec", "def"}
  PROVE  /\ NewSymbol(name, cls, argc, state) \in Symbol
         /\ NewSymbol(name, cls, argc, state).name = name
         /\ NewSymbol(name, cls, argc, state).cls = cls
         /\ NewSymbol(name, cls, argc, state).argc = argc
         /\ NewSymbol(name, cls, argc, state).state = state
  BY DEF NewSymbol, Symbol

\* Every name gets a symbol; the symbols of the names that are free go into
\* table t, all of them unless an error is reported.
AreDeclared(d, e, t, n, names, cls) ==
  /\ WellFormed(e) /\ Grows(d, e) /\ (Unique(d) => Unique(e))
  /\ Len(e.symbols) = Len(d.symbols) + n
  /\ \A s \in 1 .. Len(d.symbols) : e.symbols[s] = d.symbols[s]
  /\ \A i \in 1 .. n : e.symbols[Len(d.symbols) + i] = NewSymbol(names[i], cls, 0, "dec")
  /\ Len(e.tables) = Len(d.tables)
  /\ \A u \in 1 .. Len(d.tables) : u # t => e.tables[u] = d.tables[u]
  /\ \A s \in e.tables[t].syms :
       \/ s \in d.tables[t].syms
       \/ \E i \in 1 .. n : s = Len(d.symbols) + i /\ Free(d, t, names, i)
  /\ e.passed => /\ d.passed
                 /\ \A i \in 1 .. n : Len(d.symbols) + i \in e.tables[t].syms

LEMMA Declared ==
  ASSUME NEW d, WellFormed(d), NEW t \in 1 .. Len(d.tables),
         NEW n \in Nat, NEW names \in [1 .. n -> Names], NEW cls \in Values
  PROVE  AreDeclared(d, Declare(d, t, names, cls), t, n, names, cls)
<1> DEFINE N == Len(d.symbols)
           new == [i \in 1 .. n |-> NewSymbol(names[i], cls, 0, "dec")]
           symbols == d.symbols \o new
           X == {N + i : i \in {j \in 1 .. n : Free(d, t, names, j)}}
           passed == d.passed /\ \A i \in 1 .. n : Free(d, t, names, i)
           e == Declare(d, t, names, cls)
<1>1. /\ d.symbols \in Seq(Symbol) /\ N \in Nat /\ d.passed \in BOOLEAN
      /\ Len(d.tables) \in Nat
  BY DbParts
<1>2. DOMAIN names = 1 .. n
  OBVIOUS
<1>3. e = Gained(d, t, symbols, X, passed)
  BY <1>2 DEF Declare, Free, Gained
<1> HIDE DEF e
<1>4. \A i \in 1 .. n : /\ new[i] = NewSymbol(names[i], cls, 0, "dec")
                        /\ new[i] \in Symbol /\ new[i].name = names[i]
  BY NewSymbols
<1>5. new \in Seq(Symbol) /\ Len(new) = n
  <2>1. new \in [1 .. n -> Symbol]
    BY <1>4
  <2> HIDE DEF new
  <2> QED BY <2>1
<1> HIDE DEF new
<1>6. /\ symbols \in Seq(Symbol) /\ Len(symbols) = N + n
      /\ \A s \in 1 .. N : symbols[s] = d.symbols[s]
      /\ \A i \in 1 .. n : symbols[N + i] = new[i]
  <2> DEFINE p == d.symbols
  <2>1. p \in Seq(Symbol) /\ new \in Seq(Symbol)
    BY <1>1, <1>5
  <2> HIDE DEF p
  <2>2. PICK r : r = p \o new
    OBVIOUS
  <2>3. /\ r \in Seq(Symbol) /\ Len(r) = Len(p) + Len(new)
        /\ \A j \in 1 .. Len(p) : j \in 1 .. Len(r) /\ r[j] = p[j]
        /\ \A j \in 1 .. Len(new) : Len(p) + j \in 1 .. Len(r) /\ r[Len(p) + j] = new[j]
    BY <2>1, <2>2, ConcatElements
  <2> QED BY <2>2, <2>3, <1>5 DEF p
<1> HIDE DEF symbols
<1>7. X \in SUBSET (1 .. Len(symbols)) /\ Len(d.symbols) <= Len(symbols)
  BY <1>1, <1>6
<1>8. passed \in BOOLEAN
  OBVIOUS
<1>9. ASSUME NEW r \in X, NEW s \in d.tables[t].syms \cup X, symbols[r].name = symbols[s].name
      PROVE  r = s
  <2>1. PICK i \in 1 .. n : r = N + i /\ Free(d, t, names, i)
    OBVIOUS
  <2>2. symbols[r].name = names[i]
    <3> HIDE DEF N, X, passed
    <3> QED BY <2>1, <1>4, <1>6
  <2>3. CASE s \in d.tables[t].syms
    <3>1. s \in 1 .. N
      BY <2>3, TableParts
    <3>2. d.symbols[s].name # names[i]
      BY <2>1, <2>3, FindOnly DEF Free
    <3> QED BY <2>2, <3>1, <3>2, <1>6, <1>9
  <2>4. CASE s \in X
    <3>1. PICK j \in 1 .. n : s = N + j /\ Free(d, t, names, j)
      BY <2>4
    <3>2. symbols[s].name = names[j]
      <4> HIDE DEF N, X, passed
      <4> QED BY <3>1, <1>4, <1>6
    <3>3. names[i] = names[j]
      BY <2>2, <3>2, <1>9
    <3>4. ~(i < j) /\ ~(j < i)
      BY <2>1, <3>1, <3>3 DEF Free
    <3> QED BY <2>1, <3>1, <3>4
  <2> QED BY <2>3, <2>4
<1> HIDE DEF X, passed
<1>10. \A s \in 1 .. Len(d.symbols) : /\ symbols[s].name = d.symbols[s].name
                                      /\ symbols[s].cls = d.symbols[s].cls
                                      /\ symbols[s].argc = d.symbols[s].argc
  BY <1>6
<1>11. AreGains(d, t, X, e)
  BY <1>3, <1>6, <1>7, <1>8, <1>10, TableGains
<1>12. e.symbols = symbols /\ e.passed = passed
  BY <1>3, GainedParts
<1>13. Unique(d) => Unique(e)
  BY <1>9, <1>11, <1>12 DEF AreGains
<1>14. e.passed => d.passed /\ \A i \in 1 .. n : Len(d.symbols) + i \in e.tables[t].syms
  BY <1>11, <1>12 DEF passed, X, AreGains
<1>15. \A s \in e.tables[t].syms :
         \/ s \in d.tables[t].syms
         \/ \E i \in 1 .. n : s = Len(d.symbols) + i /\ Free(d, t, names, i)
  BY <1>11 DEF X, AreGains
<1>16. AreDeclared(d, e, t, n, names, cls)
  BY <1>4, <1>6, <1>11, <1>12, <1>13, <1>14, <1>15 DEF AreGains, AreDeclared
<1> QED BY <1>16 DEF e

\* A symbol has been created and put into table t, which had none of its name.
IsAdded(d, e, t, sym) ==
  LET N == Len(d.symbols)
  IN /\ WellFormed(e) /\ Grows(d, e) /\ (Unique(d) => Unique(e))
     /\ e.passed = d.passed
     /\ Len(e.symbols) = N + 1
     /\ \A s \in 1 .. N : e.symbols[s] = d.symbols[s]
     /\ e.symbols[N + 1] = sym
     /\ Len(e.tables) = Len(d.tables)
     /\ e.tables[t].syms = d.tables[t].syms \cup {N + 1}
     /\ \A u \in 1 .. Len(d.tables) : u # t => e.tables[u] = d.tables[u]

LEMMA SymbolAdded ==
  ASSUME NEW d, WellFormed(d), NEW t \in 1 .. Len(d.tables), NEW sym \in Symbol,
         st_findonly(d, t, sym.name) = None
  PROVE  IsAdded(d, [d EXCEPT !.symbols = Append(@, sym),
                              !.tables[t].syms = @ \cup {Len(d.symbols) + 1}], t, sym)
<1> DEFINE N == Len(d.symbols)
           symbols == Append(d.symbols, sym)
           e == Gained(d, t, symbols, {N + 1}, d.passed)
<1>1. /\ d.symbols \in Seq(Symbol) /\ N \in Nat /\ d.passed \in BOOLEAN
      /\ d = [symbols |-> d.symbols, tables |-> d.tables, passed |-> d.passed]
  BY DbParts
<1>2. [d EXCEPT !.symbols = symbols, !.tables[t].syms = @ \cup {N + 1}] = e
  <2> HIDE DEF symbols
  <2> QED BY <1>1, GainedExcept
<1>3. /\ symbols \in Seq(Symbol) /\ Len(symbols) = N + 1
      /\ \A r \in 1 .. N : symbols[r] = d.symbols[r]
      /\ symbols[N + 1] = sym
  BY <1>1, AppendProperties
<1> HIDE DEF symbols
<1>4. AreGains(d, t, {N + 1}, e)
  <2>1. \A r \in 1 .. N : /\ symbols[r].name = d.symbols[r].name
                          /\ symbols[r].cls = d.symbols[r].cls
                          /\ symbols[r].argc = d.symbols[r].argc
    BY <1>3
  <2>2. {N + 1} \in SUBSET (1 .. Len(symbols)) /\ N <= Len(symbols)
    BY <1>1, <1>3
  <2> QED BY <1>1, <1>3, <2>1, <2>2, TableGains
<1>5. e.symbols = symbols /\ e.passed = d.passed
  BY GainedParts
<1> HIDE DEF e
<1>6. Unique(d) => Unique(e)
  <2> SUFFICES ASSUME NEW r \in d.tables[t].syms, symbols[N + 1].name = symbols[r].name
               PROVE  FALSE
    BY <1>4, <1>5 DEF AreGains
  <2>1. r \in 1 .. N
    BY TableParts
  <2>2. d.symbols[r].name # sym.name
    BY FindOnly
  <2> QED BY <1>3, <2>1, <2>2
<1>7. IsAdded(d, e, t, sym)
  BY <1>1, <1>3, <1>4, <1>5, <1>6 DEF AreGains, IsAdded
<1> QED BY <1>2, <1>7 DEF symbols

\* The specifiers of a struct, as the grammar makes them, and what may become
\* of them.
StructSpec == [tag : TagNames, tp : {"null", "struct"}]
Spec0 == {NoSpec, IntSpec} \cup StructSpec

\* All that a struct specifier does to the tables: a tag may come into the
\* outermost one, or its state may change.
OnlyTags(d, e) ==
  /\ WellFormed(e) /\ Grows(d, e) /\ (Unique(d) => Unique(e))
  /\ e.passed => d.passed
  /\ Len(e.tables) = Len(d.tables)
  /\ \A t \in 2 .. Len(d.tables) : e.tables[t] = d.tables[t]
  /\ \A s \in 1 .. Len(d.symbols) : d.symbols[s].cls # "type" => e.symbols[s] = d.symbols[s]
  /\ \A s \in Len(d.symbols) + 1 .. Len(e.symbols) : e.symbols[s].cls = "type"
  /\ \A s \in e.tables[1].syms : s \notin d.tables[1].syms =>
       s > Len(d.symbols) /\ st_findonly(d, 1, e.symbols[s].name) = None

LEMMA OnlyTagsReflexive == ASSUME NEW d, WellFormed(d) PROVE OnlyTags(d, d)
  BY GrowsReflexive, DbParts DEF OnlyTags

LEMMA OnlyTagsComplain ==
  ASSUME NEW d, WellFormed(d), NEW cond \in BOOLEAN
  PROVE  OnlyTags(d, Complain(d, cond))
<1> DEFINE e == Complain(d, cond)
<1>1. Len(d.symbols) \in Nat /\ Len(d.tables) \in Nat
  BY DbParts
<1>2. /\ WellFormed(e) /\ Grows(d, e) /\ (Unique(d) => Unique(e))
      /\ e.symbols = d.symbols /\ e.tables = d.tables
      /\ e.passed => d.passed
  BY Complained
<1> HIDE DEF e
<1>3. OnlyTags(d, e)
  BY <1>1, <1>2 DEF OnlyTags
<1> QED BY <1>3 DEF e

LEMMA CheckCreated ==
  ASSUME NEW d, WellFormed(d), NEW spec \in StructSpec
  PROVE  /\ OnlyTags(d, check_create(d, spec).db)
         /\ check_create(d, spec).spec \in [tag : TagNames, tp : {"null", "struct", "never"}]
<1> DEFINE s == st_findonly(d, 1, spec.tag)
           defines == spec.tp # "null"
           N == Len(d.symbols)
<1>1. /\ d.symbols \in Seq(Symbol) /\ N \in Nat /\ d.passed \in BOOLEAN
      /\ Len(d.tables) \in Nat /\ Len(d.tables) >= 1 /\ 1 \in 1 .. Len(d.tables)
      /\ d = [symbols |-> d.symbols, tables |-> d.tables, passed |-> d.passed]
  BY DbParts
<1>2. /\ spec.tag \in TagNames /\ spec.tag \in Names /\ spec.tp \in {"null", "struct"}
      /\ spec \in [tag : TagNames, tp : {"null", "struct", "never"}]
      /\ [spec EXCEPT !.tp = "never"] \in [tag : TagNames, tp : {"null", "struct", "never"}]
  BY DEF StructSpec, Names
<1>3. CASE s = None
  <2> DEFINE sym == NewSymbol(spec.tag, "type", 0, IF defines THEN "def" ELSE "dec")
             e == [d EXCEPT !.symbols = Append(@, sym), !.tables[1].syms = @ \cup {N + 1}]
  <2>1. check_create(d, spec) = [db |-> e, spec |-> spec]
    BY <1>3 DEF check_create
  <2>2. sym \in Symbol /\ sym.name = spec.tag /\ sym.cls = "type"
    BY <1>2, NewSymbols
  <2> HIDE DEF sym
  <2>3. IsAdded(d, e, 1, sym)
    BY <1>1, <1>3, <2>2, SymbolAdded
  <2> HIDE DEF e
  <2>4. \A r \in e.tables[1].syms : r \notin d.tables[1].syms =>
          r > N /\ st_findonly(d, 1, e.symbols[r].name) = None
    BY <1>1, <1>3, <2>2, <2>3 DEF IsAdded
  <2>5. \A r \in N + 1 .. Len(e.symbols) : e.symbols[r].cls = "type"
    BY <1>1, <2>2, <2>3 DEF IsAdded
  <2>6. OnlyTags(d, e)
    BY <1>1, <2>3, <2>4, <2>5 DEF OnlyTags, IsAdded
  <2> QED BY <1>2, <2>1, <2>6
<1>4. CASE s # None /\ ~IsA(d, s, "type")
  <2>1. check_create(d, spec) = [db |-> Complain(d, TRUE), spec |-> [spec EXCEPT !.tp = "never"]]
    BY <1>4 DEF check_create
  <2>2. OnlyTags(d, Complain(d, TRUE))
    BY OnlyTagsComplain
  <2>3. /\ check_create(d, spec).db = Complain(d, TRUE)
        /\ check_create(d, spec).spec = [spec EXCEPT !.tp = "never"]
    BY <2>1
  <2> QED BY <1>2, <2>2, <2>3
<1>5. CASE s # None /\ IsA(d, s, "type")
  <2>1. s \in 1 .. N
    BY <1>1, <1>5, FindOnly
  <2>2. CASE d.symbols[s].state = "def"
    <3>1. check_create(d, spec) = [db |-> Complain(d, defines), spec |-> spec]
      BY <1>5, <2>2 DEF check_create
    <3>2. OnlyTags(d, Complain(d, defines))
      BY OnlyTagsComplain
    <3> QED BY <1>2, <3>1, <3>2
  <2>3. CASE d.symbols[s].state # "def"
    <3> DEFINE state == IF defines THEN "def" ELSE d.symbols[s].state
               e == [d EXCEPT !.symbols[s].state = state]
    <3>1. check_create(d, spec) = [db |-> e, spec |-> spec]
      BY <1>5, <2>3 DEF check_create
    <3>2. state \in {"dec", "def"}
      BY <2>1, SymbolParts
    <3> HIDE DEF state
    <3>3. /\ WellFormed(e) /\ Grows(d, e) /\ (Unique(d) => Unique(e))
          /\ Len(e.symbols) = N /\ e.tables = d.tables /\ e.passed = d.passed
          /\ \A r \in 1 .. N : r # s => e.symbols[r] = d.symbols[r]
      BY <2>1, <3>2, SymbolReplaced
    <3> HIDE DEF e
    <3>4. d.symbols[s].cls = "type"
      BY <1>5 DEF IsA
    <3>5. OnlyTags(d, e)
      <4> HIDE DEF s
      <4> QED BY <1>1, <3>3, <3>4 DEF OnlyTags
    <3> QED BY <1>2, <3>1, <3>5
  <2> QED BY <2>2, <2>3
<1> QED BY <1>3, <1>4, <1>5

LEMMA OnlyTagsThenComplain ==
  ASSUME NEW d, NEW e, WellFormed(d), OnlyTags(d, e), NEW cond \in BOOLEAN
  PROVE  OnlyTags(d, Complain(e, cond))
<1> DEFINE f == Complain(e, cond)
<1>1. /\ Len(d.symbols) \in Nat /\ Len(d.tables) \in Nat
      /\ Len(e.symbols) \in Nat /\ Len(e.tables) \in Nat
  BY DbParts DEF OnlyTags
<1>2. /\ WellFormed(f) /\ Grows(e, f) /\ (Unique(e) => Unique(f))
      /\ f.symbols = e.symbols /\ f.tables = e.tables
      /\ f.passed => e.passed
  <2>1. WellFormed(e)
    BY DEF OnlyTags
  <2> QED BY <2>1, Complained
<1> HIDE DEF f
<1>3. Grows(d, f)
  BY <1>2, GrowsTransitive DEF OnlyTags
<1>4. OnlyTags(d, f)
  BY <1>1, <1>2, <1>3 DEF OnlyTags
<1> QED BY <1>4 DEF f

\* A struct specifier, completed: its type is known, or NEVER after an error.
LEMMA SpecifiedTags ==
  ASSUME NEW d, WellFormed(d), NEW t, NEW spec \in Spec0, spec # NoSpec
  PROVE  /\ OnlyTags(d, Specified(d, t, spec).db)
         /\ Specified(d, t, spec).spec.tp \in Values
         /\ spec = IntSpec => Specified(d, t, spec) = [db |-> d, spec |-> spec]
<1>1. CASE spec = IntSpec
  <2>1. ~IsStruct(spec) /\ spec.tp = "int"
    BY <1>1 DEF IsStruct, IntSpec
  <2>2. Specified(d, t, spec) = [db |-> d, spec |-> spec]
    BY <2>1 DEF Specified
  <2> QED BY <2>1, <2>2, OnlyTagsReflexive DEF Values
<1>2. CASE spec \in StructSpec
  <2>1. IsStruct(spec)
    BY <1>2, BoundsAssumption DEF IsStruct, StructSpec
  <2>2. spec # IntSpec
    BY <2>1 DEF IsStruct, IntSpec
  <2> DEFINE c == check_create(d, spec)
             r == resolve(c.db, t, c.spec)
  <2>3. Specified(d, t, spec) = r
    BY <2>1 DEF Specified
  <2>4. OnlyTags(d, c.db) /\ c.spec \in [tag : TagNames, tp : {"null", "struct", "never"}]
    BY <1>2, CheckCreated
  <2> HIDE DEF c
  <2>5. CASE c.spec.tp # "null"
    <3>1. r = [db |-> c.db, spec |-> c.spec]
      BY <2>5 DEF resolve
    <3>2. c.spec.tp \in Values
      BY <2>4, <2>5 DEF Values
    <3> QED BY <2>2, <2>3, <2>4, <3>1, <3>2
  <2>6. CASE c.spec.tp = "null"
    <3> DEFINE s == st_find(c.db, t, c.spec.tag)
               cond == ~(IsA(c.db, s, "type") /\ c.db.symbols[s].state = "def")
    <3>1. r = [db |-> Complain(c.db, cond), spec |-> [c.spec EXCEPT !.tp = "struct"]]
      BY <2>6 DEF resolve
    <3>2. cond \in BOOLEAN
      OBVIOUS
    <3> HIDE DEF cond
    <3>3. OnlyTags(d, Complain(c.db, cond))
      BY <2>4, <3>2, OnlyTagsThenComplain
    <3>4. [c.spec EXCEPT !.tp = "struct"].tp = "struct"
      BY <2>4
    <3>5. r.db = Complain(c.db, cond) /\ r.spec = [c.spec EXCEPT !.tp = "struct"]
      BY <3>1
    <3> HIDE DEF r
    <3> QED BY <2>2, <2>3, <3>3, <3>4, <3>5 DEF Values
  <2> QED BY <2>5, <2>6
<1> QED BY <1>1, <1>2 DEF Spec0

\* A function meets the outermost table: it comes into it, it gives its state
\* to the symbol that is there, or an error is reported.
Registers(d, e, s) == LET old == st_findonly(d, 1, d.symbols[s].name) IN
  \/ /\ old = None
     /\ e.symbols = d.symbols
     /\ e.tables[1].syms = d.tables[1].syms \cup {s}
     /\ e.passed = d.passed
  \/ /\ e.symbols = d.symbols
     /\ e.tables = d.tables
     /\ e.passed = FALSE
  \/ /\ old # None
     /\ d.symbols[old].cls = "func" /\ d.symbols[old].state = "dec"
     /\ d.symbols[old].argc = d.symbols[s].argc
     /\ e.symbols[old].state = d.symbols[s].state
     /\ \A r \in 1 .. Len(d.symbols) : r # old => e.symbols[r] = d.symbols[r]
     /\ e.tables = d.tables
     /\ e.passed = d.passed

IsRegistered(d, e, s) ==
  /\ WellFormed(e) /\ Grows(d, e) /\ (Unique(d) => Unique(e))
  /\ e.passed => d.passed
  /\ Len(e.symbols) = Len(d.symbols)
  /\ Len(e.tables) = Len(d.tables)
  /\ \A t \in 2 .. Len(d.tables) : e.tables[t] = d.tables[t]
  /\ Registers(d, e, s)

LEMMA Registered ==
  ASSUME NEW d, WellFormed(d), NEW s \in 1 .. Len(d.symbols)
  PROVE  IsRegistered(d, Register(d, s), s)
<1> DEFINE e == Register(d, s)
           sym == d.symbols[s]
           old == st_findonly(d, 1, sym.name)
           was == d.symbols[old]
           bad == was.cls # "func" \/ was.state = "def" \/ was.argc # sym.argc
<1>1. /\ d.symbols \in Seq(Symbol) /\ Len(d.symbols) \in Nat /\ d.passed \in BOOLEAN
      /\ Len(d.tables) \in Nat /\ Len(d.tables) >= 1 /\ 1 \in 1 .. Len(d.tables)
      /\ d = [symbols |-> d.symbols, tables |-> d.tables, passed |-> d.passed]
  BY DbParts
<1> SUFFICES IsRegistered(d, e, s)
  OBVIOUS
<1>2. CASE old = None
  <2>1. e = [d EXCEPT !.tables[1].syms = @ \cup {s}]
    BY <1>2 DEF Register
  <2>2. e = Gained(d, 1, d.symbols, {s}, d.passed)
    BY <1>1, <2>1, GainedExcept
  <2>3. AreGains(d, 1, {s}, e)
    BY <1>1, <2>2, TableGains
  <2>4. e.symbols = d.symbols /\ e.passed = d.passed
    BY <2>2, GainedParts
  <2> HIDE DEF e
  <2>5. \A r \in d.tables[1].syms : d.symbols[r].name # sym.name
    BY <1>1, <1>2, FindOnly
  <2>6. Unique(d) => Unique(e)
    BY <2>3, <2>4, <2>5 DEF AreGains
  <2>7. Registers(d, e, s)
    BY <1>2, <2>3, <2>4 DEF AreGains, Registers
  <2> QED BY <1>1, <2>3, <2>4, <2>6, <2>7 DEF AreGains, IsRegistered
<1>3. CASE old # None /\ bad
  <2>1. e = Complain(d, TRUE)
    BY <1>3 DEF Register
  <2>2. /\ WellFormed(e) /\ Grows(d, e) /\ (Unique(d) => Unique(e))
        /\ e.symbols = d.symbols /\ e.tables = d.tables /\ e.passed = FALSE
    <3>1. TRUE \in BOOLEAN
      OBVIOUS
    <3>2. Complain(d, TRUE).passed = FALSE
      BY <1>1 DEF Complain
    <3>3. /\ WellFormed(Complain(d, TRUE)) /\ Grows(d, Complain(d, TRUE))
          /\ Unique(d) => Unique(Complain(d, TRUE))
          /\ Complain(d, TRUE).symbols = d.symbols
          /\ Complain(d, TRUE).tables = d.tables
      BY <3>1, Complained
    <3> QED BY <2>1, <3>2, <3>3
  <2> HIDE DEF e
  <2>3. Registers(d, e, s)
    BY <1>3, <2>2 DEF Registers
  <2> QED BY <1>1, <2>2, <2>3 DEF IsRegistered
<1>4. CASE old # None /\ ~bad
  <2>1. e = [d EXCEPT !.symbols[old].state = sym.state]
    BY <1>4 DEF Register
  <2>2. old \in 1 .. Len(d.symbols) /\ sym.state \in {"dec", "def"} /\ was.state \in {"dec", "def"}
    BY <1>1, <1>4, FindOnly, SymbolParts
  <2>3. /\ WellFormed(e) /\ Grows(d, e) /\ (Unique(d) => Unique(e))
        /\ Len(e.symbols) = Len(d.symbols) /\ e.tables = d.tables /\ e.passed = d.passed
        /\ e.symbols[old].state = sym.state
        /\ \A r \in 1 .. Len(d.symbols) : r # old => e.symbols[r] = d.symbols[r]
    <3> HIDE DEF e, old, sym
    <3> QED BY <2>1, <2>2, SymbolReplaced
  <2> HIDE DEF e
  <2>4. Registers(d, e, s)
    BY <1>4, <2>2, <2>3 DEF Registers
  <2> QED BY <1>1, <2>3, <2>4 DEF IsRegistered
<1> QED BY <1>2, <1>3, <1>4

-----------------------------------------------------------------------------
(* Lookups.  st_find and Enclosing go from a table to its parent: they are *)
(* functions by recursion on the number of the table.                      *)

LEMMA FindEquation ==
  ASSUME NEW d, WellFormed(d), NEW name
  PROVE  \A t \in 0 .. Len(d.tables) :
           st_find(d, t, name) =
             IF t = 0 THEN None
             ELSE IF st_findonly(d, t, name) # None THEN st_findonly(d, t, name)
             ELSE st_find(d, d.tables[t].parent, name)
<1> DEFINE n == Len(d.tables)
           own(u) == st_findonly(d, u, name)
           parent(u) == d.tables[u].parent
           body(f, u) == IF u = 0 THEN None ELSE IF own(u) # None THEN own(u) ELSE f[parent(u)]
           Has == {k \in Nat : k <= n => \E f : f = [u \in 0 .. k |-> body(f, u)]}
<1>n. n \in Nat /\ \A u \in 1 .. n : parent(u) \in 0 .. u - 1
  BY DbParts, TableParts
<1>1. ASSUME NEW k \in Nat, \A m \in Nat : m < k => m \in Has
      PROVE  k \in Has
  <2> SUFFICES ASSUME k <= n PROVE \E f : f = [u \in 0 .. k |-> body(f, u)]
    OBVIOUS
  <2>1. CASE k = 0
    <3> WITNESS [u \in 0 .. 0 |-> None]
    <3> QED BY <2>1
  <2>2. CASE k # 0
    <3>1. PICK g : g = [u \in 0 .. k - 1 |-> body(g, u)]
      <4>1. k - 1 \in Has /\ k - 1 <= n BY <1>1, <2>2, <1>n
      <4> QED BY <4>1
    <3> DEFINE h == [u \in 0 .. k |-> IF u < k THEN g[u] ELSE body(g, k)]
    <3> HIDE DEF own, parent, n
    <3>2. \A u \in 0 .. k : h[u] = body(h, u)
      BY <3>1, <1>n, <2>2
    <3>3. h = [u \in 0 .. k |-> body(h, u)]
      BY <3>2
    <3> QED BY <3>3
  <2> QED BY <2>1, <2>2
<1>2. \E f : f = [u \in 0 .. n |-> body(f, u)]
  <2>1. n \in Has
    <3> HIDE DEF Has, n
    <3> QED BY <1>1, <1>n, SetInduction
  <2> QED BY <2>1
<1> DEFINE find == CHOOSE f : f = [u \in 0 .. n |-> body(f, u)]
<1>3. find = [u \in 0 .. n |-> body(find, u)]
  BY <1>2
<1>4. \A t : st_find(d, t, name) = find[t]
  BY DEF st_find
<1> QED
  <2> HIDE DEF find, own, parent
  <2>1. \A t \in 0 .. n : find[t] = body(find, t)
    BY <1>3
  <2> QED BY <2>1, <1>4 DEF own, parent

LEMMA EnclosingEquation ==
  ASSUME NEW d, WellFormed(d)
  PROVE  \A t \in 0 .. Len(d.tables) :
           Enclosing(d, t) = IF t = 0 THEN {} ELSE {t} \cup Enclosing(d, d.tables[t].parent)
<1> DEFINE n == Len(d.tables)
           parent(u) == d.tables[u].parent
           body(f, u) == IF u = 0 THEN {} ELSE {u} \cup f[parent(u)]
           Has == {k \in Nat : k <= n => \E f : f = [u \in 0 .. k |-> body(f, u)]}
<1>n. n \in Nat /\ \A u \in 1 .. n : parent(u) \in 0 .. u - 1
  BY DbParts, TableParts
<1>1. ASSUME NEW k \in Nat, \A m \in Nat : m < k => m \in Has
      PROVE  k \in Has
  <2> SUFFICES ASSUME k <= n PROVE \E f : f = [u \in 0 .. k |-> body(f, u)]
    OBVIOUS
  <2>1. CASE k = 0
    <3> WITNESS [u \in 0 .. 0 |-> {}]
    <3> QED BY <2>1
  <2>2. CASE k # 0
    <3>1. PICK g : g = [u \in 0 .. k - 1 |-> body(g, u)]
      <4>1. k - 1 \in Nat /\ k - 1 < k /\ k - 1 <= n
        BY <2>2, <1>n
      <4>2. k - 1 \in Has
        <5> HIDE DEF Has
        <5> QED BY <1>1, <4>1
      <4> QED BY <4>1, <4>2
    <3> DEFINE h == [u \in 0 .. k |-> IF u < k THEN g[u] ELSE body(g, k)]
    <3> HIDE DEF parent, n
    <3>2. ASSUME NEW u \in 0 .. k PROVE h[u] = body(h, u)
      <4>1. CASE u = 0
        BY <3>1, <2>2, <4>1
      <4>2. CASE u # 0
        <5>1. parent(u) \in 0 .. k - 1 /\ parent(u) < u
          BY <1>n, <4>2
        <5>2. h[parent(u)] = g[parent(u)]
          BY <5>1
        <5>3. CASE u < k
          <6>1. h[u] = g[u] /\ u \in 0 .. k - 1
            BY <5>3
          <6>2. g[u] = body(g, u)
            BY <3>1, <6>1
          <6> HIDE DEF h
          <6> QED BY <4>2, <5>2, <6>1, <6>2
        <5>4. CASE u = k
          <6>1. h[u] = body(g, u)
            BY <5>4
          <6> HIDE DEF h
          <6> QED BY <4>2, <5>2, <6>1
        <5> QED BY <5>3, <5>4
      <4> QED BY <4>1, <4>2
    <3>3. h = [u \in 0 .. k |-> body(h, u)]
      BY <3>2
    <3> QED BY <3>3
  <2> QED BY <2>1, <2>2
<1>2. \E f : f = [u \in 0 .. n |-> body(f, u)]
  <2>1. n \in Has
    <3> HIDE DEF Has, n
    <3> QED BY <1>1, <1>n, SetInduction
  <2> QED BY <2>1
<1> DEFINE chain == CHOOSE f : f = [u \in 0 .. n |-> body(f, u)]
<1>3. chain = [u \in 0 .. n |-> body(chain, u)]
  BY <1>2
<1>4. \A t : Enclosing(d, t) = chain[t]
  BY DEF Enclosing
<1> QED
  <2> HIDE DEF chain, parent
  <2>1. \A t \in 0 .. n : chain[t] = body(chain, t)
    BY <1>3
  <2> QED BY <2>1, <1>4 DEF parent

\* Every chain ends at the outermost table, and goes down in the numbers.
LEMMA EnclosingParts ==
  ASSUME NEW d, WellFormed(d), NEW t \in 1 .. Len(d.tables)
  PROVE  /\ Enclosing(d, t) \subseteq 1 .. t
         /\ t \in Enclosing(d, t) /\ 1 \in Enclosing(d, t)
         /\ \A u \in Enclosing(d, t) : Enclosing(d, u) \subseteq Enclosing(d, t)
<1> DEFINE n == Len(d.tables)
           parent(u) == d.tables[u].parent
           E(u) == Enclosing(d, u)
           Good(u) == /\ E(u) \subseteq 1 .. u
                      /\ u \in E(u) /\ 1 \in E(u)
                      /\ \A v \in E(u) : E(v) \subseteq E(u)
           Has == {u \in Nat : u \in 1 .. n => Good(u)}
<1>1. /\ n \in Nat
      /\ \A u \in 1 .. n : parent(u) \in 0 .. u - 1 /\ (parent(u) = 0 <=> u = 1)
  BY DbParts, TableParts
<1>2. E(0) = {} /\ \A u \in 1 .. n : E(u) = {u} \cup E(parent(u))
  <2>1. 0 \in 0 .. n /\ \A u \in 1 .. n : u \in 0 .. n /\ u # 0
    BY <1>1
  <2> QED BY <2>1, EnclosingEquation
<1>3. ASSUME NEW u \in Nat, \A m \in Nat : m < u => m \in Has
      PROVE  u \in Has
  <2> SUFFICES ASSUME u \in 1 .. n PROVE Good(u)
    OBVIOUS
  <2> HIDE DEF parent, E, n
  <2>1. CASE u = 1
    <3>1. E(u) = {1}
      BY <1>1, <1>2, <2>1
    <3> QED BY <2>1, <3>1
  <2>2. CASE u # 1
    <3>1. parent(u) \in 1 .. n /\ parent(u) < u /\ parent(u) \in Nat
      BY <1>1, <2>2
    <3>2. Good(parent(u))
      BY <1>3, <3>1
    <3>3. E(u) = {u} \cup E(parent(u))
      BY <1>2
    <3>4. E(u) \subseteq 1 .. u
      BY <3>1, <3>2, <3>3
    <3> QED BY <3>2, <3>3, <3>4
  <2> QED BY <2>1, <2>2
<1>4. t \in Has /\ t \in Nat
  <2>1. t \in Nat
    BY <1>1
  <2> HIDE DEF Has
  <2> QED BY <1>3, <2>1, SetInduction
<1> QED BY <1>4

\* What st_find finds is what st_findonly finds in one of the enclosing tables;
\* it finds nothing only if none of them has the name.
LEMMA FindIsThere ==
  ASSUME NEW d, WellFormed(d), NEW t \in 1 .. Len(d.tables), NEW name
  PROVE  /\ st_find(d, t, name) # None =>
              \E u \in Enclosing(d, t) : st_find(d, t, name) = st_findonly(d, u, name)
         /\ st_find(d, t, name) = None =>
              \A u \in Enclosing(d, t) : st_findonly(d, u, name) = None
<1> DEFINE n == Len(d.tables)
           parent(u) == d.tables[u].parent
           E(u) == Enclosing(d, u)
           own(u) == st_findonly(d, u, name)
           find(u) == st_find(d, u, name)
           Good(u) == /\ find(u) # None => \E v \in E(u) : find(u) = own(v)
                      /\ find(u) = None => \A v \in E(u) : own(v) = None
           Has == {u \in Nat : u \in 0 .. n => Good(u)}
<1>1. n \in Nat /\ \A u \in 1 .. n : parent(u) \in 0 .. u - 1
  BY DbParts, TableParts
<1>2. E(0) = {} /\ \A u \in 1 .. n : E(u) = {u} \cup E(parent(u))
  <2>1. 0 \in 0 .. n /\ \A u \in 1 .. n : u \in 0 .. n /\ u # 0
    BY <1>1
  <2> QED BY <2>1, EnclosingEquation
<1>3. /\ find(0) = None
      /\ \A u \in 1 .. n : find(u) = IF own(u) # None THEN own(u) ELSE find(parent(u))
  <2>1. 0 \in 0 .. n /\ \A u \in 1 .. n : u \in 0 .. n /\ u # 0
    BY <1>1
  <2> QED BY <2>1, FindEquation
<1>4. ASSUME NEW u \in Nat, \A m \in Nat : m < u => m \in Has
      PROVE  u \in Has
  <2> SUFFICES ASSUME u \in 0 .. n PROVE Good(u)
    OBVIOUS
  <2> HIDE DEF parent, E, n, own, find
  <2>1. CASE u = 0
    BY <1>2, <1>3, <2>1
  <2>2. CASE u # 0
    <3>1. u \in 1 .. n /\ parent(u) \in 0 .. n /\ parent(u) < u /\ parent(u) \in Nat
      BY <1>1, <2>2
    <3>2. Good(parent(u))
      BY <1>4, <3>1
    <3>3. E(u) = {u} \cup E(parent(u))
      BY <1>2, <3>1
    <3>4. find(u) = IF own(u) # None THEN own(u) ELSE find(parent(u))
      BY <1>3, <3>1
    <3> QED BY <3>2, <3>3, <3>4
  <2> QED BY <2>1, <2>2
<1>5. t \in Has /\ t \in 0 .. n
  <2>1. t \in Nat /\ t \in 0 .. n
    BY <1>1
  <2> HIDE DEF Has
  <2> QED BY <1>4, <2>1, SetInduction
<1> QED BY <1>5

\* What st_find finds has the name and is a symbol of an enclosing table.
LEMMA FindParts ==
  ASSUME NEW d, WellFormed(d), NEW t \in 1 .. Len(d.tables), NEW name
  PROVE  /\ st_find(d, t, name) \in 0 .. Len(d.symbols)
         /\ st_find(d, t, name) # None =>
              /\ st_find(d, t, name) \in 1 .. Len(d.symbols)
              /\ d.symbols[st_find(d, t, name)].name = name
              /\ \E u \in Enclosing(d, t) : st_find(d, t, name) \in d.tables[u].syms
<1> DEFINE s == st_find(d, t, name)
<1>1. Len(d.symbols) \in Nat /\ Len(d.tables) \in Nat
  BY DbParts
<1>2. CASE s = None
  BY <1>1, <1>2 DEF None
<1>3. CASE s # None
  <2>1. PICK u \in Enclosing(d, t) : s = st_findonly(d, u, name)
    BY <1>3, FindIsThere
  <2>2. u \in 1 .. Len(d.tables)
    BY <1>1, EnclosingParts
  <2>3. s \in d.tables[u].syms /\ s \in 1 .. Len(d.symbols) /\ d.symbols[s].name = name
    <3> HIDE DEF s
    <3> QED BY <1>3, <2>1, <2>2, FindOnly
  <2> QED BY <1>1, <2>3
<1> QED BY <1>2, <1>3

-----------------------------------------------------------------------------
(* What stays when the tables grow. *)

LEMMA EnclosingStays ==
  ASSUME NEW d, NEW e, WellFormed(d), WellFormed(e), Grows(d, e), NEW t \in 1 .. Len(d.tables)
  PROVE  Enclosing(e, t) = Enclosing(d, t)
<1> DEFINE n == Len(d.tables)
           parent(u) == d.tables[u].parent
           D(u) == Enclosing(d, u)
           E(u) == Enclosing(e, u)
           Has == {u \in Nat : u \in 0 .. n => E(u) = D(u)}
<1>1. /\ n \in Nat /\ \A u \in 1 .. n : parent(u) \in 0 .. u - 1
      /\ Len(e.tables) \in Nat /\ n <= Len(e.tables)
      /\ \A u \in 1 .. n : e.tables[u].parent = parent(u)
  BY DbParts, TableParts DEF Grows
<1>2. D(0) = {} /\ \A u \in 1 .. n : D(u) = {u} \cup D(parent(u))
  <2>1. 0 \in 0 .. n /\ \A u \in 1 .. n : u \in 0 .. n /\ u # 0
    BY <1>1
  <2> QED BY <2>1, EnclosingEquation
<1>3. E(0) = {} /\ \A u \in 1 .. n : E(u) = {u} \cup E(parent(u))
  <2>1. 0 \in 0 .. Len(e.tables) /\ \A u \in 1 .. n : u \in 0 .. Len(e.tables) /\ u # 0
    BY <1>1
  <2>2. E(0) = {}
    BY <2>1, EnclosingEquation
  <2>3. ASSUME NEW u \in 1 .. n PROVE E(u) = {u} \cup E(parent(u))
    <3>1. E(u) = {u} \cup E(e.tables[u].parent)
      BY <2>1, EnclosingEquation
    <3>2. e.tables[u].parent = parent(u)
      BY <1>1
    <3> HIDE DEF parent
    <3> QED BY <3>1, <3>2
  <2> QED BY <2>2, <2>3
<1>4. ASSUME NEW u \in Nat, \A m \in Nat : m < u => m \in Has
      PROVE  u \in Has
  <2> SUFFICES ASSUME u \in 0 .. n PROVE E(u) = D(u)
    OBVIOUS
  <2> HIDE DEF parent, D, E, n
  <2>1. CASE u = 0
    BY <1>2, <1>3, <2>1
  <2>2. CASE u # 0
    <3>1. u \in 1 .. n /\ parent(u) \in 0 .. n /\ parent(u) < u /\ parent(u) \in Nat
      BY <1>1, <2>2
    <3>2. E(parent(u)) = D(parent(u))
      BY <1>4, <3>1
    <3> QED BY <1>2, <1>3, <3>1, <3>2
  <2> QED BY <2>1, <2>2
<1>5. t \in Has /\ t \in 0 .. n
  <2>1. t \in Nat /\ t \in 0 .. n
    BY <1>1
  <2> HIDE DEF Has
  <2> QED BY <1>4, <2>1, SetInduction
<1> QED BY <1>5

\* A name that is in a table remains the name of the same symbol.
LEMMA FindOnlyStays ==
  ASSUME NEW d, NEW e, WellFormed(d), WellFormed(e), Grows(d, e), Unique(e),
         NEW t \in 1 .. Len(d.tables), NEW name
  PROVE  /\ st_findonly(d, t, name) # None => st_findonly(e, t, name) = st_findonly(d, t, name)
         /\ e.tables[t].syms = d.tables[t].syms
              => st_findonly(e, t, name) = st_findonly(d, t, name)
<1>1. /\ Len(d.symbols) \in Nat /\ Len(e.symbols) \in Nat /\ Len(e.tables) \in Nat
      /\ Len(d.tables) \in Nat
  BY DbParts
<1>2. t \in 1 .. Len(e.tables)
  BY <1>1 DEF Grows
<1>3. ASSUME st_findonly(d, t, name) # None PROVE st_findonly(e, t, name) = st_findonly(d, t, name)
  <2>1. PICK s : s = st_findonly(d, t, name)
    OBVIOUS
  <2>2. s \in d.tables[t].syms /\ s \in 1 .. Len(d.symbols) /\ d.symbols[s].name = name
    BY <1>3, <2>1, FindOnly
  <2>3. s \in e.tables[t].syms /\ e.symbols[s].name = name
    BY <2>2 DEF Grows
  <2> QED BY <1>2, <2>1, <2>3, FindOnlyUnique
<1>4. ASSUME e.tables[t].syms = d.tables[t].syms
      PROVE  st_findonly(e, t, name) = st_findonly(d, t, name)
  <2>1. \A s \in d.tables[t].syms : e.symbols[s].name = d.symbols[s].name
    BY TableParts DEF Grows
  <2>2. {s \in e.tables[t].syms : e.symbols[s].name = name}
          = {s \in d.tables[t].syms : d.symbols[s].name = name}
    BY <1>4, <2>1
  <2>3. PICK found : found = {s \in d.tables[t].syms : d.symbols[s].name = name}
    OBVIOUS
  <2>4. st_findonly(d, t, name) = IF found = {} THEN None ELSE CHOOSE s \in found : TRUE
    BY <2>3 DEF st_findonly
  <2>5. PICK now : now = {s \in e.tables[t].syms : e.symbols[s].name = name}
    OBVIOUS
  <2>6. st_findonly(e, t, name) = IF now = {} THEN None ELSE CHOOSE s \in now : TRUE
    BY <2>5 DEF st_findonly
  <2>7. now = found
    BY <2>2, <2>3, <2>5
  <2> QED BY <2>4, <2>6, <2>7
<1> QED BY <1>3, <1>4

\* A lookup finds what it found, although the tables have grown, unless a table
\* other than the outermost one has gained a symbol.
LEMMA FindStays ==
  ASSUME NEW d, NEW e, WellFormed(d), WellFormed(e), Grows(d, e), Unique(e),
         NEW t \in 1 .. Len(d.tables), NEW name, st_find(d, t, name) # None,
         \A u \in Enclosing(d, t) : u # 1 => e.tables[u].syms = d.tables[u].syms
  PROVE  st_find(e, t, name) = st_find(d, t, name)
<1> DEFINE n == Len(d.tables)
           parent(u) == d.tables[u].parent
           E(u) == Enclosing(d, u)
           ownd(u) == st_findonly(d, u, name)
           owne(u) == st_findonly(e, u, name)
           findd(u) == st_find(d, u, name)
           finde(u) == st_find(e, u, name)
           Good(u) == E(u) \subseteq E(t) /\ findd(u) # None => finde(u) = findd(u)
           Has == {u \in Nat : u \in 0 .. n => Good(u)}
<1>1. /\ n \in Nat
      /\ \A u \in 1 .. n : parent(u) \in 0 .. u - 1 /\ (parent(u) = 0 <=> u = 1)
      /\ Len(e.tables) \in Nat /\ n <= Len(e.tables)
      /\ \A u \in 1 .. n : e.tables[u].parent = parent(u)
  BY DbParts, TableParts DEF Grows
<1>2. \A u \in 1 .. n : E(u) = {u} \cup E(parent(u))
  <2>1. \A u \in 1 .. n : u \in 0 .. n /\ u # 0
    BY <1>1
  <2> QED BY <2>1, EnclosingEquation
<1>3. /\ findd(0) = None
      /\ \A u \in 1 .. n : findd(u) = IF ownd(u) # None THEN ownd(u) ELSE findd(parent(u))
  <2>1. 0 \in 0 .. n /\ \A u \in 1 .. n : u \in 0 .. n /\ u # 0
    BY <1>1
  <2> QED BY <2>1, FindEquation
<1>4. \A u \in 1 .. n : finde(u) = IF owne(u) # None THEN owne(u) ELSE finde(parent(u))
  <2> SUFFICES ASSUME NEW u \in 1 .. n
               PROVE  finde(u) = IF owne(u) # None THEN owne(u) ELSE finde(parent(u))
    OBVIOUS
  <2>1. u \in 0 .. Len(e.tables) /\ u # 0
    BY <1>1
  <2>2. finde(u) = IF owne(u) # None THEN owne(u) ELSE finde(e.tables[u].parent)
    BY <2>1, FindEquation
  <2>3. e.tables[u].parent = parent(u)
    BY <1>1
  <2> HIDE DEF parent
  <2> QED BY <2>2, <2>3
<1>5. \A u \in 1 .. n : ownd(u) # None => owne(u) = ownd(u)
  BY FindOnlyStays
<1>6. \A u \in 1 .. n : u \in E(t) /\ u # 1 => owne(u) = ownd(u)
  BY FindOnlyStays
<1>7. ASSUME NEW u \in Nat, \A m \in Nat : m < u => m \in Has
      PROVE  u \in Has
  <2> SUFFICES ASSUME u \in 0 .. n, E(u) \subseteq E(t), findd(u) # None
               PROVE  finde(u) = findd(u)
    OBVIOUS
  <2> HIDE DEF parent, E, n, ownd, owne, findd, finde
  <2>1. u \in 1 .. n
    BY <1>3
  <2>2. findd(u) = IF ownd(u) # None THEN ownd(u) ELSE findd(parent(u))
    BY <1>3, <2>1
  <2>3. finde(u) = IF owne(u) # None THEN owne(u) ELSE finde(parent(u))
    BY <1>4, <2>1
  <2>4. CASE ownd(u) # None
    BY <1>5, <2>1, <2>2, <2>3, <2>4
  <2>5. CASE ownd(u) = None
    <3>1. findd(parent(u)) # None
      BY <2>2, <2>5
    <3>2. u # 1 /\ parent(u) \in Nat /\ parent(u) < u /\ parent(u) \in 0 .. n
      BY <1>1, <1>3, <2>1, <3>1
    <3>3. u \in E(t) /\ E(parent(u)) \subseteq E(t)
      BY <1>2, <2>1
    <3>4. finde(parent(u)) = findd(parent(u))
      BY <1>7, <3>1, <3>2, <3>3
    <3>5. owne(u) = None
      BY <1>6, <2>1, <2>5, <3>2, <3>3
    <3> QED BY <2>2, <2>3, <2>5, <3>4, <3>5
  <2> QED BY <2>4, <2>5
<1>8. t \in Has /\ t \in 0 .. n
  <2>1. t \in Nat /\ t \in 0 .. n
    BY <1>1
  <2> HIDE DEF Has
  <2> QED BY <1>7, <2>1, SetInduction
<1> QED BY <1>8

-----------------------------------------------------------------------------
(* The operations that are made of others. *)

\* A function has been declared or defined: its parameters and its own symbol,
\* the last, are in a table of their own.
IsWithFun(d, e, f, n, params, state) ==
  LET N == Len(d.symbols)
      M == Len(d.tables)
  IN /\ WellFormed(e) /\ Grows(d, e) /\ (Unique(d) => Unique(e))
     /\ e.passed => d.passed
     /\ Len(e.symbols) = N + n + 1 /\ Len(e.tables) = M + 1
     /\ \A s \in 1 .. N : e.symbols[s] = d.symbols[s]
     /\ \A i \in 1 .. n : e.symbols[N + i] = NewSymbol(params[i], "int", 0, "dec")
     /\ e.symbols[N + n + 1] = NewSymbol(f, "func", n, state)
     /\ \A t \in 1 .. M : e.tables[t] = d.tables[t]
     /\ e.tables[M + 1].parent = 1
     /\ e.tables[M + 1].syms \subseteq N + 1 .. N + n + 1
     /\ N + n + 1 \in e.tables[M + 1].syms
     /\ e.passed => \A i \in 1 .. n : N + i \in e.tables[M + 1].syms

\* The same before the function's own symbol is there.
IsFunTable(d, e, n, params) ==
  LET N == Len(d.symbols)
      M == Len(d.tables)
  IN /\ WellFormed(e) /\ Grows(d, e) /\ (Unique(d) => Unique(e))
     /\ e.passed => d.passed
     /\ Len(e.symbols) = N + n /\ Len(e.tables) = M + 1
     /\ \A s \in 1 .. N : e.symbols[s] = d.symbols[s]
     /\ \A i \in 1 .. n : e.symbols[N + i] = NewSymbol(params[i], "int", 0, "dec")
     /\ \A t \in 1 .. M : e.tables[t] = d.tables[t]
     /\ e.tables[M + 1].parent = 1
     /\ e.tables[M + 1].syms \subseteq N + 1 .. N + n
     /\ e.passed => \A i \in 1 .. n : N + i \in e.tables[M + 1].syms

LEMMA FunTables ==
  ASSUME WellFormed(db), NEW n \in Nat, NEW params \in [1 .. n -> Names]
  PROVE  IsFunTable(db, FunTable(params), n, params)
<1> DEFINE N == Len(db.symbols)
           M == Len(db.tables)
           e == FunTable(params)
<1> SUFFICES IsFunTable(db, e, n, params)
  OBVIOUS
<1>1. N \in Nat /\ M \in Nat /\ M >= 1 /\ 1 \in 1 .. M
  BY DbParts
<1>2. PICK c : c = new_symbol_table(db, 1)
  OBVIOUS
<1>3. /\ WellFormed(c) /\ Grows(db, c) /\ (Unique(db) => Unique(c))
      /\ c.symbols = db.symbols /\ c.passed = db.passed
      /\ Len(c.tables) = M + 1
      /\ c.tables[M + 1].parent = 1 /\ c.tables[M + 1].syms = {}
      /\ \A t \in 1 .. M : c.tables[t] = db.tables[t]
  BY <1>1, <1>2, NewTable
<1>4. e = Declare(c, M + 1, params, "int")
  BY <1>2 DEF FunTable
<1> HIDE DEF e
<1>5. M + 1 \in 1 .. Len(c.tables) /\ "int" \in Values
  BY <1>1, <1>3 DEF Values
<1>6. AreDeclared(c, e, M + 1, n, params, "int")
  BY <1>3, <1>4, <1>5, Declared
<1> HIDE DEF M, N
<1>7. Grows(db, e)
  BY <1>3, <1>6, GrowsTransitive DEF AreDeclared
<1>8. /\ WellFormed(e) /\ (Unique(db) => Unique(e))
      /\ e.passed => db.passed
      /\ Len(e.symbols) = N + n /\ Len(e.tables) = M + 1
      /\ \A s \in 1 .. N : e.symbols[s] = db.symbols[s]
      /\ \A i \in 1 .. n : e.symbols[N + i] = NewSymbol(params[i], "int", 0, "dec")
      /\ e.passed => \A i \in 1 .. n : N + i \in e.tables[M + 1].syms
  BY <1>3, <1>6 DEF N, AreDeclared
<1>9. \A t \in 1 .. M : e.tables[t] = db.tables[t]
  <2>1. \A t \in 1 .. M : t \in 1 .. Len(c.tables) /\ t # M + 1
    BY <1>1, <1>3
  <2>2. \A t \in 1 .. M : e.tables[t] = c.tables[t]
    BY <1>6, <2>1 DEF AreDeclared
  <2> QED BY <1>3, <2>2
<1>10. e.tables[M + 1].parent = 1
  BY <1>3, <1>5, <1>6 DEF Grows, AreDeclared
<1>11. e.tables[M + 1].syms \subseteq N + 1 .. N + n
  BY <1>1, <1>3, <1>6 DEF N, AreDeclared
<1> QED BY <1>7, <1>8, <1>9, <1>10, <1>11 DEF IsFunTable, N, M

\* Then the function's own symbol.
LEMMA FunAdded ==
  ASSUME WellFormed(db), NEW n \in Nat, NEW params \in [1 .. n -> Names],
         NEW f \in Names, NEW state \in {"dec", "def"}, ~FunClash(f, params)
  PROVE  IsAdded(FunTable(params), WithFun(f, params, state), Len(db.tables) + 1,
                 NewSymbol(f, "func", n, state))
<1> DEFINE M == Len(db.tables)
           d == FunTable(params)
           sym == NewSymbol(f, "func", n, state)
           e == [d EXCEPT !.symbols = Append(@, sym),
                          !.tables[Len(d.tables)].syms = @ \cup {Len(d.symbols) + 1}]
<1>1. M \in Nat /\ M >= 1
  BY DbParts
<1>2. IsFunTable(db, d, n, params)
  BY FunTables
<1>3. Len(params) = n
  OBVIOUS
<1>4. st_findonly(d, M + 1, f) = None
  BY DEF FunClash
<1>5. WithFun(f, params, state) = e
  BY <1>3 DEF WithFun
<1> HIDE DEF d
<1>6. sym \in Symbol /\ sym.name = f
  <2>1. "func" \in Values \cup {"type", "func"}
    OBVIOUS
  <2> QED BY <2>1, NewSymbols
<1> HIDE DEF sym, M
<1>7. Len(d.tables) = M + 1 /\ M + 1 \in 1 .. M + 1 /\ WellFormed(d)
  BY <1>1, <1>2 DEF IsFunTable, M
<1>8. IsAdded(d, e, M + 1, sym)
  <2>1. PICK t : t = Len(d.tables)
    OBVIOUS
  <2>2. IsAdded(d, [d EXCEPT !.symbols = Append(@, sym),
                             !.tables[t].syms = @ \cup {Len(d.symbols) + 1}], t, sym)
    BY <1>4, <1>6, <1>7, <2>1, SymbolAdded
  <2> QED BY <1>7, <2>1, <2>2
<1> HIDE DEF e
<1> QED BY <1>5, <1>8 DEF d, sym, M

LEMMA WithFuns ==
  ASSUME WellFormed(db), NEW n \in Nat, NEW params \in [1 .. n -> Names],
         NEW f \in Names, NEW state \in {"dec", "def"}, ~FunClash(f, params)
  PROVE  IsWithFun(db, WithFun(f, params, state), f, n, params, state)
<1> DEFINE N == Len(db.symbols)
           M == Len(db.tables)
           sym == NewSymbol(f, "func", n, state)
           e == WithFun(f, params, state)
<1>1. N \in Nat /\ M \in Nat /\ M >= 1
  BY DbParts
<1>2. PICK d : d = FunTable(params)
  OBVIOUS
<1>3. IsFunTable(db, d, n, params) /\ IsAdded(d, e, M + 1, sym)
  BY <1>2, FunTables, FunAdded
<1> HIDE DEF e, sym, M, N
<1>7. Len(d.tables) = M + 1 /\ M + 1 \in 1 .. M + 1 /\ WellFormed(d)
  BY <1>1, <1>3 DEF IsFunTable, M
<1>9. /\ WellFormed(e) /\ Grows(db, e) /\ (Unique(db) => Unique(e))
      /\ e.passed => db.passed
      /\ Len(e.symbols) = N + n + 1 /\ Len(e.tables) = M + 1
  BY <1>1, <1>3, GrowsTransitive DEF IsFunTable, IsAdded, N, M
<1>10. \A s \in 1 .. N : e.symbols[s] = db.symbols[s]
  <2>1. \A s \in 1 .. N : s \in 1 .. N + n
    BY <1>1
  <2> QED BY <1>3, <2>1 DEF IsFunTable, IsAdded, N
<1>11. \A i \in 1 .. n : e.symbols[N + i] = NewSymbol(params[i], "int", 0, "dec")
  <2>1. \A i \in 1 .. n : N + i \in 1 .. N + n
    BY <1>1
  <2> QED BY <1>3, <2>1 DEF IsFunTable, IsAdded, N
<1>12. e.symbols[N + n + 1] = NewSymbol(f, "func", n, state)
  BY <1>3 DEF IsFunTable, IsAdded, sym, N
<1>13. e.tables[M + 1].syms = d.tables[M + 1].syms \cup {N + n + 1}
  BY <1>3 DEF IsFunTable, IsAdded, N
<1>14. \A t \in 1 .. M : e.tables[t] = db.tables[t]
  <2>1. \A t \in 1 .. M : t \in 1 .. M + 1 /\ t # M + 1
    BY <1>1
  <2> QED BY <1>3, <2>1 DEF IsFunTable, IsAdded, M
<1>15. e.tables[M + 1].parent = 1
  BY <1>3, <1>7 DEF IsFunTable, IsAdded, Grows, M
<1>16. e.tables[M + 1].syms \subseteq N + 1 .. N + n + 1
  <2>1. d.tables[M + 1].syms \subseteq N + 1 .. N + n
    BY <1>3 DEF IsFunTable, M, N
  <2> QED BY <1>1, <1>13, <2>1
<1>17. e.passed => \A i \in 1 .. n : N + i \in e.tables[M + 1].syms
  BY <1>3, <1>13 DEF IsFunTable, IsAdded, M, N
<1>18. IsWithFun(db, e, f, n, params, state)
  BY <1>9, <1>10, <1>11, <1>12, <1>13, <1>14, <1>15, <1>16, <1>17 DEF IsWithFun, M, N
<1> QED BY <1>18 DEF e

\* The translation changes nothing but the variables and labels of symbols.
IsSetIr(d, e, syms, ir) ==
  /\ WellFormed(e) /\ Grows(d, e) /\ (Unique(d) => Unique(e))
  /\ e.tables = d.tables /\ e.passed = d.passed /\ Len(e.symbols) = Len(d.symbols)
  /\ \A s \in 1 .. Len(d.symbols) :
       /\ e.symbols[s].state = d.symbols[s].state
       /\ e.symbols[s].ir = IF s \in syms THEN ir ELSE d.symbols[s].ir

LEMMA IrIsSet ==
  ASSUME NEW d, WellFormed(d), NEW syms, NEW ir \in {"null", "var", "label"}
  PROVE  IsSetIr(d, SetIr(d, syms, ir), syms, ir)
<1> DEFINE N == Len(d.symbols)
           new(s) == IF s \in syms THEN [d.symbols[s] EXCEPT !.ir = ir] ELSE d.symbols[s]
           symbols == [s \in 1 .. N |-> new(s)]
           e == SetIr(d, syms, ir)
<1>1. /\ d.symbols \in Seq(Symbol) /\ N \in Nat /\ d.passed \in BOOLEAN
      /\ d = [symbols |-> d.symbols, tables |-> d.tables, passed |-> d.passed]
  BY DbParts
<1>2. DOMAIN d.symbols = 1 .. N
  BY <1>1
<1>3. e = [symbols |-> symbols, tables |-> d.tables, passed |-> d.passed]
  <2>1. e = [d EXCEPT !.symbols = symbols]
    BY <1>2 DEF SetIr
  <2> HIDE DEF e, symbols
  <2> QED BY <1>1, <2>1
<1>4. \A s \in 1 .. N : /\ new(s) \in Symbol
                        /\ new(s).name = d.symbols[s].name /\ new(s).cls = d.symbols[s].cls
                        /\ new(s).argc = d.symbols[s].argc /\ new(s).state = d.symbols[s].state
                        /\ new(s).ir = IF s \in syms THEN ir ELSE d.symbols[s].ir
  <2> TAKE s \in 1 .. N
  <2>1. d.symbols[s] \in Symbol
    BY SymbolParts
  <2> QED BY <2>1 DEF Symbol
<1> HIDE DEF new
<1>5. symbols \in Seq(Symbol) /\ Len(symbols) = N /\ \A s \in 1 .. N : symbols[s] = new(s)
  <2>1. symbols \in [1 .. N -> Symbol]
    BY <1>4
  <2> QED BY <1>1, <2>1
<1> HIDE DEF symbols, e
<1>6. \A s \in 1 .. N : /\ symbols[s].name = d.symbols[s].name
                        /\ symbols[s].cls = d.symbols[s].cls
                        /\ symbols[s].argc = d.symbols[s].argc
  BY <1>4, <1>5
<1>7. WellFormed(e) /\ Grows(d, e) /\ (Unique(d) => Unique(e))
  BY <1>1, <1>3, <1>5, <1>6, SymbolsChange
<1>8. e.symbols = symbols /\ e.tables = d.tables /\ e.passed = d.passed
  BY <1>3
<1>9. IsSetIr(d, e, syms, ir)
  BY <1>4, <1>5, <1>7, <1>8 DEF IsSetIr
<1> QED BY <1>9 DEF e

\* Variables have been declared in table t, after the tag of their struct.
IsDefined(d, e, t, n, names) ==
  LET N == Len(d.symbols)
  IN /\ WellFormed(e) /\ Grows(d, e) /\ (Unique(d) => Unique(e))
     /\ e.passed => d.passed
     /\ Len(e.tables) = Len(d.tables)
     /\ \A u \in 2 .. Len(d.tables) : u # t => e.tables[u] = d.tables[u]
     /\ Len(e.symbols) >= N + n
     /\ \A s \in 1 .. N : d.symbols[s].cls # "type" => e.symbols[s] = d.symbols[s]
     /\ \A s \in N + 1 .. Len(e.symbols) : e.symbols[s].cls \in Values \cup {"type"}
     /\ \A i \in 1 .. n : e.symbols[Len(e.symbols) - n + i].cls \in Values
     /\ \A u \in 1 .. Len(d.tables) : \A s \in e.tables[u].syms : s \notin d.tables[u].syms =>
          /\ s > N
          /\ e.symbols[s].cls \in Values =>
               u = t /\ \E i \in 1 .. n : s = Len(e.symbols) - n + i

LEMMA Defines ==
  ASSUME NEW d, WellFormed(d), NEW t \in 1 .. Len(d.tables), NEW spec \in Spec0, spec # NoSpec,
         NEW n \in Nat, NEW names \in [1 .. n -> Names]
  PROVE  IsDefined(d, Declare(Specified(d, t, spec).db, t, names, Specified(d, t, spec).spec.tp),
                   t, n, names)
<1>1. PICK c, cls : c = Specified(d, t, spec).db /\ cls = Specified(d, t, spec).spec.tp
  OBVIOUS
<1> DEFINE e == Declare(c, t, names, cls)
           N == Len(d.symbols)
           K == Len(c.symbols)
<1>2. OnlyTags(d, c) /\ cls \in Values
  BY <1>1, SpecifiedTags
<1>3. /\ N \in Nat /\ K \in Nat /\ N <= K /\ WellFormed(c)
      /\ Len(d.tables) \in Nat /\ Len(d.tables) >= 1 /\ Len(c.tables) = Len(d.tables)
  BY <1>2, DbParts DEF OnlyTags, Grows
<1>4. AreDeclared(c, e, t, n, names, cls)
  BY <1>2, <1>3, Declared
<1> HIDE DEF e
<1>5. /\ WellFormed(e) /\ Grows(d, e) /\ (Unique(d) => Unique(e))
      /\ e.passed => d.passed
      /\ Len(e.tables) = Len(d.tables)
      /\ Len(e.symbols) = K + n
  BY <1>2, <1>4, GrowsTransitive DEF OnlyTags, AreDeclared
<1>6. \A u \in 2 .. Len(d.tables) : u # t => e.tables[u] = d.tables[u]
  <2> TAKE u \in 2 .. Len(d.tables)
  <2>1. u \in 1 .. Len(c.tables) /\ c.tables[u] = d.tables[u]
    BY <1>2, <1>3 DEF OnlyTags
  <2> QED BY <1>4, <2>1 DEF AreDeclared
<1>7. \A s \in 1 .. N : d.symbols[s].cls # "type" => e.symbols[s] = d.symbols[s]
  <2> TAKE s \in 1 .. N
  <2>1. s \in 1 .. K /\ e.symbols[s] = c.symbols[s]
    BY <1>3, <1>4 DEF AreDeclared
  <2> QED BY <1>2, <2>1 DEF OnlyTags
<1>8. \A i \in 1 .. n : e.symbols[K + i].cls = cls
  <2> TAKE i \in 1 .. n
  <2>1. names[i] \in Names /\ cls \in Values \cup {"type", "func"}
    BY <1>2
  <2>2. NewSymbol(names[i], cls, 0, "dec").cls = cls
    BY <2>1, NewSymbols
  <2> QED BY <1>4, <2>2 DEF AreDeclared
<1>9. \A s \in N + 1 .. Len(e.symbols) : e.symbols[s].cls \in Values \cup {"type"}
  <2> TAKE s \in N + 1 .. Len(e.symbols)
  <2>1. CASE s \in N + 1 .. K
    <3>1. s \in 1 .. K
      BY <1>3, <2>1
    <3>2. e.symbols[s] = c.symbols[s]
      BY <1>4, <3>1 DEF AreDeclared
    <3> QED BY <1>2, <2>1, <3>2 DEF OnlyTags
  <2>2. CASE s \in K + 1 .. K + n
    <3>1. s - K \in 1 .. n /\ s = K + (s - K)
      BY <1>3, <2>2
    <3> QED BY <1>2, <1>8, <3>1
  <2> QED BY <1>3, <1>5, <2>1, <2>2
<1>10. ASSUME NEW u \in 1 .. Len(d.tables), NEW s \in e.tables[u].syms, s \notin d.tables[u].syms
       PROVE  /\ s > N
              /\ e.symbols[s].cls \in Values =>
                   u = t /\ \E i \in 1 .. n : s = Len(e.symbols) - n + i
  <2>1. CASE s \in c.tables[u].syms
    <3>1. u = 1 /\ s > N
      BY <1>2, <1>10, <2>1 DEF OnlyTags
    <3>2. s \in 1 .. K
      BY <1>3, <2>1, TableParts
    <3>3. e.symbols[s] = c.symbols[s]
      BY <1>4, <3>2 DEF AreDeclared
    <3>4. c.symbols[s].cls = "type"
      BY <1>2, <1>3, <3>1, <3>2 DEF OnlyTags
    <3> QED BY <3>1, <3>3, <3>4 DEF Values
  <2>2. CASE s \notin c.tables[u].syms
    <3>1. u = t
      BY <1>3, <1>4, <2>2 DEF AreDeclared
    <3>2. PICK i \in 1 .. n : s = K + i
      BY <1>4, <2>2, <3>1 DEF AreDeclared
    <3>3. Len(e.symbols) - n + i = K + i
      BY <1>3, <1>5
    <3> QED BY <1>3, <3>1, <3>2, <3>3
  <2> QED BY <2>1, <2>2
<1>11. \A i \in 1 .. n : e.symbols[Len(e.symbols) - n + i].cls \in Values
  <2> TAKE i \in 1 .. n
  <2>1. Len(e.symbols) - n + i = K + i
    BY <1>3, <1>5
  <2> QED BY <1>2, <1>8, <2>1
<1>12. Len(e.symbols) >= N + n
  BY <1>3, <1>5
<1>13. IsDefined(d, e, t, n, names)
  BY <1>5, <1>6, <1>7, <1>9, <1>10, <1>11, <1>12 DEF IsDefined
<1> QED BY <1>1, <1>13 DEF e

-----------------------------------------------------------------------------
(* The tags of structs. *)

\* What TagsAreGlobal says of one symbol, in any state of the tables.
HidesNoTag(d, t, s) ==
  LET name == d.symbols[s].name
      tag == st_findonly(d, 1, name)
  IN d.symbols[s].cls \in Values /\ IsA(d, tag, "type")
       => \E u \in Enclosing(d, t) : \E v \in d.tables[u].syms :
            /\ d.symbols[v].name = name
            /\ v < tag \/ d.symbols[v].cls = "func"

GlobalTags(d) ==
  \A t \in 1 .. Len(d.tables) : \A s \in d.tables[t].syms :
    /\ d.symbols[s].cls = "type" => t = 1
    /\ HidesNoTag(d, t, s)

\* It remains so if the tags are new symbols, in the outermost table, and if
\* what is new in a table hides no tag.
LEMMA TagsStay ==
  ASSUME NEW d, NEW e, WellFormed(d), WellFormed(e), Grows(d, e), Unique(e), GlobalTags(d),
         \A t \in 1 .. Len(e.tables) : \A s \in e.tables[t].syms :
           t > Len(d.tables) \/ s \notin d.tables[t].syms =>
             /\ e.symbols[s].cls = "type" => t = 1 /\ s > Len(d.symbols)
             /\ HidesNoTag(e, t, s)
  PROVE  GlobalTags(e)
<1>1. /\ Len(d.symbols) \in Nat /\ Len(e.symbols) \in Nat
      /\ Len(d.tables) \in Nat /\ Len(e.tables) \in Nat
      /\ Len(d.tables) >= 1 /\ 1 \in 1 .. Len(d.tables) /\ 1 \in 1 .. Len(e.tables)
  BY DbParts
<1> SUFFICES ASSUME NEW t \in 1 .. Len(e.tables), NEW s \in e.tables[t].syms,
                    t \in 1 .. Len(d.tables), s \in d.tables[t].syms
             PROVE  (e.symbols[s].cls = "type" => t = 1) /\ HidesNoTag(e, t, s)
  BY <1>1 DEF GlobalTags
<1>2. /\ s \in 1 .. Len(d.symbols)
      /\ e.symbols[s].name = d.symbols[s].name /\ e.symbols[s].cls = d.symbols[s].cls
  BY TableParts DEF Grows
<1>3. (d.symbols[s].cls = "type" => t = 1) /\ HidesNoTag(d, t, s)
  BY DEF GlobalTags
<1> DEFINE name == d.symbols[s].name
           tag == st_findonly(e, 1, name)
<1>4. SUFFICES ASSUME d.symbols[s].cls \in Values, IsA(e, tag, "type")
               PROVE  \E u \in Enclosing(e, t) : \E v \in e.tables[u].syms :
                        /\ e.symbols[v].name = name
                        /\ v < tag \/ e.symbols[v].cls = "func"
  BY <1>2, <1>3 DEF HidesNoTag
<1>5. tag # None /\ e.symbols[tag].cls = "type"
  BY <1>4 DEF IsA
<1>6. tag \in e.tables[1].syms /\ tag \in 1 .. Len(e.symbols) /\ e.symbols[tag].name = name
  BY <1>1, <1>5, FindOnly
<1>7. t \in Enclosing(e, t)
  BY EnclosingParts
<1> HIDE DEF tag, name
<1>8. CASE tag \in d.tables[1].syms
  <2>1. tag \in 1 .. Len(d.symbols)
    BY <1>1, <1>8, TableParts
  <2>2. d.symbols[tag].name = name /\ d.symbols[tag].cls = "type"
    BY <1>5, <1>6, <2>1 DEF Grows
  <2>3. st_findonly(d, 1, name) # None
    BY <1>1, <1>8, <2>2, FindOnly
  <2>4. st_findonly(d, 1, name) = tag
    BY <1>1, <2>3, FindOnlyStays DEF tag
  <2>5. IsA(d, tag, "type")
    BY <1>5, <2>2 DEF IsA
  <2>u. PICK u \in Enclosing(d, t) : \E v \in d.tables[u].syms :
          d.symbols[v].name = name /\ (v < tag \/ d.symbols[v].cls = "func")
    BY <1>3, <1>4, <2>4, <2>5 DEF HidesNoTag, name
  <2>6. PICK v \in d.tables[u].syms :
          d.symbols[v].name = name /\ (v < tag \/ d.symbols[v].cls = "func")
    BY <2>u
  <2>7. u \in 1 .. Len(d.tables)
    BY <1>1, EnclosingParts
  <2>8. v \in 1 .. Len(d.symbols)
    BY <2>7, TableParts
  <2>9. /\ e.symbols[v].name = name /\ e.symbols[v].cls = d.symbols[v].cls
        /\ v \in e.tables[u].syms
    BY <2>6, <2>7, <2>8 DEF Grows
  <2>10. u \in Enclosing(e, t)
    BY EnclosingStays
  <2> QED BY <2>6, <2>9, <2>10
<1>9. CASE tag \notin d.tables[1].syms
  <2>1. tag > Len(d.symbols)
    BY <1>1, <1>5, <1>6, <1>9
  <2>2. s < tag
    BY <1>1, <1>2, <1>6, <2>1
  <2> QED BY <1>2, <1>7, <2>2 DEF name
<1> QED BY <1>8, <1>9

\* Nothing comes into a table.
LEMMA TagsStayThere ==
  ASSUME NEW d, NEW e, WellFormed(d), WellFormed(e), Grows(d, e), Unique(e), GlobalTags(d),
         \A t \in 1 .. Len(e.tables) : \A s \in e.tables[t].syms :
           t <= Len(d.tables) /\ s \in d.tables[t].syms
  PROVE  GlobalTags(e)
<1>1. Len(d.tables) \in Nat /\ Len(e.tables) \in Nat
  BY DbParts
<1>2. \A t \in 1 .. Len(e.tables) : \A s \in e.tables[t].syms :
        ~(t > Len(d.tables) \/ s \notin d.tables[t].syms)
  BY <1>1
<1> QED BY <1>2, TagsStay

\* The struct specifiers put a tag into the outermost table only.
LEMMA TagsOfSpecifiers ==
  ASSUME NEW d, NEW e, WellFormed(d), OnlyTags(d, e), Unique(d), GlobalTags(d)
  PROVE  GlobalTags(e)
<1>1. /\ Len(d.tables) \in Nat /\ Len(e.tables) = Len(d.tables)
      /\ WellFormed(e) /\ Grows(d, e) /\ Unique(e)
      /\ Len(d.symbols) \in Nat /\ Len(e.symbols) \in Nat
  BY DbParts DEF OnlyTags
<1>2. ASSUME NEW t \in 1 .. Len(e.tables), NEW s \in e.tables[t].syms,
             t > Len(d.tables) \/ s \notin d.tables[t].syms
      PROVE  /\ e.symbols[s].cls = "type" => t = 1 /\ s > Len(d.symbols)
             /\ HidesNoTag(e, t, s)
  <2>1. t \in 1 .. Len(d.tables) /\ s \notin d.tables[t].syms
    BY <1>1, <1>2
  <2>2. t = 1 /\ s > Len(d.symbols)
    BY <1>1, <2>1 DEF OnlyTags
  <2>3. s \in 1 .. Len(e.symbols)
    BY <1>1, TableParts
  <2>4. e.symbols[s].cls = "type"
    BY <1>1, <2>2, <2>3 DEF OnlyTags
  <2> QED BY <2>2, <2>4 DEF HidesNoTag, Values
<1> QED BY <1>1, <1>2, TagsStay

\* Declare compares a name with all that is in scope.
LEMMA TagsOfDeclarations ==
  ASSUME NEW d, NEW e, WellFormed(d), NEW t \in 1 .. Len(d.tables), NEW n \in Nat,
         NEW names \in [1 .. n -> Names], NEW cls \in Values,
         AreDeclared(d, e, t, n, names, cls), Unique(d), GlobalTags(d)
  PROVE  GlobalTags(e)
<1>1. /\ Len(d.tables) \in Nat /\ Len(e.tables) = Len(d.tables) /\ 1 \in 1 .. Len(d.tables)
      /\ WellFormed(e) /\ Grows(d, e) /\ Unique(e)
      /\ Len(d.symbols) \in Nat /\ Len(e.symbols) \in Nat
  BY DbParts DEF AreDeclared
<1>2. ASSUME NEW u \in 1 .. Len(e.tables), NEW s \in e.tables[u].syms,
             u > Len(d.tables) \/ s \notin d.tables[u].syms
      PROVE  /\ e.symbols[s].cls = "type" => u = 1 /\ s > Len(d.symbols)
             /\ HidesNoTag(e, u, s)
  <2>1. u = t
    BY <1>1, <1>2 DEF AreDeclared
  <2>2. PICK i \in 1 .. n : s = Len(d.symbols) + i /\ Free(d, t, names, i)
    BY <1>1, <1>2, <2>1 DEF AreDeclared
  <2> DEFINE x == names[i]
  <2>3. e.symbols[s].name = x /\ e.symbols[s].cls = cls
    <3>1. x \in Names /\ cls \in Values \cup {"type", "func"}
      OBVIOUS
    <3>2. e.symbols[s] = NewSymbol(x, cls, 0, "dec")
      BY <2>2 DEF AreDeclared
    <3> QED BY <3>1, <3>2, NewSymbols
  <2>4. cls # "type"
    BY DEF Values
  <2> DEFINE tag == st_findonly(e, 1, x)
  <2>5. ASSUME IsA(e, tag, "type")
        PROVE  \E v \in Enclosing(e, t) : \E r \in e.tables[v].syms :
                 e.symbols[r].name = x /\ (r < tag \/ e.symbols[r].cls = "func")
    <3>1. tag # None /\ e.symbols[tag].cls = "type"
      BY <2>5 DEF IsA
    <3>2. tag \in e.tables[1].syms /\ e.symbols[tag].name = x
      BY <1>1, <3>1, FindOnly
    <3> HIDE DEF tag
    <3>3. tag \in d.tables[1].syms
      <4>1. CASE t = 1
        <5> SUFFICES ASSUME tag \notin d.tables[1].syms PROVE FALSE
          OBVIOUS
        <5>1. PICK j \in 1 .. n : tag = Len(d.symbols) + j
          BY <3>2, <4>1 DEF AreDeclared
        <5>2. names[j] \in Names /\ cls \in Values \cup {"type", "func"}
          OBVIOUS
        <5>3. e.symbols[tag] = NewSymbol(names[j], cls, 0, "dec")
          BY <5>1 DEF AreDeclared
        <5> QED BY <2>4, <3>1, <5>2, <5>3, NewSymbols
      <4>2. CASE t # 1
        BY <1>1, <3>2, <4>2 DEF AreDeclared
      <4> QED BY <4>1, <4>2
    <3>4. tag \in 1 .. Len(d.symbols) /\ d.symbols[tag].name = x
      BY <1>1, <3>2, <3>3, TableParts DEF Grows
    <3>5. 1 \in Enclosing(d, t)
      BY EnclosingParts
    <3>6. st_findonly(d, 1, x) # None
      BY <1>1, <3>3, <3>4, FindOnly
    <3>7. st_find(d, t, x) # None
      BY <3>5, <3>6, FindIsThere
    <3>8. PICK r : r = st_find(d, t, x)
      OBVIOUS
    <3>9. r \in 1 .. Len(d.symbols) /\ d.symbols[r].name = x
      BY <3>7, <3>8, FindParts
    <3>10. PICK v \in Enclosing(d, t) : r \in d.tables[v].syms
      BY <3>7, <3>8, FindParts
    <3>11. d.symbols[r].cls # "type"
      BY <2>2, <3>7, <3>8 DEF Free, IsA
    <3>12. v \in 1 .. Len(d.tables) /\ Enclosing(d, v) \subseteq Enclosing(d, t)
      BY <1>1, EnclosingParts
    <3>13. Enclosing(e, t) = Enclosing(d, t)
      BY <1>1, EnclosingStays
    <3>14. CASE d.symbols[r].cls = "func"
      <4>1. e.symbols[r].cls = "func" /\ e.symbols[r].name = x /\ r \in e.tables[v].syms
        BY <1>1, <3>9, <3>10, <3>12, <3>14 DEF Grows
      <4> QED BY <3>13, <4>1
    <3>15. CASE d.symbols[r].cls \in Values
      <4>1. st_findonly(d, 1, x) = tag
        BY <1>1, <3>6, FindOnlyStays DEF tag
      <4>2. IsA(d, tag, "type")
        BY <1>1, <3>1, <3>4 DEF IsA, Grows
      <4>3. HidesNoTag(d, v, r)
        BY <3>10, <3>12 DEF GlobalTags
      <4>w. PICK w \in Enclosing(d, v) : \E q \in d.tables[w].syms :
              d.symbols[q].name = x /\ (q < tag \/ d.symbols[q].cls = "func")
        BY <3>9, <3>15, <4>1, <4>2, <4>3 DEF HidesNoTag
      <4>4. PICK q \in d.tables[w].syms :
              d.symbols[q].name = x /\ (q < tag \/ d.symbols[q].cls = "func")
        BY <4>w
      <4>5. w \in 1 .. Len(d.tables) /\ w \in Enclosing(e, t)
        BY <1>1, <3>12, <3>13, EnclosingParts
      <4>6. q \in 1 .. Len(d.symbols)
        BY <4>5, TableParts
      <4>7. /\ e.symbols[q].name = x /\ e.symbols[q].cls = d.symbols[q].cls
            /\ q \in e.tables[w].syms
        BY <1>1, <4>4, <4>5, <4>6 DEF Grows
      <4> QED BY <4>4, <4>5, <4>7
    <3> QED BY <3>9, <3>11, <3>14, <3>15, SymbolParts
  <2> HIDE DEF tag
  <2> QED BY <2>1, <2>3, <2>4, <2>5 DEF HidesNoTag, tag
<1> QED BY <1>1, <1>2, TagsStay

\* A symbol of a function hides no tag.
LEMMA TagsOfFunctions ==
  ASSUME NEW d, NEW e, WellFormed(d), WellFormed(e), Grows(d, e), Unique(e), GlobalTags(d),
         Len(e.tables) = Len(d.tables), NEW sym, e.symbols[sym].cls = "func",
         \A t \in 1 .. Len(d.tables) : e.tables[t].syms \subseteq d.tables[t].syms \cup {sym}
  PROVE  GlobalTags(e)
<1>1. Len(d.tables) \in Nat
  BY DbParts
<1>2. ASSUME NEW t \in 1 .. Len(e.tables), NEW s \in e.tables[t].syms,
             t > Len(d.tables) \/ s \notin d.tables[t].syms
      PROVE  /\ e.symbols[s].cls = "type" => t = 1 /\ s > Len(d.symbols)
             /\ HidesNoTag(e, t, s)
  <2>1. e.symbols[s].cls = "func"
    BY <1>1, <1>2
  <2> QED BY <2>1 DEF HidesNoTag, Values
<1> QED BY <1>2, TagsStay

\* A function is declared or defined: its parameters hide no tag, nor does it.
LEMMA TagsOfWithFun ==
  ASSUME WellFormed(db), Unique(db), GlobalTags(db), NEW n \in Nat, NEW params \in [1 .. n -> Names],
         NEW f \in Names, NEW state \in {"dec", "def"}, ~FunClash(f, params)
  PROVE  GlobalTags(WithFun(f, params, state))
<1> DEFINE M == Len(db.tables)
           d == FunTable(params)
           e == WithFun(f, params, state)
<1>1. M \in Nat /\ M >= 1 /\ 1 \in 1 .. M
  BY DbParts
<1>2. PICK c : c = new_symbol_table(db, 1)
  OBVIOUS
<1>3. /\ WellFormed(c) /\ Grows(db, c) /\ Unique(c)
      /\ Len(c.tables) = M + 1
      /\ c.tables[M + 1].syms = {}
      /\ \A t \in 1 .. M : c.tables[t] = db.tables[t]
  BY <1>1, <1>2, NewTable
<1> HIDE DEF M
<1>4. GlobalTags(c)
  <2>1. ASSUME NEW t \in 1 .. Len(c.tables), NEW s \in c.tables[t].syms
        PROVE  t <= Len(db.tables) /\ s \in db.tables[t].syms
    <3>1. t \in 1 .. M
      BY <1>1, <1>3
    <3> QED BY <1>1, <1>3, <3>1 DEF M
  <2> QED BY <1>3, <2>1, TagsStayThere
<1>5. AreDeclared(c, d, M + 1, n, params, "int")
  <2>1. M + 1 \in 1 .. Len(c.tables) /\ "int" \in Values
    BY <1>1, <1>3 DEF Values
  <2>2. d = Declare(c, M + 1, params, "int")
    BY <1>2 DEF FunTable, M
  <2> HIDE DEF d
  <2> QED BY <1>3, <2>1, <2>2, Declared
<1> HIDE DEF d
<1>6. GlobalTags(d) /\ WellFormed(d) /\ Unique(d)
  <2>1. M + 1 \in 1 .. Len(c.tables) /\ "int" \in Values
    BY <1>1, <1>3 DEF Values
  <2>2. WellFormed(d) /\ Unique(d)
    BY <1>3, <1>5 DEF AreDeclared
  <2>3. GlobalTags(d)
    BY <1>3, <1>4, <1>5, <2>1, TagsOfDeclarations
  <2> QED BY <2>2, <2>3
<1>7. IsAdded(d, e, M + 1, NewSymbol(f, "func", n, state))
  BY FunAdded DEF d, M
<1> HIDE DEF e
<1>8. NewSymbol(f, "func", n, state).cls = "func"
  <2>1. "func" \in Values \cup {"type", "func"}
    OBVIOUS
  <2> QED BY <2>1, NewSymbols
<1>9. GlobalTags(e)
  <2>1. PICK sym : sym = Len(d.symbols) + 1
    OBVIOUS
  <2>2. e.symbols[sym].cls = "func"
    BY <1>7, <1>8, <2>1 DEF IsAdded
  <2>3. \A t \in 1 .. Len(d.tables) : e.tables[t].syms \subseteq d.tables[t].syms \cup {sym}
    BY <1>7, <2>1 DEF IsAdded
  <2>4. WellFormed(e) /\ Grows(d, e) /\ Unique(e) /\ Len(e.tables) = Len(d.tables)
    BY <1>6, <1>7 DEF IsAdded
  <2> QED BY <1>6, <2>2, <2>3, <2>4, TagsOfFunctions
<1> QED BY <1>9 DEF e

\* A function meets the outermost table.
LEMMA TagsOfRegister ==
  ASSUME NEW d, WellFormed(d), Unique(d), GlobalTags(d), NEW s \in 1 .. Len(d.symbols),
         d.symbols[s].cls = "func", NEW e, IsRegistered(d, e, s)
  PROVE  GlobalTags(e)
<1>1. /\ WellFormed(e) /\ Grows(d, e) /\ Unique(e) /\ Len(e.tables) = Len(d.tables)
      /\ \A t \in 2 .. Len(d.tables) : e.tables[t] = d.tables[t]
      /\ Registers(d, e, s)
  BY DEF IsRegistered
<1>2. e.symbols[s].cls = "func"
  BY <1>1 DEF Grows
<1>3. e.tables[1].syms \subseteq d.tables[1].syms \cup {s}
  BY <1>1 DEF Registers
<1>4. \A t \in 1 .. Len(d.tables) : e.tables[t].syms \subseteq d.tables[t].syms \cup {s}
  <2>1. \A t \in 1 .. Len(d.tables) : t = 1 \/ t \in 2 .. Len(d.tables)
    BY DbParts
  <2> QED BY <1>1, <1>3, <2>1
<1> QED BY <1>1, <1>2, <1>4, TagsOfFunctions

\* Variables are declared, after the tag of their struct.
LEMMA TagsOfDefines ==
  ASSUME NEW d, WellFormed(d), Unique(d), GlobalTags(d), NEW t \in 1 .. Len(d.tables),
         NEW spec \in Spec0, spec # NoSpec, NEW n \in Nat, NEW names \in [1 .. n -> Names]
  PROVE  GlobalTags(Declare(Specified(d, t, spec).db, t, names, Specified(d, t, spec).spec.tp))
<1>1. PICK c, cls : c = Specified(d, t, spec).db /\ cls = Specified(d, t, spec).spec.tp
  OBVIOUS
<1>2. OnlyTags(d, c) /\ cls \in Values
  BY <1>1, SpecifiedTags
<1>3. WellFormed(c) /\ Unique(c) /\ t \in 1 .. Len(c.tables)
  BY <1>2 DEF OnlyTags
<1>4. GlobalTags(c)
  BY <1>2, TagsOfSpecifiers
<1>5. AreDeclared(c, Declare(c, t, names, cls), t, n, names, cls)
  BY <1>2, <1>3, Declared
<1>6. GlobalTags(Declare(c, t, names, cls))
  BY <1>2, <1>3, <1>4, <1>5, TagsOfDeclarations
<1> QED BY <1>1, <1>6

-----------------------------------------------------------------------------
(* What every step of the compiler does to the tables. *)

Evolves(d, e) ==
  /\ WellFormed(e) /\ Grows(d, e) /\ (Unique(d) => Unique(e))
  /\ Unique(d) /\ GlobalTags(d) => GlobalTags(e)
  /\ e.passed => d.passed

LEMMA EvolvesReflexive == ASSUME NEW d, WellFormed(d) PROVE Evolves(d, d)
  BY GrowsReflexive DEF Evolves

\* Symbols change in what a lookup does not look at.
LEMMA EvolvesInPlace ==
  ASSUME NEW d, NEW e, WellFormed(d), WellFormed(e), Grows(d, e), Unique(d) => Unique(e),
         e.tables = d.tables, e.passed => d.passed
  PROVE  Evolves(d, e)
<1>1. ASSUME NEW t \in 1 .. Len(e.tables), NEW s \in e.tables[t].syms
      PROVE  t <= Len(d.tables) /\ s \in d.tables[t].syms
  <2>1. Len(d.tables) \in Nat
    BY DbParts
  <2> QED BY <2>1
<1>2. Unique(d) /\ GlobalTags(d) => GlobalTags(e)
  BY <1>1, TagsStayThere
<1> QED BY <1>2 DEF Evolves

LEMMA EvolvesComplain ==
  ASSUME NEW d, WellFormed(d), NEW cond \in BOOLEAN PROVE Evolves(d, Complain(d, cond))
<1>1. PICK e : e = Complain(d, cond)
  OBVIOUS
<1>2. /\ WellFormed(e) /\ Grows(d, e) /\ (Unique(d) => Unique(e))
      /\ e.tables = d.tables /\ e.passed = (d.passed /\ ~cond)
  BY <1>1, Complained
<1> QED BY <1>1, <1>2, EvolvesInPlace

LEMMA EvolvesNewTable ==
  ASSUME NEW d, WellFormed(d), NEW parent \in 1 .. Len(d.tables)
  PROVE  Evolves(d, new_symbol_table(d, parent))
<1> DEFINE M == Len(d.tables)
<1>1. M \in Nat
  BY DbParts
<1>2. PICK e : e = new_symbol_table(d, parent)
  OBVIOUS
<1>3. /\ WellFormed(e) /\ Grows(d, e) /\ (Unique(d) => Unique(e)) /\ e.passed = d.passed
      /\ Len(e.tables) = M + 1 /\ e.tables[M + 1].syms = {}
      /\ \A t \in 1 .. M : e.tables[t] = d.tables[t]
  BY <1>2, NewTable
<1> HIDE DEF M
<1>4. ASSUME NEW t \in 1 .. Len(e.tables), NEW s \in e.tables[t].syms
      PROVE  t <= Len(d.tables) /\ s \in d.tables[t].syms
  <2>1. t \in 1 .. M
    BY <1>1, <1>3
  <2> QED BY <1>1, <1>3, <2>1 DEF M
<1>5. Unique(d) /\ GlobalTags(d) => GlobalTags(e)
  BY <1>3, <1>4, TagsStayThere
<1>6. Evolves(d, e)
  BY <1>3, <1>5 DEF Evolves
<1> QED BY <1>2, <1>6

LEMMA EvolvesTransitive ==
  ASSUME NEW d, NEW e, NEW f, WellFormed(d), Evolves(d, e), Evolves(e, f)
  PROVE  Evolves(d, f)
<1>1. Grows(d, f)
  BY GrowsTransitive DEF Evolves
<1> QED BY <1>1 DEF Evolves

-----------------------------------------------------------------------------
(* The steps. *)

Kinds == {"extvars", "fundec", "fun", "dec", "id", "neg", "call"}
Nodes == [kind : Kinds, name : Names \cup {NoName}, table : Nat, sym : Nat,
          params : Seq(Names \cup {NoName})]
Contexts == [kind : {"unit", "struct", "block"}, table : Nat, tag : TagNames \cup {NoName},
             fun : Nat, spec : Spec0, stmts : BOOLEAN]
Phases == {"analyse", "translate", "rejected", "translated",
           "unsupported", "aborted", "dangling"}

\* How constructs are nested: everything is in the unit; the tables get larger
\* from one to the next; a struct is in a construct that has no statement yet,
\* a block in blocks that have one; and after a statement comes no definition.
Nested(o, d) ==
  /\ o \in Seq(Contexts) /\ Len(o) >= 1
  /\ o[1].kind = "unit" /\ o[1].table = 1 /\ o[1].fun = None
  /\ \A i \in 1 .. Len(o) :
       /\ o[i].kind = "unit" => i = 1
       /\ o[i].table \in 1 .. Len(d.tables)
       /\ o[i].fun \in 0 .. Len(d.symbols)
       /\ o[i].fun # None => d.symbols[o[i].fun].cls = "func"
       /\ o[i].kind = "struct" => o[i].tag \in TagNames /\ ~o[i - 1].stmts
       /\ o[i].kind = "block" => \A j \in 2 .. i - 1 : o[j].stmts
       /\ o[i].spec # NoSpec => ~o[i].stmts
       /\ \A j \in 1 .. i - 1 : o[j].table < o[i].table

TypeInv ==
  /\ WellFormed(db)
  /\ Nested(open, db)
  /\ nodes \in Seq(Nodes)
  /\ phase \in Phases
  /\ pc \in 1 .. Len(nodes) + 1

-----------------------------------------------------------------------------
(* The constructs that are open. *)

LEMMA NestedParts ==
  ASSUME NEW o, NEW d, Nested(o, d)
  PROVE  /\ o \in Seq(Contexts) /\ Len(o) \in Nat /\ Len(o) >= 1 /\ Len(o) \in 1 .. Len(o)
         /\ Last(o) = o[Len(o)]
         /\ \A i \in 1 .. Len(o) :
              /\ o[i] \in Contexts
              /\ o[i].kind \in {"unit", "struct", "block"}
              /\ o[i].table \in Nat /\ o[i].tag \in TagNames \cup {NoName}
              /\ o[i].fun \in Nat /\ o[i].spec \in Spec0 /\ o[i].stmts \in BOOLEAN
<1>1. o \in Seq(Contexts) /\ Len(o) >= 1
  BY DEF Nested
<1>2. Len(o) \in Nat /\ Len(o) \in 1 .. Len(o)
  BY <1>1
<1>3. ASSUME NEW i \in 1 .. Len(o)
      PROVE  /\ o[i] \in Contexts
             /\ o[i].kind \in {"unit", "struct", "block"}
             /\ o[i].table \in Nat /\ o[i].tag \in TagNames \cup {NoName}
             /\ o[i].fun \in Nat /\ o[i].spec \in Spec0 /\ o[i].stmts \in BOOLEAN
  <2>1. o[i] \in Contexts
    BY <1>1, ElementOfSeq
  <2> QED BY <2>1 DEF Contexts
<1> QED BY <1>1, <1>2, <1>3 DEF Last

LEMMA NestedGrows ==
  ASSUME NEW o, NEW d, NEW e, Nested(o, d), WellFormed(d), WellFormed(e), Grows(d, e)
  PROVE  Nested(o, e)
<1>1. /\ Len(d.symbols) \in Nat /\ Len(e.symbols) \in Nat /\ Len(d.symbols) <= Len(e.symbols)
      /\ Len(d.tables) \in Nat /\ Len(e.tables) \in Nat /\ Len(d.tables) <= Len(e.tables)
  BY DbParts DEF Grows
<1>2. \A i \in 1 .. Len(o) : o[i].table \in 1 .. Len(e.tables) /\ o[i].fun \in 0 .. Len(e.symbols)
  BY <1>1 DEF Nested
<1>3. \A i \in 1 .. Len(o) : o[i].fun # None => e.symbols[o[i].fun].cls = "func"
  <2> TAKE i \in 1 .. Len(o)
  <2>1. o[i].fun \in 0 .. Len(d.symbols) /\ (o[i].fun # None => d.symbols[o[i].fun].cls = "func")
    BY DEF Nested
  <2>2. o[i].fun # None => o[i].fun \in 1 .. Len(d.symbols)
    BY <1>1, <2>1 DEF None
  <2> QED BY <2>1, <2>2 DEF Grows
<1> QED BY <1>2, <1>3 DEF Nested

\* The innermost construct is replaced by one that differs in its specifier,
\* or in whether it has statements.
IsReplaced(o, d, p, c) ==
  /\ Nested(p, d)
  /\ Len(p) = Len(o) /\ p[Len(o)] = c
  /\ \A i \in 1 .. Len(o) : i # Len(o) => p[i] = o[i]

LEMMA NestedReplace ==
  ASSUME NEW o, NEW d, Nested(o, d), NEW c \in Contexts,
         c.kind = Last(o).kind, c.table = Last(o).table, c.tag = Last(o).tag, c.fun = Last(o).fun,
         c.spec # NoSpec => ~c.stmts
  PROVE  IsReplaced(o, d, [o EXCEPT ![Len(o)] = c], c)
<1> DEFINE n == Len(o)
<1>0. PICK p : p = [o EXCEPT ![n] = c]
  OBVIOUS
<1>1. o \in Seq(Contexts) /\ n \in Nat /\ n >= 1 /\ n \in 1 .. n /\ Last(o) = o[n]
  BY NestedParts
<1>2. p \in Seq(Contexts) /\ Len(p) = n
  BY <1>0, <1>1, ExceptSeq
<1>3. p[n] = c /\ \A i \in 1 .. n : i # n => p[i] = o[i]
  BY <1>0, <1>1
<1> HIDE DEF n
<1>4. \A i \in 1 .. n : /\ p[i].kind = o[i].kind /\ p[i].table = o[i].table
                        /\ p[i].tag = o[i].tag /\ p[i].fun = o[i].fun
                        /\ p[i].spec # NoSpec => ~p[i].stmts
  <2> TAKE i \in 1 .. n
  <2>1. CASE i = n
    BY <1>1, <1>3, <2>1
  <2>2. CASE i # n
    BY <1>3, <2>2 DEF Nested, n
  <2> QED BY <2>1, <2>2
<1>5. \A i \in 1 .. n : \A j \in 1 .. i - 1 : j \in 1 .. n /\ p[j] = o[j]
  BY <1>1, <1>3
<1>6. ASSUME NEW i \in 1 .. n
      PROVE  /\ p[i].kind = "unit" => i = 1
             /\ p[i].table \in 1 .. Len(d.tables)
             /\ p[i].fun \in 0 .. Len(d.symbols)
             /\ p[i].fun # None => d.symbols[p[i].fun].cls = "func"
             /\ p[i].kind = "struct" => p[i].tag \in TagNames /\ ~p[i - 1].stmts
             /\ p[i].kind = "block" => \A j \in 2 .. i - 1 : p[j].stmts
             /\ p[i].spec # NoSpec => ~p[i].stmts
             /\ \A j \in 1 .. i - 1 : p[j].table < p[i].table
  <2>1. /\ o[i].kind = "unit" => i = 1
        /\ o[i].table \in 1 .. Len(d.tables)
        /\ o[i].fun \in 0 .. Len(d.symbols)
        /\ o[i].fun # None => d.symbols[o[i].fun].cls = "func"
        /\ o[i].kind = "struct" => o[i].tag \in TagNames /\ ~o[i - 1].stmts
        /\ o[i].kind = "block" => \A j \in 2 .. i - 1 : o[j].stmts
        /\ \A j \in 1 .. i - 1 : o[j].table < o[i].table
    BY DEF Nested, n
  <2>2. p[i].kind = "struct" => ~p[i - 1].stmts
    <3> SUFFICES ASSUME o[i].kind = "struct" PROVE ~p[i - 1].stmts
      BY <1>4
    <3>1. i # 1
      BY DEF Nested
    <3>2. i - 1 \in 1 .. i - 1
      BY <1>1, <3>1
    <3> QED BY <1>5, <2>1, <3>2
  <2>3. p[i].kind = "block" => \A j \in 2 .. i - 1 : p[j].stmts
    <3>1. \A j \in 2 .. i - 1 : j \in 1 .. i - 1
      OBVIOUS
    <3> QED BY <1>4, <1>5, <2>1, <3>1
  <2>4. \A j \in 1 .. i - 1 : p[j].table < p[i].table
    BY <1>4, <1>5, <2>1
  <2> QED BY <1>4, <2>1, <2>2, <2>3, <2>4
<1>7. p[1].kind = "unit" /\ p[1].table = 1 /\ p[1].fun = None
  BY <1>1, <1>4 DEF Nested
<1>8. Nested(p, d)
  BY <1>1, <1>2, <1>6, <1>7 DEF Nested
<1> QED BY <1>0, <1>2, <1>3, <1>8 DEF n, IsReplaced

\* What differs.
IsWith(o, p, spec, stmts) ==
  /\ Len(p) = Len(o)
  /\ \A i \in 1 .. Len(o) : i # Len(o) => p[i] = o[i]
  /\ LET n == Len(o)
     IN /\ p[n].kind = o[n].kind /\ p[n].table = o[n].table
        /\ p[n].tag = o[n].tag /\ p[n].fun = o[n].fun
        /\ p[n].spec = spec /\ p[n].stmts = stmts

LEMMA NestedSpec ==
  ASSUME NEW o, NEW d, Nested(o, d), NEW spec \in Spec0, spec # NoSpec => ~Last(o).stmts
  PROVE  /\ Nested([o EXCEPT ![Len(o)].spec = spec], d)
         /\ IsWith(o, [o EXCEPT ![Len(o)].spec = spec], spec, Last(o).stmts)
<1>1. PICK n : n = Len(o)
  OBVIOUS
<1>2. PICK h : h = o[n]
  OBVIOUS
<1>3. h \in Contexts /\ Last(o) = h
  BY <1>1, <1>2, NestedParts
<1>4. PICK c : c = [h EXCEPT !.spec = spec]
  OBVIOUS
<1>5. /\ c \in Contexts /\ c.kind = h.kind /\ c.table = h.table /\ c.tag = h.tag
      /\ c.fun = h.fun /\ c.spec = spec /\ c.stmts = h.stmts
  BY <1>3, <1>4 DEF Contexts
<1>6. [o EXCEPT ![n].spec = spec] = [o EXCEPT ![n] = c]
  BY <1>2, <1>4
<1>7. PICK p : p = [o EXCEPT ![n] = c]
  OBVIOUS
<1>8. /\ Nested(p, d)
      /\ Len(p) = n /\ p[n] = c
      /\ \A i \in 1 .. n : i # n => p[i] = o[i]
  <2>1. c.spec # NoSpec => ~c.stmts
    BY <1>3, <1>5
  <2>2. IsReplaced(o, d, [o EXCEPT ![Len(o)] = c], c)
    BY <1>3, <1>5, <2>1, NestedReplace
  <2> QED BY <1>1, <1>7, <2>2 DEF IsReplaced
<1>9. IsWith(o, p, spec, h.stmts)
  BY <1>1, <1>2, <1>5, <1>8 DEF IsWith
<1> QED BY <1>1, <1>3, <1>6, <1>7, <1>8, <1>9

LEMMA NestedStmts ==
  ASSUME NEW o, NEW d, Nested(o, d), Last(o).spec = NoSpec
  PROVE  /\ Nested([o EXCEPT ![Len(o)].stmts = TRUE], d)
         /\ IsWith(o, [o EXCEPT ![Len(o)].stmts = TRUE], NoSpec, TRUE)
<1>1. PICK n : n = Len(o)
  OBVIOUS
<1>2. PICK h : h = o[n]
  OBVIOUS
<1>3. h \in Contexts /\ Last(o) = h
  BY <1>1, <1>2, NestedParts
<1>4. PICK c : c = [h EXCEPT !.stmts = TRUE]
  OBVIOUS
<1>5. /\ c \in Contexts /\ c.kind = h.kind /\ c.table = h.table /\ c.tag = h.tag
      /\ c.fun = h.fun /\ c.spec = h.spec /\ c.stmts = TRUE
  BY <1>3, <1>4 DEF Contexts
<1>6. [o EXCEPT ![n].stmts = TRUE] = [o EXCEPT ![n] = c]
  BY <1>2, <1>4
<1>7. PICK p : p = [o EXCEPT ![n] = c]
  OBVIOUS
<1>8. /\ Nested(p, d)
      /\ Len(p) = n /\ p[n] = c
      /\ \A i \in 1 .. n : i # n => p[i] = o[i]
  <2>1. c.spec # NoSpec => ~c.stmts
    BY <1>3, <1>5
  <2>2. IsReplaced(o, d, [o EXCEPT ![Len(o)] = c], c)
    BY <1>3, <1>5, <2>1, NestedReplace
  <2> QED BY <1>1, <1>7, <2>2 DEF IsReplaced
<1>9. IsWith(o, p, NoSpec, TRUE)
  BY <1>1, <1>2, <1>3, <1>5, <1>8 DEF IsWith
<1> QED BY <1>1, <1>6, <1>7, <1>8, <1>9

\* A construct is opened.
LEMMA NestedAppend ==
  ASSUME NEW o, NEW d, NEW e, Nested(o, d), WellFormed(d), WellFormed(e), Grows(d, e),
         NEW c \in Contexts, c.kind # "unit", c.spec = NoSpec,
         c.table \in Len(d.tables) + 1 .. Len(e.tables), c.fun \in 0 .. Len(e.symbols),
         c.fun # None => e.symbols[c.fun].cls = "func",
         c.kind = "struct" => c.tag \in TagNames /\ ~Last(o).stmts,
         c.kind = "block" => \A j \in 2 .. Len(o) : o[j].stmts
  PROVE  /\ Nested(Append(o, c), e)
         /\ Len(Append(o, c)) = Len(o) + 1 /\ Append(o, c)[Len(o) + 1] = c
         /\ \A i \in 1 .. Len(o) : Append(o, c)[i] = o[i]
<1> DEFINE n == Len(o)
<1>1. o \in Seq(Contexts) /\ n \in Nat /\ n >= 1 /\ n \in 1 .. n /\ Last(o) = o[n]
  BY NestedParts
<1>2. PICK p : p = Append(o, c)
  OBVIOUS
<1>3. /\ p \in Seq(Contexts) /\ Len(p) = n + 1 /\ p[n + 1] = c
      /\ \A i \in 1 .. n : p[i] = o[i]
  BY <1>1, <1>2, AppendProperties
<1>4. Nested(o, e)
  BY NestedGrows
<1> HIDE DEF n
<1>5. ASSUME NEW i \in 1 .. n + 1
      PROVE  /\ p[i].kind = "unit" => i = 1
             /\ p[i].table \in 1 .. Len(e.tables)
             /\ p[i].fun \in 0 .. Len(e.symbols)
             /\ p[i].fun # None => e.symbols[p[i].fun].cls = "func"
             /\ p[i].kind = "struct" => p[i].tag \in TagNames /\ ~p[i - 1].stmts
             /\ p[i].kind = "block" => \A j \in 2 .. i - 1 : p[j].stmts
             /\ p[i].spec # NoSpec => ~p[i].stmts
             /\ \A j \in 1 .. i - 1 : p[j].table < p[i].table
  <2>1. CASE i = n + 1
    <3>1. \A j \in 1 .. n : p[j].table < c.table
      <4>1. \A j \in 1 .. n : o[j].table \in 1 .. Len(d.tables)
        BY DEF Nested, n
      <4>2. Len(d.tables) \in Nat /\ Len(e.tables) \in Nat
        BY DbParts
      <4> QED BY <1>3, <4>1, <4>2
    <3>2. c.table \in 1 .. Len(e.tables)
      <4>1. Len(d.tables) \in Nat /\ Len(e.tables) \in Nat
        BY DbParts
      <4> QED BY <4>1
    <3>3. c.kind = "struct" => ~p[n].stmts
      BY <1>1, <1>3
    <3>4. c.kind = "block" => \A j \in 2 .. n : p[j].stmts
      <4>1. \A j \in 2 .. n : j \in 1 .. n
        BY <1>1
      <4> QED BY <1>3, <4>1 DEF n
    <3>5. i - 1 = n /\ p[i] = c
      BY <1>1, <1>3, <2>1
    <3> QED BY <3>1, <3>2, <3>3, <3>4, <3>5
  <2>2. CASE i \in 1 .. n
    <3>1. p[i] = o[i] /\ \A j \in 1 .. i - 1 : p[j] = o[j]
      BY <1>1, <1>3, <2>2
    <3>2. o[i].kind = "struct" => p[i - 1] = o[i - 1]
      <4> SUFFICES ASSUME o[i].kind = "struct" PROVE p[i - 1] = o[i - 1]
        OBVIOUS
      <4>1. i # 1
        BY DEF Nested
      <4> QED BY <1>1, <2>2, <3>1, <4>1
    <3>3. \A j \in 2 .. i - 1 : j \in 1 .. i - 1
      OBVIOUS
    <3>4. /\ o[i].kind = "unit" => i = 1
          /\ o[i].table \in 1 .. Len(e.tables)
          /\ o[i].fun \in 0 .. Len(e.symbols)
          /\ o[i].fun # None => e.symbols[o[i].fun].cls = "func"
          /\ o[i].kind = "struct" => o[i].tag \in TagNames /\ ~o[i - 1].stmts
          /\ o[i].kind = "block" => \A j \in 2 .. i - 1 : o[j].stmts
          /\ o[i].spec # NoSpec => ~o[i].stmts
          /\ \A j \in 1 .. i - 1 : o[j].table < o[i].table
      BY <1>4, <2>2 DEF Nested, n
    <3> QED BY <3>1, <3>2, <3>3, <3>4
  <2> QED BY <1>1, <2>1, <2>2
<1>6. p[1].kind = "unit" /\ p[1].table = 1 /\ p[1].fun = None
  BY <1>1, <1>3 DEF Nested
<1>7. Nested(p, e)
  BY <1>1, <1>3, <1>5, <1>6 DEF Nested
<1> QED BY <1>2, <1>3, <1>7 DEF n

\* The innermost construct is closed.
LEMMA NestedFront ==
  ASSUME NEW o, NEW d, Nested(o, d), Len(o) # 1
  PROVE  /\ Nested(Front(o), d)
         /\ Len(Front(o)) = Len(o) - 1
         /\ \A i \in 1 .. Len(o) - 1 : Front(o)[i] = o[i]
<1> DEFINE n == Len(o)
<1>1. o \in Seq(Contexts) /\ n \in Nat /\ n >= 2
  <2>1. o \in Seq(Contexts) /\ n \in Nat /\ n >= 1
    BY NestedParts
  <2>2. n # 1
    OBVIOUS
  <2> HIDE DEF n
  <2> QED BY <2>1, <2>2
<1>2. PICK p : p = Front(o)
  OBVIOUS
<1>3. p \in Seq(Contexts) /\ Len(p) = n - 1 /\ \A i \in 1 .. n - 1 : p[i] = o[i]
  BY <1>1, <1>2 DEF Front
<1> HIDE DEF n
<1>4. ASSUME NEW i \in 1 .. n - 1
      PROVE  /\ p[i].kind = "unit" => i = 1
             /\ p[i].table \in 1 .. Len(d.tables)
             /\ p[i].fun \in 0 .. Len(d.symbols)
             /\ p[i].fun # None => d.symbols[p[i].fun].cls = "func"
             /\ p[i].kind = "struct" => p[i].tag \in TagNames /\ ~p[i - 1].stmts
             /\ p[i].kind = "block" => \A j \in 2 .. i - 1 : p[j].stmts
             /\ p[i].spec # NoSpec => ~p[i].stmts
             /\ \A j \in 1 .. i - 1 : p[j].table < p[i].table
  <2>1. i \in 1 .. n /\ p[i] = o[i] /\ \A j \in 1 .. i - 1 : p[j] = o[j]
    BY <1>1, <1>3
  <2>2. o[i].kind = "struct" => p[i - 1] = o[i - 1]
    <3> SUFFICES ASSUME o[i].kind = "struct" PROVE p[i - 1] = o[i - 1]
      OBVIOUS
    <3>1. i # 1
      BY DEF Nested
    <3> QED BY <1>1, <2>1, <3>1
  <2>3. \A j \in 2 .. i - 1 : j \in 1 .. i - 1
    OBVIOUS
  <2>4. /\ o[i].kind = "unit" => i = 1
        /\ o[i].table \in 1 .. Len(d.tables)
        /\ o[i].fun \in 0 .. Len(d.symbols)
        /\ o[i].fun # None => d.symbols[o[i].fun].cls = "func"
        /\ o[i].kind = "struct" => o[i].tag \in TagNames /\ ~o[i - 1].stmts
        /\ o[i].kind = "block" => \A j \in 2 .. i - 1 : o[j].stmts
        /\ o[i].spec # NoSpec => ~o[i].stmts
        /\ \A j \in 1 .. i - 1 : o[j].table < o[i].table
    BY <2>1 DEF Nested, n
  <2> QED BY <2>1, <2>2, <2>3, <2>4
<1>5. p[1].kind = "unit" /\ p[1].table = 1 /\ p[1].fun = None
  BY <1>1, <1>3 DEF Nested
<1>6. Nested(p, d)
  BY <1>1, <1>3, <1>4, <1>5 DEF Nested
<1> QED BY <1>2, <1>3, <1>6 DEF n

-----------------------------------------------------------------------------
(* The steps, one by one. *)

LEMMA HereParts ==
  ASSUME TypeInv
  PROVE  /\ WellFormed(db) /\ Nested(open, db)
         /\ Len(open) \in Nat /\ Len(open) >= 1 /\ Len(open) \in 1 .. Len(open)
         /\ Here = open[Len(open)] /\ Here \in Contexts
         /\ Here.kind \in {"unit", "struct", "block"}
         /\ Here.table \in Nat /\ Here.tag \in TagNames \cup {NoName}
         /\ Here.fun \in Nat /\ Here.spec \in Spec0 /\ Here.stmts \in BOOLEAN
         /\ Here.table \in 1 .. Len(db.tables)
         /\ Here.kind = "unit" => Len(open) = 1 /\ Here.table = 1
         /\ Here.kind # "unit" => Len(open) # 1 /\ Here.table # 1
         /\ Here.kind = "struct" => Here.tag \in TagNames
         /\ Here.spec # NoSpec => ~Here.stmts
         /\ Here.fun # None => /\ Here.fun \in 1 .. Len(db.symbols)
                               /\ db.symbols[Here.fun].cls = "func"
<1> DEFINE n == Len(open)
<1>1. WellFormed(db) /\ Nested(open, db)
  BY DEF TypeInv
<1>2. /\ n \in Nat /\ n >= 1 /\ n \in 1 .. n
      /\ Here = open[n] /\ Here \in Contexts
      /\ Here.kind \in {"unit", "struct", "block"}
      /\ Here.table \in Nat /\ Here.tag \in TagNames \cup {NoName}
      /\ Here.fun \in Nat /\ Here.spec \in Spec0 /\ Here.stmts \in BOOLEAN
  BY <1>1, NestedParts DEF Here
<1> HIDE DEF Here, n
<1>3. /\ open[1].kind = "unit" /\ open[1].table = 1
      /\ Here.kind = "unit" => n = 1
      /\ Here.table \in 1 .. Len(db.tables)
      /\ Here.fun \in 0 .. Len(db.symbols)
      /\ Here.fun # None => db.symbols[Here.fun].cls = "func"
      /\ Here.kind = "struct" => Here.tag \in TagNames
      /\ Here.spec # NoSpec => ~Here.stmts
      /\ \A j \in 1 .. n - 1 : open[j].table < Here.table
  BY <1>1, <1>2 DEF Nested, n
<1>4. Here.kind # "unit" => n # 1 /\ Here.table # 1
  <2>1. ASSUME n # 1 PROVE Here.table # 1
    <3>1. 1 \in 1 .. n - 1
      BY <1>2, <2>1
    <3> QED BY <1>3, <3>1
  <2> QED BY <1>2, <1>3, <2>1
<1>5. Len(db.symbols) \in Nat
  BY <1>1, DbParts
<1>6. Here.kind = "unit" => n = 1 /\ Here.table = 1
  BY <1>2, <1>3
<1>7. Here.fun # None => Here.fun \in 1 .. Len(db.symbols)
  BY <1>3, <1>5 DEF None
<1> QED BY <1>1, <1>2, <1>3, <1>4, <1>6, <1>7 DEF n

\* The innermost construct gets another specifier.
LEMMA WithSpec ==
  ASSUME TypeInv, NEW spec \in Spec0, spec # NoSpec => ~Here.stmts
  PROVE  /\ Nested(With(spec), db)
         /\ IsWith(open, With(spec), spec, Here.stmts)
<1>1. Nested(open, db) /\ (spec # NoSpec => ~Last(open).stmts)
  BY HereParts DEF Here
<1>2. /\ Nested([open EXCEPT ![Len(open)].spec = spec], db)
      /\ IsWith(open, [open EXCEPT ![Len(open)].spec = spec], spec, Last(open).stmts)
  BY <1>1, NestedSpec
<1> QED BY <1>2 DEF With, Here

LEMMA NoSpecIsSpec == NoSpec \in Spec0 /\ IntSpec \in Spec0 /\ IntSpec # NoSpec
<1>1. IntSpec # NoSpec
  BY DEF IntSpec, NoSpec
<1> QED BY <1>1 DEF Spec0

\* A sequence of at most n elements.
LEMMA SeqUpTo ==
  ASSUME NEW S, NEW n \in Nat, NEW s \in SeqsUpTo(S, n)
  PROVE  /\ s \in Seq(S) /\ Len(s) \in Nat /\ s \in [1 .. Len(s) -> S]
<1>1. PICK k \in 0 .. n : s \in [1 .. k -> S]
  BY DEF SeqsUpTo
<1> QED BY <1>1

LEMMA IsDefinedComplain ==
  ASSUME NEW d, NEW e, WellFormed(d), NEW t, NEW n, NEW names, IsDefined(d, e, t, n, names),
         NEW cond \in BOOLEAN
  PROVE  IsDefined(d, Complain(e, cond), t, n, names)
<1>1. PICK f : f = Complain(e, cond)
  OBVIOUS
<1>2. WellFormed(e)
  BY DEF IsDefined
<1>3. /\ WellFormed(f) /\ Grows(e, f) /\ (Unique(e) => Unique(f))
      /\ f.symbols = e.symbols /\ f.tables = e.tables
      /\ f.passed => e.passed
  BY <1>1, <1>2, Complained
<1>4. Grows(d, f)
  BY <1>2, <1>3, GrowsTransitive DEF IsDefined
<1>5. IsDefined(d, f, t, n, names)
  BY <1>3, <1>4 DEF IsDefined
<1> QED BY <1>1, <1>5

LEMMA EvolvesDefine ==
  ASSUME NEW d, WellFormed(d), NEW t \in 1 .. Len(d.tables),
         NEW spec \in Spec0, spec # NoSpec, NEW n \in Nat, NEW names \in [1 .. n -> Names],
         NEW e, e = Declare(Specified(d, t, spec).db, t, names, Specified(d, t, spec).spec.tp)
  PROVE  IsDefined(d, e, t, n, names) /\ Evolves(d, e)
<1>1. IsDefined(d, e, t, n, names)
  BY Defines
<1>2. Unique(d) /\ GlobalTags(d) => GlobalTags(e)
  BY TagsOfDefines
<1> QED BY <1>1, <1>2 DEF IsDefined, Evolves

LEMMA ExtDefStructStep ==
  ASSUME TypeInv, ExtDefStruct
  PROVE  OnlyTags(db, db') /\ Evolves(db, db')
<1>1. Here.spec \in StructSpec /\ db' = check_create(db, Here.spec).db
  <2>1. Here.spec \in Spec0 /\ IsStruct(Here.spec)
    BY HereParts DEF ExtDefStruct
  <2>2. Here.spec # NoSpec /\ Here.spec # IntSpec
    BY <2>1 DEF IsStruct, NoSpec, IntSpec
  <2> QED BY <2>1, <2>2 DEF Spec0, ExtDefStruct
<1>2. WellFormed(db)
  BY HereParts
<1>3. OnlyTags(db, db')
  BY <1>1, <1>2, CheckCreated
<1>4. Unique(db) /\ GlobalTags(db) => GlobalTags(db')
  BY <1>2, <1>3, TagsOfSpecifiers
<1> QED BY <1>3, <1>4 DEF OnlyTags, Evolves

LEMMA ExtDefVarsStep ==
  ASSUME TypeInv, NEW names \in SeqsUpTo(VarNames, MaxDecs), ExtDefVars(names)
  PROVE  /\ IsDefined(db, db', 1, Len(names), names) /\ Evolves(db, db')
         /\ Node("extvars", NoName, 1, None, names) \in Nodes
<1>1. /\ names \in Seq(VarNames) /\ Len(names) \in Nat /\ names \in [1 .. Len(names) -> VarNames]
  BY BoundsAssumption, SeqUpTo
<1>2. names \in [1 .. Len(names) -> Names] /\ names \in Seq(Names \cup {NoName})
  BY <1>1 DEF Names
<1>3. /\ WellFormed(db) /\ 1 \in 1 .. Len(db.tables)
      /\ Here.spec \in Spec0 /\ Here.spec # NoSpec
      /\ db' = Declare(Specified(db, 1, Here.spec).db, 1, names, Specified(db, 1, Here.spec).spec.tp)
  BY HereParts DEF ExtDefVars
<1>4. IsDefined(db, db', 1, Len(names), names) /\ Evolves(db, db')
  BY <1>1, <1>2, <1>3, EvolvesDefine
<1>5. Node("extvars", NoName, 1, None, names) \in Nodes
  BY <1>2 DEF Node, Nodes, Kinds, None
<1> QED BY <1>4, <1>5

\* The tables in the middle of a definition or a declaration of a function.
LEMMA WithFunStep ==
  ASSUME TypeInv, NEW f \in FunNames, NEW params \in SeqsUpTo(ParamNames, MaxParams),
         NEW state \in {"dec", "def"}, ~FunClash(f, params)
  PROVE  /\ IsWithFun(db, WithFun(f, params, state), f, Len(params), params, state)
         /\ Evolves(db, WithFun(f, params, state))
         /\ Len(params) \in Nat /\ params \in [1 .. Len(params) -> Names]
         /\ params \in Seq(Names \cup {NoName}) /\ f \in Names
<1>1. /\ params \in Seq(ParamNames) /\ Len(params) \in Nat
      /\ params \in [1 .. Len(params) -> ParamNames]
  BY BoundsAssumption, SeqUpTo
<1>2. params \in [1 .. Len(params) -> Names] /\ params \in Seq(Names \cup {NoName}) /\ f \in Names
  BY <1>1 DEF Names
<1>3. WellFormed(db)
  BY HereParts
<1>4. IsWithFun(db, WithFun(f, params, state), f, Len(params), params, state)
  BY <1>1, <1>2, <1>3, WithFuns
<1>5. Unique(db) /\ GlobalTags(db) => GlobalTags(WithFun(f, params, state))
  BY <1>1, <1>2, <1>3, TagsOfWithFun
<1> QED BY <1>1, <1>2, <1>4, <1>5 DEF IsWithFun, Evolves

\* The symbol of the function is the last one.
LEMMA FunSymbol ==
  ASSUME NEW d, NEW e, WellFormed(d), NEW f \in Names, NEW n \in Nat, NEW params,
         NEW state \in {"dec", "def"}, IsWithFun(d, e, f, n, params, state)
  PROVE  /\ Len(e.symbols) = Len(d.symbols) + n + 1
         /\ Len(e.symbols) \in 1 .. Len(e.symbols)
         /\ e.symbols[Len(e.symbols)].name = f /\ e.symbols[Len(e.symbols)].cls = "func"
         /\ e.symbols[Len(e.symbols)].argc = n /\ e.symbols[Len(e.symbols)].state = state
<1>1. Len(d.symbols) \in Nat
  BY DbParts
<1>2. Len(e.symbols) = Len(d.symbols) + n + 1
  BY DEF IsWithFun
<1>3. e.symbols[Len(e.symbols)] = NewSymbol(f, "func", n, state)
  BY <1>2 DEF IsWithFun
<1>4. /\ NewSymbol(f, "func", n, state).name = f
      /\ NewSymbol(f, "func", n, state).cls = "func"
      /\ NewSymbol(f, "func", n, state).argc = n
      /\ NewSymbol(f, "func", n, state).state = state
  BY NewSymbols
<1> QED BY <1>1, <1>2, <1>3, <1>4

LEMMA ExtDefFunDecStep ==
  ASSUME TypeInv, NEW f \in FunNames, NEW params \in SeqsUpTo(ParamNames, MaxParams),
         ExtDefFunDec(f, params)
  PROVE  /\ \E d : /\ IsWithFun(db, d, f, Len(params), params, "dec")
                   /\ IsRegistered(d, db', Len(d.symbols))
         /\ Evolves(db, db')
         /\ Node("fundec", f, 1, None, params) \in Nodes
         /\ Len(params) \in Nat /\ f \in Names
<1>1. PICK d : d = WithFun(f, params, "dec")
  OBVIOUS
<1>2. /\ IsWithFun(db, d, f, Len(params), params, "dec") /\ Evolves(db, d)
      /\ Len(params) \in Nat
      /\ params \in Seq(Names \cup {NoName}) /\ f \in Names
  BY <1>1, WithFunStep DEF ExtDefFunDec
<1>3. WellFormed(db) /\ WellFormed(d)
  BY <1>2, HereParts DEF IsWithFun
<1>4. Len(d.symbols) \in 1 .. Len(d.symbols) /\ d.symbols[Len(d.symbols)].cls = "func"
  BY <1>2, <1>3, FunSymbol
<1>5. db' = Register(d, Len(d.symbols))
  BY <1>1 DEF ExtDefFunDec
<1>6. IsRegistered(d, db', Len(d.symbols))
  BY <1>3, <1>4, <1>5, Registered
<1>7. Evolves(d, db')
  BY <1>3, <1>4, <1>6, TagsOfRegister DEF IsRegistered, Evolves
<1>8. Evolves(db, db')
  BY <1>2, <1>3, <1>7, EvolvesTransitive
<1>9. Node("fundec", f, 1, None, params) \in Nodes
  BY <1>2 DEF Node, Nodes, Kinds, None
<1>10. \E c : IsWithFun(db, c, f, Len(params), params, "dec") /\ IsRegistered(c, db', Len(c.symbols))
  <2> WITNESS d
  <2> QED BY <1>2, <1>6
<1> QED BY <1>2, <1>8, <1>9, <1>10

LEMMA OpenFunStep ==
  ASSUME TypeInv, NEW f \in FunNames, NEW params \in SeqsUpTo(ParamNames, MaxParams),
         OpenFun(f, params)
  PROVE  /\ \E d : /\ IsWithFun(db, d, f, Len(params), params, "def")
                   /\ db'.symbols = d.symbols /\ db'.passed = d.passed
                   /\ Len(db'.tables) = Len(d.tables) + 1
                   /\ db'.tables[Len(d.tables) + 1].parent = Len(d.tables)
                   /\ db'.tables[Len(d.tables) + 1].syms = {}
                   /\ \A t \in 1 .. Len(d.tables) : db'.tables[t] = d.tables[t]
                   /\ open' = Append(With(NoSpec),
                                     Context("block", Len(d.tables) + 1, NoName, Len(d.symbols)))
                   /\ nodes' = Append(nodes, Node("fun", f, Len(d.tables), Len(d.symbols), params))
         /\ Evolves(db, db')
         /\ Nested(open', db')
         /\ nodes' \in Seq(Nodes) /\ Len(nodes') = Len(nodes) + 1
         /\ \A i \in 1 .. Len(nodes) : nodes'[i] = nodes[i]
         /\ Len(params) \in Nat /\ f \in Names
<1>1. PICK d : d = WithFun(f, params, "def")
  OBVIOUS
<1>2. /\ IsWithFun(db, d, f, Len(params), params, "def") /\ Evolves(db, d)
      /\ Len(params) \in Nat
      /\ params \in Seq(Names \cup {NoName}) /\ f \in Names
  BY <1>1, WithFunStep DEF OpenFun
<1>3. WellFormed(db) /\ WellFormed(d) /\ Grows(db, d)
  BY <1>2, HereParts DEF IsWithFun
<1>4. Len(d.symbols) \in 1 .. Len(d.symbols) /\ d.symbols[Len(d.symbols)].cls = "func"
  BY <1>2, <1>3, FunSymbol
<1>5. /\ Len(db.tables) \in Nat /\ Len(db.symbols) \in Nat
      /\ Len(d.tables) \in Nat /\ Len(d.symbols) \in Nat
      /\ Len(d.tables) \in 1 .. Len(d.tables)
      /\ Len(db.tables) <= Len(d.tables)
  <2>1. Len(d.tables) \in Nat /\ Len(d.tables) >= 1
    BY <1>3, DbParts
  <2> QED BY <1>3, <2>1, DbParts DEF Grows
<1>6. PICK table : table = Len(d.tables)
  OBVIOUS
<1>7. /\ db' = new_symbol_table(d, table)
      /\ open' = Append(With(NoSpec), Context("block", table + 1, NoName, Len(d.symbols)))
      /\ nodes' = Append(nodes, Node("fun", f, table, Len(d.symbols), params))
  BY <1>1, <1>6 DEF OpenFun
<1>8. /\ WellFormed(db') /\ Grows(d, db')
      /\ db'.symbols = d.symbols /\ db'.passed = d.passed
      /\ Len(db'.tables) = table + 1
      /\ db'.tables[table + 1].parent = table /\ db'.tables[table + 1].syms = {}
      /\ \A t \in 1 .. table : db'.tables[t] = d.tables[t]
  BY <1>3, <1>5, <1>6, <1>7, NewTable
<1>9. Evolves(d, db')
  BY <1>3, <1>5, <1>6, <1>7, EvolvesNewTable
<1>10. Evolves(db, db')
  BY <1>2, <1>3, <1>9, EvolvesTransitive
<1>11. Nested(open', db')
  <2>1. PICK o : o = With(NoSpec)
    OBVIOUS
  <2>2. Nested(o, db) /\ IsWith(open, o, NoSpec, Here.stmts)
    BY <2>1, NoSpecIsSpec, WithSpec
  <2>3. Len(o) = 1
    BY <2>2, HereParts DEF IsWith, OpenFun
  <2>4. PICK c : c = Context("block", table + 1, NoName, Len(d.symbols))
    OBVIOUS
  <2>5. /\ c \in Contexts /\ c.kind = "block" /\ c.spec = NoSpec
        /\ c.table = table + 1 /\ c.fun = Len(d.symbols)
    BY <1>5, <1>6, <2>4, NoSpecIsSpec DEF Context, Contexts
  <2>6. \A j \in 2 .. Len(o) : o[j].stmts
    BY <2>3
  <2>7. /\ c.table \in Len(db.tables) + 1 .. Len(db'.tables)
        /\ c.fun \in 0 .. Len(db'.symbols)
        /\ c.fun # None => db'.symbols[c.fun].cls = "func"
    BY <1>4, <1>5, <1>6, <1>8, <2>5
  <2>8. WellFormed(db') /\ Grows(db, db')
    BY <1>10 DEF Evolves
  <2>9. Nested(Append(o, c), db')
    BY <1>3, <2>2, <2>5, <2>6, <2>7, <2>8, NestedAppend
  <2> QED BY <1>7, <2>1, <2>4, <2>9
<1>12. /\ nodes' \in Seq(Nodes) /\ Len(nodes') = Len(nodes) + 1
       /\ \A i \in 1 .. Len(nodes) : nodes'[i] = nodes[i]
  <2>1. Node("fun", f, table, Len(d.symbols), params) \in Nodes
    BY <1>2, <1>5, <1>6 DEF Node, Nodes, Kinds
  <2>2. nodes \in Seq(Nodes)
    BY DEF TypeInv
  <2> QED BY <1>7, <2>1, <2>2, AppendProperties
<1>13. \E c : /\ IsWithFun(db, c, f, Len(params), params, "def")
              /\ db'.symbols = c.symbols /\ db'.passed = c.passed
              /\ Len(db'.tables) = Len(c.tables) + 1
              /\ db'.tables[Len(c.tables) + 1].parent = Len(c.tables)
              /\ db'.tables[Len(c.tables) + 1].syms = {}
              /\ \A t \in 1 .. Len(c.tables) : db'.tables[t] = c.tables[t]
              /\ open' = Append(With(NoSpec),
                                Context("block", Len(c.tables) + 1, NoName, Len(c.symbols)))
              /\ nodes' = Append(nodes, Node("fun", f, Len(c.tables), Len(c.symbols), params))
  <2> WITNESS d
  <2> QED BY <1>2, <1>6, <1>7, <1>8
<1> QED BY <1>2, <1>10, <1>11, <1>12, <1>13

\* A block inside a function.
LEMMA OpenBlockStep ==
  ASSUME TypeInv, OpenBlock
  PROVE  /\ Evolves(db, db') /\ Nested(open', db')
         /\ db'.symbols = db.symbols /\ db'.passed = db.passed
         /\ LET M == Len(db.tables)
                n == Len(open)
            IN /\ Len(db'.tables) = M + 1
               /\ db'.tables[M + 1].parent = Here.table
               /\ db'.tables[M + 1].syms = {}
               /\ \A t \in 1 .. M : db'.tables[t] = db.tables[t]
               /\ Len(open') = n + 1
               /\ \A i \in 1 .. n : /\ open'[i].kind = open[i].kind
                                    /\ open'[i].table = open[i].table
                                    /\ open'[i].fun = open[i].fun
                                    /\ open[i].stmts => open'[i].stmts
               /\ open'[n + 1] = Context("block", M + 1, NoName, None)
<1> DEFINE M == Len(db.tables)
           n == Len(open)
           c == Context("block", M + 1, NoName, None)
<1>1. /\ WellFormed(db) /\ Nested(open, db) /\ n \in Nat /\ n >= 1
      /\ Here = open[n] /\ Here.kind = "block" /\ Here.spec = NoSpec
      /\ Here.table \in 1 .. M /\ M \in Nat
  BY HereParts, DbParts DEF OpenBlock
<1>2. db' = new_symbol_table(db, Here.table)
  BY DEF OpenBlock
<1>3. /\ WellFormed(db') /\ Grows(db, db')
      /\ db'.symbols = db.symbols /\ db'.passed = db.passed
      /\ Len(db'.tables) = M + 1
      /\ db'.tables[M + 1].parent = Here.table /\ db'.tables[M + 1].syms = {}
      /\ \A t \in 1 .. M : db'.tables[t] = db.tables[t]
  <2>1. PICK table : table = Here.table
    OBVIOUS
  <2>2. table \in 1 .. Len(db.tables) /\ db' = new_symbol_table(db, table)
    BY <1>1, <1>2, <2>1
  <2>3. WellFormed(db)
    BY <1>1
  <2>4. /\ WellFormed(db') /\ Grows(db, db')
        /\ db'.symbols = db.symbols /\ db'.passed = db.passed
        /\ Len(db'.tables) = Len(db.tables) + 1
        /\ db'.tables[Len(db.tables) + 1].parent = table
        /\ db'.tables[Len(db.tables) + 1].syms = {}
        /\ \A t \in 1 .. Len(db.tables) : db'.tables[t] = db.tables[t]
    BY <2>2, <2>3, NewTable
  <2> QED BY <2>1, <2>4
<1>4. Evolves(db, db')
  BY <1>1, <1>2, EvolvesNewTable
<1>5. PICK o : o = [open EXCEPT ![Len(open)].stmts = TRUE]
  OBVIOUS
<1>6. Nested(o, db) /\ IsWith(open, o, NoSpec, TRUE)
  <2>1. Last(open).spec = NoSpec
    BY <1>1 DEF Here
  <2> QED BY <1>1, <1>5, <2>1, NestedStmts
<1>7. open' = Append(o, c)
  BY <1>5 DEF OpenBlock
<1>8. /\ c \in Contexts /\ c.kind = "block" /\ c.spec = NoSpec
      /\ c.table = M + 1 /\ c.fun = None
  BY <1>1, NoSpecIsSpec DEF Context, Contexts, None
<1> HIDE DEF c, n
<1>9. \A j \in 2 .. Len(o) : o[j].stmts
  <2>1. \A j \in 2 .. n - 1 : open[j].stmts
    BY <1>1 DEF Nested, n
  <2>2. \A j \in 2 .. n - 1 : o[j] = open[j]
    BY <1>1, <1>6 DEF IsWith, n
  <2>3. o[n].stmts /\ Len(o) = n
    BY <1>6 DEF IsWith, n
  <2> QED BY <1>1, <2>1, <2>2, <2>3
<1>10. /\ c.table \in Len(db.tables) + 1 .. Len(db'.tables) /\ c.fun \in 0 .. Len(db'.symbols)
  <2>1. Len(db'.symbols) \in Nat
    BY <1>3, DbParts
  <2> QED BY <1>1, <1>3, <1>8, <2>1 DEF None
<1>11. /\ Nested(Append(o, c), db')
       /\ Len(Append(o, c)) = Len(o) + 1 /\ Append(o, c)[Len(o) + 1] = c
       /\ \A i \in 1 .. Len(o) : Append(o, c)[i] = o[i]
  BY <1>1, <1>3, <1>6, <1>8, <1>9, <1>10, NestedAppend
<1>12. Nested(open', db') /\ Len(open') = n + 1 /\ open'[n + 1] = c
  BY <1>6, <1>7, <1>11 DEF IsWith, n
<1>13. \A i \in 1 .. n : /\ open'[i].kind = open[i].kind
                         /\ open'[i].table = open[i].table
                         /\ open'[i].fun = open[i].fun
                         /\ open[i].stmts => open'[i].stmts
  <2> TAKE i \in 1 .. n
  <2>1. open'[i] = o[i]
    BY <1>6, <1>7, <1>11 DEF IsWith, n
  <2>2. CASE i = n
    BY <1>6, <2>1, <2>2 DEF IsWith, n
  <2>3. CASE i # n
    BY <1>6, <2>1, <2>3 DEF IsWith, n
  <2> QED BY <2>2, <2>3
<1> QED BY <1>3, <1>4, <1>12, <1>13 DEF c, n
-----------------------------------------------------------------------------
(* What every step of the analysis does. *)

\* No more definitions come into table u, unless it is the outermost one.
Settled(o, u) == u # 1 => \A i \in 1 .. Len(o) : o[i].table = u => o[i].stmts

\* The constructs that stay open keep their table and their function, and those
\* that are new have a table that is new.
Kept(o, p, M) ==
  \A i \in 1 .. Len(p) :
    IF i <= Len(o)
    THEN /\ p[i].kind = o[i].kind /\ p[i].table = o[i].table /\ p[i].fun = o[i].fun
         /\ o[i].stmts => p[i].stmts
    ELSE p[i].table > M

Prolongs(p, q) == Len(p) <= Len(q) /\ \A i \in 1 .. Len(p) : q[i] = p[i]

Proceeds ==
  /\ Evolves(db, db')
  /\ Nested(open', db') /\ Kept(open, open', Len(db.tables))
  /\ nodes' \in Seq(Nodes) /\ Prolongs(nodes, nodes')
  /\ \A u \in 2 .. Len(db.tables) :
       Settled(open, u) => db'.tables[u].syms = db.tables[u].syms

\* A table into which variables are declared is not settled.
LEMMA HereUnsettled ==
  ASSUME TypeInv, Here.spec # NoSpec, Here.table # 1
  PROVE  ~Settled(open, Here.table)
<1>1. Here = open[Len(open)] /\ Len(open) \in 1 .. Len(open) /\ ~Here.stmts
  BY HereParts
<1> QED BY <1>1 DEF Settled

LEMMA SettledStays ==
  ASSUME NEW o, NEW p, NEW M \in Nat, Nested(o, db), Nested(p, db'), Kept(o, p, M),
         NEW u \in 1 .. M, Settled(o, u)
  PROVE  Settled(p, u)
<1> SUFFICES ASSUME u # 1, NEW i \in 1 .. Len(p), p[i].table = u PROVE p[i].stmts
  BY DEF Settled
<1>1. ~(p[i].table > M)
  OBVIOUS
<1>2. /\ i <= Len(o) /\ p[i].table = o[i].table /\ (o[i].stmts => p[i].stmts)
  BY <1>1 DEF Kept
<1>3. i \in 1 .. Len(o)
  BY <1>2, NestedParts
<1>4. o[i].stmts
  BY <1>2, <1>3 DEF Settled
<1> QED BY <1>2, <1>4

LEMMA KeptReflexive ==
  ASSUME NEW o, NEW M PROVE Kept(o, o, M)
BY DEF Kept

LEMMA KeptWith ==
  ASSUME NEW o, NEW d, Nested(o, d), NEW p, NEW spec, NEW stmts, IsWith(o, p, spec, stmts),
         Last(o).stmts => stmts, NEW M
  PROVE  Kept(o, p, M)
<1>1. /\ Len(o) \in Nat /\ Len(p) = Len(o)
      /\ Last(o) = o[Len(o)]
  BY NestedParts DEF IsWith
<1> SUFFICES ASSUME NEW i \in 1 .. Len(o)
             PROVE  /\ p[i].kind = o[i].kind /\ p[i].table = o[i].table /\ p[i].fun = o[i].fun
                    /\ o[i].stmts => p[i].stmts
  BY <1>1 DEF Kept
<1>2. CASE i = Len(o)
  BY <1>1, <1>2 DEF IsWith
<1>3. CASE i # Len(o)
  BY <1>3 DEF IsWith
<1> QED BY <1>2, <1>3

LEMMA KeptAppend ==
  ASSUME NEW o, NEW p, NEW M \in Nat, NEW c, Len(o) \in Nat, c.table > M,
         Len(p) = Len(o) + 1, p[Len(o) + 1] = c,
         \A i \in 1 .. Len(o) : /\ p[i].kind = o[i].kind /\ p[i].table = o[i].table
                                /\ p[i].fun = o[i].fun
                                /\ o[i].stmts => p[i].stmts
  PROVE  Kept(o, p, M)
<1> SUFFICES ASSUME NEW i \in 1 .. Len(o) + 1
             PROVE  IF i <= Len(o)
                    THEN /\ p[i].kind = o[i].kind /\ p[i].table = o[i].table
                         /\ p[i].fun = o[i].fun
                         /\ o[i].stmts => p[i].stmts
                    ELSE p[i].table > M
  BY DEF Kept
<1>1. CASE i <= Len(o)
  BY <1>1
<1>2. CASE ~(i <= Len(o))
  <2>1. i = Len(o) + 1
    BY <1>2
  <2> QED BY <1>2, <2>1
<1> QED BY <1>1, <1>2

\* A node is added, or none.
LEMMA ProlongsAppend ==
  ASSUME nodes \in Seq(Nodes), NEW n \in Nodes
  PROVE  /\ Append(nodes, n) \in Seq(Nodes) /\ Prolongs(nodes, Append(nodes, n))
         /\ Len(Append(nodes, n)) = Len(nodes) + 1
         /\ Append(nodes, n)[Len(nodes) + 1] = n
<1>1. PICK q : q = Append(nodes, n)
  OBVIOUS
<1>2. /\ q \in Seq(Nodes) /\ Len(q) = Len(nodes) + 1 /\ q[Len(nodes) + 1] = n
      /\ \A i \in 1 .. Len(nodes) : q[i] = nodes[i]
  BY <1>1, AppendProperties
<1>3. Len(nodes) \in Nat
  OBVIOUS
<1> QED BY <1>1, <1>2, <1>3 DEF Prolongs

LEMMA ProlongsReflexive == ASSUME NEW p, Len(p) \in Nat PROVE Prolongs(p, p)
BY DEF Prolongs

-----------------------------------------------------------------------------
(* More of the steps. *)

\* An identifier is used.
LEMMA UseStep ==
  ASSUME TypeInv, NEW kind \in {"id", "neg", "call"}, NEW name \in UseNames,
         NEW args \in Seq(Names \cup {NoName}), Use(kind, name, args)
  PROVE  LET s == st_find(db, Here.table, name)
             n == Node(kind, name, Here.table, s, args)
         IN /\ Proceeds
            /\ db'.symbols = db.symbols /\ db'.tables = db.tables
            /\ nodes' = Append(nodes, n) /\ n \in Nodes
            /\ IsWith(open, open', NoSpec, TRUE)
            /\ db'.passed => /\ db.passed /\ s # None
                             /\ kind = "neg" => db.symbols[s].cls = "int"
                             /\ kind = "call" => /\ db.symbols[s].cls = "func"
                                                 /\ db.symbols[s].argc = Len(args)
<1>1. PICK s : s = st_find(db, Here.table, name)
  OBVIOUS
<1>2. PICK n : n = Node(kind, name, Here.table, s, args)
  OBVIOUS
<1>3. /\ WellFormed(db) /\ Nested(open, db) /\ Last(open) = Here
      /\ Here.table \in 1 .. Len(db.tables) /\ Here.table \in Nat
      /\ Here.spec = NoSpec
  BY HereParts DEF Use, Here
<1>4. s \in Nat
  <2>1. s \in 0 .. Len(db.symbols) /\ Len(db.symbols) \in Nat
    BY <1>1, <1>3, FindParts, DbParts
  <2> QED BY <2>1
<1>5. n \in Nodes
  <2>1. name \in Names
    BY DEF Names
  <2> QED BY <1>2, <1>3, <1>4, <2>1 DEF Node, Nodes, Kinds
<1>6. PICK right : /\ right \in BOOLEAN
                   /\ db' = Complain(db, ~right)
                   /\ right => /\ s # None
                               /\ kind = "neg" => db.symbols[s].cls = "int"
                               /\ kind = "call" => /\ db.symbols[s].cls = "func"
                                                   /\ db.symbols[s].argc = Len(args)
  <2>1. CASE kind = "id"
    <3> WITNESS s # None
    <3> QED BY <1>1, <2>1 DEF Use
  <2>2. CASE kind = "neg"
    <3> WITNESS IsA(db, s, "int")
    <3>1. IsA(db, s, "int") \in BOOLEAN
      BY DEF IsA
    <3> QED BY <1>1, <2>2, <3>1 DEF Use, IsA
  <2>3. CASE kind = "call"
    <3> WITNESS IsA(db, s, "func") /\ db.symbols[s].argc = Len(args)
    <3> QED BY <1>1, <2>3 DEF Use, IsA
  <2> QED BY <2>1, <2>2, <2>3
<1>7. /\ nodes' = Append(nodes, n)
      /\ open' = [open EXCEPT ![Len(open)].stmts = TRUE]
  BY <1>1, <1>2 DEF Use
<1>8. /\ Evolves(db, db')
      /\ db'.symbols = db.symbols /\ db'.tables = db.tables
      /\ db'.passed = (db.passed /\ right)
  <2>1. PICK cond \in BOOLEAN : cond = ~right
    BY <1>6
  <2> QED BY <1>3, <1>6, <2>1, EvolvesComplain, Complained
<1>9. Nested(open', db) /\ IsWith(open, open', NoSpec, TRUE)
  BY <1>3, <1>7, NestedStmts
<1>10. Nested(open', db')
  BY <1>3, <1>8, <1>9, NestedGrows DEF Evolves
<1>11. Kept(open, open', Len(db.tables))
  BY <1>3, <1>9, KeptWith
<1>12. nodes' \in Seq(Nodes) /\ Prolongs(nodes, nodes')
  BY <1>5, <1>7, ProlongsAppend DEF TypeInv
<1>13. Proceeds
  BY <1>8, <1>10, <1>11, <1>12 DEF Proceeds
<1>14. db'.passed => db.passed /\ right
  BY <1>8
<1> QED BY <1>1, <1>2, <1>5, <1>6, <1>7, <1>8, <1>9, <1>13, <1>14

\* The end of a block.
LEMMA CloseBlockStep ==
  ASSUME TypeInv, CloseBlock
  PROVE  /\ Evolves(db, db')
         /\ Here.fun = None => db' = db
         /\ Here.fun # None => IsRegistered(db, db', Here.fun)
         /\ Nested(open', db')
         /\ Len(open) - 1 >= 1 /\ Len(open') = Len(open) - 1
         /\ \A i \in 1 .. Len(open) - 1 : open'[i] = open[i]
         /\ Kept(open, open', Len(db.tables))
<1>1. /\ WellFormed(db) /\ Nested(open, db) /\ Len(open) # 1 /\ Len(open) \in Nat
      /\ Here.fun # None => /\ Here.fun \in 1 .. Len(db.symbols)
                            /\ db.symbols[Here.fun].cls = "func"
  BY HereParts DEF CloseBlock
<1>2. /\ db' = IF Here.fun = None THEN db ELSE Register(db, Here.fun)
      /\ open' = Front(open)
  BY DEF CloseBlock
<1>3. Here.fun # None => IsRegistered(db, db', Here.fun)
  BY <1>1, <1>2, Registered
<1>4. Evolves(db, db')
  <2>1. CASE Here.fun = None
    BY <1>1, <1>2, <2>1, EvolvesReflexive
  <2>2. CASE Here.fun # None
    <3>1. PICK s : s = Here.fun
      OBVIOUS
    <3>2. IsRegistered(db, db', s) /\ s \in 1 .. Len(db.symbols) /\ db.symbols[s].cls = "func"
      BY <1>1, <1>3, <2>2, <3>1
    <3>3. Unique(db) /\ GlobalTags(db) => GlobalTags(db')
      BY <1>1, <3>2, TagsOfRegister
    <3> QED BY <3>2, <3>3 DEF IsRegistered, Evolves
  <2> QED BY <2>1, <2>2
<1>5. /\ Nested(open', db) /\ Len(open') = Len(open) - 1
      /\ \A i \in 1 .. Len(open) - 1 : open'[i] = open[i]
  BY <1>1, <1>2, NestedFront
<1>6. Nested(open', db')
  BY <1>1, <1>4, <1>5, NestedGrows DEF Evolves
<1>7. Len(open) - 1 >= 1
  BY <1>1, <1>5, NestedParts
<1>8. Kept(open, open', Len(db.tables))
  <2>1. \A i \in 1 .. Len(open') : i <= Len(open) /\ open'[i] = open[i]
    BY <1>1, <1>5
  <2> QED BY <2>1 DEF Kept
<1> QED BY <1>2, <1>3, <1>4, <1>5, <1>6, <1>7, <1>8

\* A specifier has been analysed, and the tables are as they were.
LEMMA SpecifierStep ==
  ASSUME TypeInv, NEW spec \in Spec0, MayDefine, open' = With(spec),
         UNCHANGED <<db, nodes>>
  PROVE  Proceeds /\ IsWith(open, open', spec, Here.stmts)
<1>1. WellFormed(db) /\ Nested(open, db) /\ ~Here.stmts /\ Here.stmts = Last(open).stmts
  BY HereParts DEF MayDefine, Here
<1>2. Nested(open', db) /\ IsWith(open, open', spec, Here.stmts)
  BY <1>1, WithSpec
<1>3. Kept(open, open', Len(db.tables))
  BY <1>1, <1>2, KeptWith
<1>4. Evolves(db, db') /\ Nested(open', db')
  <2>1. db' = db
    OBVIOUS
  <2> QED BY <1>1, <1>2, <2>1, EvolvesReflexive
<1>5. nodes' \in Seq(Nodes) /\ Prolongs(nodes, nodes')
  BY ProlongsReflexive DEF TypeInv
<1> QED BY <1>2, <1>3, <1>4, <1>5 DEF Proceeds

\* The fields of a struct get a table.
LEMMA OpenStructStep ==
  ASSUME TypeInv, NEW tag \in TagNames, OpenStruct(tag)
  PROVE  /\ Proceeds
         /\ db'.symbols = db.symbols /\ db'.passed = db.passed
         /\ LET M == Len(db.tables)
                n == Len(open)
            IN /\ Len(db'.tables) = M + 1
               /\ db'.tables[M + 1].parent = Here.table
               /\ db'.tables[M + 1].syms = {}
               /\ \A t \in 1 .. M : db'.tables[t] = db.tables[t]
               /\ Len(open') = n + 1
               /\ \A i \in 1 .. n : open'[i] = open[i]
               /\ open'[n + 1] = Context("struct", M + 1, tag, None)
<1>1. PICK M, n : M = Len(db.tables) /\ n = Len(open)
  OBVIOUS
<1>2. PICK c, table : c = Context("struct", M + 1, tag, None) /\ table = Here.table
  OBVIOUS
<1>3. /\ WellFormed(db) /\ Nested(open, db) /\ n \in Nat /\ n >= 1
      /\ M \in Nat /\ table \in 1 .. Len(db.tables)
      /\ ~Last(open).stmts
  BY <1>1, <1>2, HereParts, DbParts DEF OpenStruct, MayDefine, Here
<1>4. db' = new_symbol_table(db, table) /\ open' = Append(open, c)
  BY <1>1, <1>2 DEF OpenStruct
<1>5. /\ WellFormed(db') /\ Grows(db, db')
      /\ db'.symbols = db.symbols /\ db'.passed = db.passed
      /\ Len(db'.tables) = M + 1
      /\ db'.tables[M + 1].parent = table /\ db'.tables[M + 1].syms = {}
      /\ \A t \in 1 .. M : db'.tables[t] = db.tables[t]
  BY <1>1, <1>3, <1>4, NewTable
<1>6. Evolves(db, db')
  BY <1>3, <1>4, EvolvesNewTable
<1>7. /\ c \in Contexts /\ c.kind = "struct" /\ c.spec = NoSpec /\ c.tag = tag
      /\ c.table = M + 1 /\ c.fun = None
  BY <1>2, <1>3, NoSpecIsSpec DEF Context, Contexts, None
<1>8. c.table \in Len(db.tables) + 1 .. Len(db'.tables) /\ c.fun \in 0 .. Len(db'.symbols)
  <2>1. Len(db'.symbols) \in Nat
    BY <1>5, DbParts
  <2> QED BY <1>1, <1>3, <1>5, <1>7, <2>1 DEF None
<1>9. /\ Nested(open', db') /\ Len(open') = n + 1 /\ open'[n + 1] = c
      /\ \A i \in 1 .. n : open'[i] = open[i]
  <2>1. /\ c.kind # "unit"
        /\ c.kind = "block" => \A j \in 2 .. Len(open) : open[j].stmts
        /\ c.kind = "struct" => c.tag \in TagNames /\ ~Last(open).stmts
        /\ c.fun # None => db'.symbols[c.fun].cls = "func"
    BY <1>3, <1>7
  <2>2. /\ Nested(Append(open, c), db')
        /\ Len(Append(open, c)) = Len(open) + 1 /\ Append(open, c)[Len(open) + 1] = c
        /\ \A i \in 1 .. Len(open) : Append(open, c)[i] = open[i]
    BY <1>3, <1>5, <1>7, <1>8, <2>1, NestedAppend
  <2> QED BY <1>1, <1>4, <2>2
<1>10. Kept(open, open', M)
  <2>1. c.table > M
    BY <1>3, <1>7
  <2> QED BY <1>1, <1>3, <1>9, <2>1, KeptAppend
<1>11. nodes' \in Seq(Nodes) /\ Prolongs(nodes, nodes')
  BY ProlongsReflexive DEF TypeInv, OpenStruct
<1>12. \A u \in 2 .. M : db'.tables[u].syms = db.tables[u].syms
  BY <1>3, <1>5
<1>13. Proceeds
  BY <1>1, <1>6, <1>9, <1>10, <1>11, <1>12 DEF Proceeds
<1> QED BY <1>1, <1>2, <1>5, <1>9, <1>13

\* The end of a struct: what is around it goes on with the specifier.
LEMMA CloseStructStep ==
  ASSUME TypeInv, CloseStruct
  PROVE  /\ Proceeds /\ Len(open) - 1 >= 1 /\ Len(open') = Len(open) - 1
         /\ \A i \in 1 .. Len(open') : /\ open'[i].kind = open[i].kind
                                       /\ open'[i].table = open[i].table
<1>1. PICK o : o = Front(open)
  OBVIOUS
<1>2. PICK spec : spec = [tag |-> Here.tag, tp |-> "struct"]
  OBVIOUS
<1>3. /\ WellFormed(db) /\ Nested(open, db) /\ Len(open) # 1 /\ Len(open) \in Nat
      /\ Len(open) >= 1
      /\ Here = open[Len(open)] /\ Here.tag \in TagNames /\ Here.kind = "struct"
  BY HereParts DEF CloseStruct
<1>4. /\ Nested(o, db) /\ Len(o) = Len(open) - 1
      /\ \A i \in 1 .. Len(open) - 1 : o[i] = open[i]
  BY <1>1, <1>3, NestedFront
<1>5. open' = [o EXCEPT ![Len(o)].spec = spec] /\ UNCHANGED <<db, nodes>>
  BY <1>1, <1>2 DEF CloseStruct
<1>6. Len(o) \in Nat /\ Len(o) >= 1 /\ Last(o) = o[Len(o)]
  BY <1>4, NestedParts
<1>7. ~Last(o).stmts
  <2>1. ~open[Len(open) - 1].stmts
    BY <1>3 DEF Nested
  <2> QED BY <1>3, <1>4, <1>6, <2>1
<1>8. spec \in Spec0
  BY <1>2, <1>3 DEF Spec0, StructSpec
<1>9. Nested(open', db) /\ IsWith(o, open', spec, Last(o).stmts)
  BY <1>4, <1>5, <1>7, <1>8, NestedSpec
<1>10. Kept(o, open', Len(db.tables))
  BY <1>4, <1>9, KeptWith
<1>11. Len(open') = Len(o)
  BY <1>9 DEF IsWith
<1>12. \A i \in 1 .. Len(open') :
         /\ open'[i].kind = open[i].kind /\ open'[i].table = open[i].table
         /\ open'[i].fun = open[i].fun
         /\ open[i].stmts => open'[i].stmts
         /\ i <= Len(open)
  <2> TAKE i \in 1 .. Len(open')
  <2>1. i <= Len(o) /\ o[i] = open[i] /\ i <= Len(open)
    BY <1>3, <1>4, <1>11
  <2> QED BY <1>10, <2>1 DEF Kept
<1>13. Kept(open, open', Len(db.tables))
  BY <1>12 DEF Kept
<1>14. Evolves(db, db') /\ Nested(open', db')
  <2>1. db' = db
    BY <1>5
  <2> QED BY <1>3, <1>9, <2>1, EvolvesReflexive
<1>15. nodes' \in Seq(Nodes) /\ Prolongs(nodes, nodes')
  BY <1>5, ProlongsReflexive DEF TypeInv
<1>16. Proceeds
  BY <1>5, <1>13, <1>14, <1>15 DEF Proceeds
<1> QED BY <1>4, <1>6, <1>11, <1>12, <1>16

\* The names of a Def, and what the translation visits.
DecNames(decs) == [i \in DOMAIN decs |-> decs[i].name]

LEMMA DecsParts ==
  ASSUME NEW decs \in SeqsUpTo(Decs, MaxDecs)
  PROVE  /\ Len(decs) \in Nat /\ decs \in [1 .. Len(decs) -> Decs]
         /\ DOMAIN decs = 1 .. Len(decs)
         /\ DecNames(decs) \in [1 .. Len(decs) -> Names]
         /\ \A i \in 1 .. Len(decs) :
              /\ decs[i].name \in Names /\ decs[i].init \in Names \cup {NoName}
              /\ decs[i].init # NoName => Inits
<1>1. /\ Len(decs) \in Nat /\ decs \in [1 .. Len(decs) -> Decs]
      /\ DOMAIN decs = 1 .. Len(decs)
  BY BoundsAssumption, SeqUpTo
<1>2. ASSUME NEW i \in 1 .. Len(decs)
      PROVE  /\ decs[i].name \in Names /\ decs[i].init \in Names \cup {NoName}
             /\ decs[i].init # NoName => Inits
  <2>1. decs[i] \in Decs
    BY <1>1
  <2>2. decs[i].name \in VarNames /\ decs[i].init \in Initialisers
    BY <2>1 DEF Decs
  <2> QED BY <2>2 DEF Initialisers, Names
<1>3. DecNames(decs) \in [1 .. Len(decs) -> Names]
  BY <1>1, <1>2 DEF DecNames
<1> QED BY <1>1, <1>2, <1>3

\* The nodes of one Dec, whose symbol is sym.
IsVisit(q, sym) ==
  /\ 1 \in 1 .. Len(q) /\ q[1].kind = "dec" /\ q[1].sym = sym
  /\ \A j \in 1 .. Len(q) : \/ q[j].kind = "dec" /\ q[j].sym = sym
                            \/ q[j].kind = "id" /\ Inits

LEMMA DecNodesParts ==
  ASSUME NEW dec, dec.name \in Names, dec.init \in Names \cup {NoName}, dec.init # NoName => Inits,
         NEW t \in Nat, NEW sym \in Nat, NEW used \in Nat
  PROVE  /\ DecNodes(dec, t, sym, used) \in Seq(Nodes)
         /\ IsVisit(DecNodes(dec, t, sym, used), sym)
<1>1. PICK a : a = Node("dec", dec.name, t, sym, << >>)
  OBVIOUS
<1>2. a \in Nodes /\ a.kind = "dec" /\ a.sym = sym
  BY <1>1 DEF Node, Nodes, Kinds
<1>3. CASE dec.init = NoName
  <2>1. DecNodes(dec, t, sym, used) = <<a>>
    BY <1>1, <1>3 DEF DecNodes
  <2> QED BY <1>2, <2>1 DEF IsVisit
<1>4. CASE dec.init # NoName
  <2>1. PICK b : b = Node("id", dec.init, t, used, << >>)
    OBVIOUS
  <2>2. b \in Nodes /\ b.kind = "id"
    BY <2>1 DEF Node, Nodes, Kinds
  <2>3. DecNodes(dec, t, sym, used) = <<a, b>>
    BY <1>1, <1>4, <2>1 DEF DecNodes
  <2>4. <<a, b>> \in Seq(Nodes) /\ Len(<<a, b>>) = 2 /\ <<a, b>>[1] = a /\ <<a, b>>[2] = b
    BY <1>2, <2>2
  <2>5. \A j \in 1 .. 2 : j = 1 \/ j = 2
    OBVIOUS
  <2> QED BY <1>2, <1>4, <2>2, <2>3, <2>4, <2>5 DEF IsVisit
<1> QED BY <1>3, <1>4

\* The nodes of a Def: one for every name, and one for every initialiser.
AreVisited(p, q, n, N) ==
  /\ q \in Seq(Nodes) /\ Prolongs(p, q)
  /\ \A k \in Len(p) + 1 .. Len(q) :
       \/ q[k].kind = "dec" /\ \E i \in 1 .. n : q[k].sym = N + i
       \/ q[k].kind = "id" /\ Inits
  /\ \A i \in 1 .. n : \E k \in Len(p) + 1 .. Len(q) : q[k].kind = "dec" /\ q[k].sym = N + i

LEMMA DefNodes ==
  ASSUME NEW n \in Nat, NEW N \in Nat, NEW seqs \in [1 .. n -> Seq(Nodes)],
         \A i \in 1 .. n : IsVisit(seqs[i], N + i),
         NEW p \in Seq(Nodes)
  PROVE  AreVisited(p, p \o FlattenSeq(seqs), n, N)
<1>1. PICK f : f = FlattenSeq(seqs)
  OBVIOUS
<1>2. /\ f \in Seq(Nodes)
      /\ \A k \in 1 .. Len(f) : \E i \in 1 .. n : \E j \in 1 .. Len(seqs[i]) : f[k] = seqs[i][j]
      /\ \A i \in 1 .. n : \A j \in 1 .. Len(seqs[i]) : \E k \in 1 .. Len(f) : f[k] = seqs[i][j]
  <2>1. HasElements(FlattenSeq(seqs), seqs, n, Nodes)
    BY FlattenSeqElements
  <2> QED BY <1>1, <2>1 DEF HasElements
<1>3. PICK q : q = p \o f
  OBVIOUS
<1>4. /\ q \in Seq(Nodes) /\ Len(q) = Len(p) + Len(f)
      /\ Len(p) \in Nat /\ Len(f) \in Nat
      /\ \A k \in 1 .. Len(p) : q[k] = p[k]
      /\ \A k \in 1 .. Len(f) : q[Len(p) + k] = f[k]
  <2>1. Len(p) \in Nat /\ Len(f) \in Nat
    BY <1>2
  <2> QED BY <1>2, <1>3, <2>1, ConcatElements
<1>5. ASSUME NEW k \in Len(p) + 1 .. Len(q)
      PROVE  \/ q[k].kind = "dec" /\ \E i \in 1 .. n : q[k].sym = N + i
             \/ q[k].kind = "id" /\ Inits
  <2>1. PICK m \in 1 .. Len(f) : m = k - Len(p)
    <3>1. k - Len(p) \in 1 .. Len(f)
      BY <1>4
    <3> QED BY <3>1
  <2>2. q[k] = f[m]
    <3>1. k = Len(p) + m
      BY <1>4, <2>1
    <3> QED BY <1>4, <3>1
  <2>3. PICK i \in 1 .. n : \E j \in 1 .. Len(seqs[i]) : f[m] = seqs[i][j]
    BY <1>2
  <2>4. IsVisit(seqs[i], N + i)
    OBVIOUS
  <2>5. \/ f[m].kind = "dec" /\ f[m].sym = N + i
        \/ f[m].kind = "id" /\ Inits
    BY <2>3, <2>4 DEF IsVisit
  <2> QED BY <2>2, <2>5
<1>6. ASSUME NEW i \in 1 .. n
      PROVE  \E k \in Len(p) + 1 .. Len(q) : q[k].kind = "dec" /\ q[k].sym = N + i
  <2>1. IsVisit(seqs[i], N + i)
    OBVIOUS
  <2>2. 1 \in 1 .. Len(seqs[i]) /\ seqs[i][1].kind = "dec" /\ seqs[i][1].sym = N + i
    BY <2>1 DEF IsVisit
  <2>3. PICK m \in 1 .. Len(f) : f[m] = seqs[i][1]
    BY <1>2, <2>2
  <2>4. Len(p) + m \in Len(p) + 1 .. Len(q) /\ q[Len(p) + m] = f[m]
    BY <1>4
  <2> QED BY <2>2, <2>3, <2>4
<1>7. Prolongs(p, q)
  BY <1>4 DEF Prolongs
<1> QED BY <1>1, <1>3, <1>4, <1>5, <1>6, <1>7 DEF AreVisited

\* A definition of variables, or of the fields of a struct.
LEMMA DefStep ==
  ASSUME TypeInv, NEW decs \in SeqsUpTo(Decs, MaxDecs), Def(decs)
  PROVE  /\ Proceeds
         /\ IsDefined(db, db', Here.table, Len(decs), DecNames(decs))
         /\ Here.kind \in {"block", "struct"} /\ Here.spec # NoSpec
         /\ Len(decs) \in Nat
         /\ IsWith(open, open', NoSpec, Here.stmts)
         /\ Here.kind = "struct" => nodes' = nodes
         /\ Here.kind = "block" =>
              AreVisited(nodes, nodes', Len(decs), Len(db'.symbols) - Len(decs))
<1>1. PICK t, spec, n : t = Here.table /\ spec = Here.spec /\ n = Len(decs)
  OBVIOUS
<1>2. /\ WellFormed(db) /\ Nested(open, db) /\ t \in 1 .. Len(db.tables) /\ t \in Nat
      /\ spec \in Spec0 /\ spec # NoSpec /\ t # 1
      /\ Here.kind \in {"block", "struct"} /\ Last(open).stmts = Here.stmts
  BY <1>1, HereParts DEF Def, Here
<1>3. /\ n \in Nat /\ DOMAIN decs = 1 .. n
      /\ DecNames(decs) \in [1 .. n -> Names]
      /\ \A i \in 1 .. n :
           /\ decs[i].name \in Names /\ decs[i].init \in Names \cup {NoName}
           /\ decs[i].init # NoName => Inits
  BY <1>1, DecsParts
<1>4. PICK d, cls : d = Specified(db, t, spec).db /\ cls = Specified(db, t, spec).spec.tp
  OBVIOUS
<1>5. PICK e : e = Declare(d, t, DecNames(decs), cls)
  OBVIOUS
<1>6. IsDefined(db, e, t, n, DecNames(decs)) /\ Evolves(db, e)
  BY <1>2, <1>3, <1>4, <1>5, EvolvesDefine
<1>7. OnlyTags(db, d) /\ cls \in Values
  BY <1>2, <1>4, SpecifiedTags
<1>8. /\ WellFormed(d) /\ t \in 1 .. Len(d.tables) /\ WellFormed(e)
      /\ Len(d.symbols) \in Nat
  BY <1>2, <1>6, <1>7, DbParts DEF OnlyTags, Evolves
<1>9. Len(e.symbols) = Len(d.symbols) + n
  BY <1>3, <1>5, <1>7, <1>8, Declared DEF AreDeclared
<1>10. PICK cond \in BOOLEAN : db' = Complain(e, cond)
  <2> DEFINE inits == {i \in DOMAIN decs : decs[i].init # NoName}
             mistyped == \E i \in inits :
                \/ st_find(d, t, decs[i].init) = None
                \/ d.symbols[st_find(d, t, decs[i].init)].cls \notin {"int", "never"}
             bad == mistyped \/ (Here.kind = "struct" /\ inits # {})
  <2>1. db' = Complain(e, bad)
    BY <1>1, <1>4, <1>5 DEF Def, DecNames
  <2>2. bad \in BOOLEAN
    OBVIOUS
  <2> HIDE DEF bad
  <2> QED BY <2>1, <2>2
<1>11. IsDefined(db, db', t, n, DecNames(decs))
  BY <1>2, <1>6, <1>10, IsDefinedComplain
<1>12. Evolves(db, db') /\ db'.symbols = e.symbols
  BY <1>2, <1>6, <1>8, <1>10, EvolvesComplain, EvolvesTransitive, Complained
<1>13. ASSUME Here.kind = "block"
       PROVE  AreVisited(nodes, nodes', n, Len(d.symbols))
  <2> DEFINE used(i) == st_find(d, t, decs[i].init)
             visit(i) == DecNodes(decs[i], t, Len(d.symbols) + i, used(i))
             seqs == [i \in DOMAIN decs |-> visit(i)]
  <2>1. nodes' = nodes \o FlattenSeq(seqs)
    BY <1>1, <1>4, <1>13 DEF Def
  <2>2. \A i \in 1 .. n : used(i) \in Nat
    <3> TAKE i \in 1 .. n
    <3>1. used(i) \in 0 .. Len(d.symbols)
      BY <1>8, FindParts
    <3> QED BY <1>8, <3>1
  <2> HIDE DEF used
  <2>3. \A i \in 1 .. n : visit(i) \in Seq(Nodes) /\ IsVisit(visit(i), Len(d.symbols) + i)
    <3> TAKE i \in 1 .. n
    <3>1. Len(d.symbols) + i \in Nat
      BY <1>8
    <3> QED BY <1>2, <1>3, <2>2, <3>1, DecNodesParts
  <2> HIDE DEF visit
  <2>4. /\ seqs \in [1 .. n -> Seq(Nodes)]
        /\ \A i \in 1 .. n : seqs[i] = visit(i)
    BY <1>3, <2>3
  <2> HIDE DEF seqs
  <2>5. nodes \in Seq(Nodes)
    BY DEF TypeInv
  <2> QED BY <1>3, <1>8, <2>1, <2>3, <2>4, <2>5, DefNodes
<1>14. Here.kind = "struct" => nodes' = nodes
  BY DEF Def
<1>15. Len(db'.symbols) - n = Len(d.symbols)
  BY <1>3, <1>8, <1>9, <1>12
<1>16. nodes' \in Seq(Nodes) /\ Prolongs(nodes, nodes')
  <2>1. CASE Here.kind = "block"
    BY <1>13, <2>1 DEF AreVisited
  <2>2. CASE Here.kind = "struct"
    BY <1>14, <2>2, ProlongsReflexive DEF TypeInv
  <2> QED BY <1>2, <2>1, <2>2
<1>17. Nested(open', db) /\ IsWith(open, open', NoSpec, Here.stmts)
  BY NoSpecIsSpec, WithSpec DEF Def
<1>18. Nested(open', db') /\ Kept(open, open', Len(db.tables))
  BY <1>2, <1>12, <1>17, NestedGrows, KeptWith DEF Evolves
<1>19. ASSUME NEW u \in 2 .. Len(db.tables), Settled(open, u)
       PROVE  db'.tables[u].syms = db.tables[u].syms
  <2>1. u # t
    BY <1>1, <1>2, <1>19, HereUnsettled
  <2> QED BY <1>11, <2>1 DEF IsDefined
<1>20. Proceeds
  BY <1>12, <1>16, <1>18, <1>19 DEF Proceeds
<1> QED BY <1>1, <1>2, <1>3, <1>11, <1>13, <1>14, <1>15, <1>17, <1>20

\* A definition is finished: the specifier is forgotten.
LEMMA WithNoSpec ==
  ASSUME TypeInv, open' = With(NoSpec), Evolves(db, db')
  PROVE  /\ Nested(open', db') /\ Kept(open, open', Len(db.tables))
         /\ IsWith(open, open', NoSpec, Here.stmts)
<1>1. Nested(open', db) /\ IsWith(open, open', NoSpec, Here.stmts)
  BY NoSpecIsSpec, WithSpec
<1>2. WellFormed(db) /\ Nested(open, db) /\ Last(open).stmts = Here.stmts
  BY HereParts DEF Here
<1>3. Kept(open, open', Len(db.tables))
  BY <1>1, <1>2, KeptWith
<1>4. Nested(open', db')
  BY <1>1, <1>2, NestedGrows DEF Evolves
<1> QED BY <1>1, <1>3, <1>4

\* The definitions outside of functions.
LEMMA ExtDefStructProceeds ==
  ASSUME TypeInv, ExtDefStruct PROVE Proceeds
<1>1. OnlyTags(db, db') /\ Evolves(db, db')
  BY ExtDefStructStep
<1>2. Nested(open', db') /\ Kept(open, open', Len(db.tables))
  BY <1>1, WithNoSpec DEF ExtDefStruct
<1>3. nodes' \in Seq(Nodes) /\ Prolongs(nodes, nodes')
  BY ProlongsReflexive DEF TypeInv, ExtDefStruct
<1>4. \A u \in 2 .. Len(db.tables) : db'.tables[u].syms = db.tables[u].syms
  BY <1>1 DEF OnlyTags
<1> QED BY <1>1, <1>2, <1>3, <1>4 DEF Proceeds

LEMMA ExtDefVarsProceeds ==
  ASSUME TypeInv, NEW names \in SeqsUpTo(VarNames, MaxDecs), ExtDefVars(names)
  PROVE  Proceeds
<1>1. /\ IsDefined(db, db', 1, Len(names), names) /\ Evolves(db, db')
      /\ Node("extvars", NoName, 1, None, names) \in Nodes
  BY ExtDefVarsStep
<1>2. Nested(open', db') /\ Kept(open, open', Len(db.tables))
  BY <1>1, WithNoSpec DEF ExtDefVars
<1>3. nodes' \in Seq(Nodes) /\ Prolongs(nodes, nodes')
  BY <1>1, ProlongsAppend DEF TypeInv, ExtDefVars
<1>4. \A u \in 2 .. Len(db.tables) : db'.tables[u].syms = db.tables[u].syms
  <2>1. \A u \in 2 .. Len(db.tables) : u # 1
    OBVIOUS
  <2> QED BY <1>1, <2>1 DEF IsDefined
<1> QED BY <1>1, <1>2, <1>3, <1>4 DEF Proceeds

LEMMA ExtDefFunDecProceeds ==
  ASSUME TypeInv, NEW f \in FunNames, NEW params \in SeqsUpTo(ParamNames, MaxParams),
         ExtDefFunDec(f, params)
  PROVE  Proceeds
<1>1. PICK d : /\ IsWithFun(db, d, f, Len(params), params, "dec")
               /\ IsRegistered(d, db', Len(d.symbols))
  BY ExtDefFunDecStep
<1>2. Evolves(db, db') /\ Node("fundec", f, 1, None, params) \in Nodes
  BY ExtDefFunDecStep
<1>3. Nested(open', db') /\ Kept(open, open', Len(db.tables))
  BY <1>2, WithNoSpec DEF ExtDefFunDec
<1>4. nodes' \in Seq(Nodes) /\ Prolongs(nodes, nodes')
  BY <1>2, ProlongsAppend DEF TypeInv, ExtDefFunDec
<1>5. ASSUME NEW u \in 2 .. Len(db.tables)
      PROVE  db'.tables[u].syms = db.tables[u].syms
  <2>1. Len(d.tables) = Len(db.tables) + 1 /\ Len(db.tables) \in Nat
    BY <1>1, HereParts, DbParts DEF IsWithFun
  <2>2. u \in 1 .. Len(db.tables) /\ u \in 2 .. Len(d.tables)
    BY <2>1
  <2>3. d.tables[u] = db.tables[u]
    BY <1>1, <2>2 DEF IsWithFun
  <2>4. db'.tables[u] = d.tables[u]
    BY <1>1, <2>2 DEF IsRegistered
  <2> QED BY <2>3, <2>4
<1> QED BY <1>2, <1>3, <1>4, <1>5 DEF Proceeds

LEMMA OpenFunProceeds ==
  ASSUME TypeInv, NEW f \in FunNames, NEW params \in SeqsUpTo(ParamNames, MaxParams),
         OpenFun(f, params)
  PROVE  Proceeds
<1>1. PICK d : /\ IsWithFun(db, d, f, Len(params), params, "def")
               /\ \A t \in 1 .. Len(d.tables) : db'.tables[t] = d.tables[t]
               /\ open' = Append(With(NoSpec),
                                 Context("block", Len(d.tables) + 1, NoName, Len(d.symbols)))
  BY OpenFunStep
<1>2. /\ Evolves(db, db') /\ Nested(open', db')
      /\ nodes' \in Seq(Nodes) /\ Len(nodes') = Len(nodes) + 1
      /\ \A i \in 1 .. Len(nodes) : nodes'[i] = nodes[i]
  BY OpenFunStep
<1>3. Prolongs(nodes, nodes')
  <2>1. Len(nodes) \in Nat
    BY DEF TypeInv
  <2> QED BY <1>2, <2>1 DEF Prolongs
<1>4. Len(d.tables) = Len(db.tables) + 1 /\ Len(db.tables) \in Nat
  BY <1>1, HereParts, DbParts DEF IsWithFun
<1>5. \A u \in 2 .. Len(db.tables) : db'.tables[u].syms = db.tables[u].syms
  <2> TAKE u \in 2 .. Len(db.tables)
  <2>1. u \in 1 .. Len(db.tables) /\ u \in 1 .. Len(d.tables)
    BY <1>4
  <2>2. d.tables[u] = db.tables[u]
    BY <1>1, <2>1 DEF IsWithFun
  <2> QED BY <1>1, <2>1, <2>2
<1>6. Kept(open, open', Len(db.tables))
  <2>1. PICK o : o = With(NoSpec)
    OBVIOUS
  <2>2. Nested(o, db) /\ IsWith(open, o, NoSpec, Here.stmts)
    BY <2>1, NoSpecIsSpec, WithSpec
  <2>3. Nested(open, db) /\ Last(open).stmts = Here.stmts
    BY HereParts DEF Here
  <2>4. Kept(open, o, Len(db.tables)) /\ Len(o) = Len(open)
    BY <2>2, <2>3, KeptWith DEF IsWith
  <2>5. PICK c : c = Context("block", Len(d.tables) + 1, NoName, Len(d.symbols))
    OBVIOUS
  <2>6. c.table > Len(db.tables)
    BY <1>4, <2>5 DEF Context
  <2>7. o \in Seq(Contexts) /\ Len(o) \in Nat
    BY <2>2, NestedParts
  <2>8. c \in Contexts
    <3>1. /\ Len(d.tables) \in Nat /\ Len(d.symbols) \in Nat
      BY <1>1, DbParts DEF IsWithFun
    <3> QED BY <2>5, <3>1, NoSpecIsSpec DEF Context, Contexts
  <2>9. /\ Len(open') = Len(o) + 1 /\ open'[Len(o) + 1] = c
        /\ \A i \in 1 .. Len(o) : open'[i] = o[i]
    BY <1>1, <2>1, <2>5, <2>7, <2>8, AppendProperties
  <2>10. \A i \in 1 .. Len(open) : /\ open'[i].kind = open[i].kind
                                   /\ open'[i].table = open[i].table
                                   /\ open'[i].fun = open[i].fun
                                   /\ open[i].stmts => open'[i].stmts
    BY <2>4, <2>7, <2>9 DEF Kept
  <2> QED BY <1>4, <2>4, <2>6, <2>7, <2>9, <2>10, KeptAppend
<1> QED BY <1>2, <1>3, <1>5, <1>6 DEF Proceeds

LEMMA OpenBlockProceeds ==
  ASSUME TypeInv, OpenBlock PROVE Proceeds
<1>1. PICK M, n : M = Len(db.tables) /\ n = Len(open)
  OBVIOUS
<1>2. PICK c : c = Context("block", M + 1, NoName, None)
  OBVIOUS
<1>3. /\ Evolves(db, db') /\ Nested(open', db')
      /\ \A t \in 1 .. M : db'.tables[t] = db.tables[t]
      /\ Len(open') = n + 1
      /\ \A i \in 1 .. n : /\ open'[i].kind = open[i].kind
                           /\ open'[i].table = open[i].table
                           /\ open'[i].fun = open[i].fun
                           /\ open[i].stmts => open'[i].stmts
      /\ open'[n + 1] = c
  BY <1>1, <1>2, OpenBlockStep
<1>4. n \in Nat /\ M \in Nat
  BY <1>1, HereParts, DbParts
<1>5. c.table > M
  BY <1>2, <1>4 DEF Context
<1>6. Kept(open, open', Len(db.tables))
  BY <1>1, <1>3, <1>4, <1>5, KeptAppend
<1>7. nodes' \in Seq(Nodes) /\ Prolongs(nodes, nodes')
  BY ProlongsReflexive DEF TypeInv, OpenBlock
<1>8. \A u \in 2 .. M : db'.tables[u].syms = db.tables[u].syms
  BY <1>3, <1>4
<1> QED BY <1>1, <1>3, <1>6, <1>7, <1>8 DEF Proceeds

LEMMA CloseBlockProceeds ==
  ASSUME TypeInv, CloseBlock PROVE Proceeds
<1>1. /\ Evolves(db, db')
      /\ Here.fun = None => db' = db
      /\ Here.fun # None => IsRegistered(db, db', Here.fun)
      /\ Nested(open', db') /\ Kept(open, open', Len(db.tables))
  BY CloseBlockStep
<1>2. nodes' \in Seq(Nodes) /\ Prolongs(nodes, nodes')
  BY ProlongsReflexive DEF TypeInv, CloseBlock
<1>3. \A u \in 2 .. Len(db.tables) : db'.tables[u].syms = db.tables[u].syms
  BY <1>1 DEF IsRegistered
<1> QED BY <1>1, <1>2, <1>3 DEF Proceeds

\* The tables are as they were, but for the errors.
LEMMA OnlyComplains ==
  ASSUME TypeInv, NEW cond \in BOOLEAN, db' = Complain(db, cond), UNCHANGED <<open, nodes>>
  PROVE  /\ Proceeds
         /\ db'.symbols = db.symbols /\ db'.tables = db.tables
         /\ db'.passed = (db.passed /\ ~cond)
<1>1. WellFormed(db) /\ Nested(open, db)
  BY HereParts
<1>2. /\ Evolves(db, db') /\ db'.symbols = db.symbols /\ db'.tables = db.tables
      /\ db'.passed = (db.passed /\ ~cond)
  BY <1>1, EvolvesComplain, Complained
<1>3. Nested(open', db')
  <2>1. Nested(open, db')
    BY <1>1, <1>2, NestedGrows DEF Evolves
  <2> QED BY <2>1
<1>4. Kept(open, open', Len(db.tables))
  BY KeptReflexive
<1>5. nodes' \in Seq(Nodes) /\ Prolongs(nodes, nodes')
  BY ProlongsReflexive DEF TypeInv
<1> QED BY <1>2, <1>3, <1>4, <1>5 DEF Proceeds

LEMMA FinishStep ==
  ASSUME TypeInv, Finish
  PROVE  /\ Proceeds
         /\ db'.symbols = db.symbols /\ db'.tables = db.tables
         /\ db'.passed => db.passed
         /\ phase' = "translate" =>
              /\ db'.passed
              /\ \A s \in db.tables[1].syms : db.symbols[s].cls = "func" =>
                   db.symbols[s].state = "def"
         /\ phase' \in {"translate", "rejected"}
<1>1. PICK undefined : undefined = {s \in db.tables[1].syms :
                                      IsA(db, s, "func") /\ db.symbols[s].state = "dec"}
  OBVIOUS
<1>2. PICK cond \in BOOLEAN : cond = (undefined # {})
  OBVIOUS
<1>3. /\ db' = Complain(db, cond)
      /\ phase' = IF db.passed /\ undefined = {} THEN "translate" ELSE "rejected"
      /\ UNCHANGED <<open, nodes>>
  BY <1>1, <1>2 DEF Finish
<1>4. /\ Proceeds
      /\ db'.symbols = db.symbols /\ db'.tables = db.tables
      /\ db'.passed = (db.passed /\ ~cond)
  BY <1>3, OnlyComplains
<1>5. phase' = "translate" => db.passed /\ undefined = {} /\ ~cond
  BY <1>2, <1>3
<1>6. ASSUME undefined = {}, NEW s \in db.tables[1].syms, db.symbols[s].cls = "func"
      PROVE  db.symbols[s].state = "def"
  <2>1. WellFormed(db) /\ Len(db.tables) \in Nat /\ Len(db.tables) >= 1
    BY HereParts, DbParts
  <2>2. s \in 1 .. Len(db.symbols) /\ Len(db.symbols) \in Nat
    BY <2>1, DbParts, TableParts
  <2>3. db.symbols[s].state \in {"dec", "def"}
    BY <2>1, <2>2, SymbolParts
  <2>4. s # None
    BY <2>2 DEF None
  <2> QED BY <1>1, <1>6, <2>3, <2>4 DEF IsA
<1> QED BY <1>3, <1>4, <1>5, <1>6

\* Every step of the analysis.
LEMMA AnalyseProceeds ==
  ASSUME TypeInv, Analyse
  PROVE  /\ Proceeds
         /\ phase = "analyse" /\ phase' \in {"analyse", "aborted", "translate", "rejected"}
         /\ pc' = pc
<1>1. ASSUME TypeSpecifier PROVE Proceeds
  BY <1>1, NoSpecIsSpec, SpecifierStep DEF TypeSpecifier
<1>2. ASSUME NEW tag \in TagNames, TagSpecifier(tag) PROVE Proceeds
  <2>1. [tag |-> tag, tp |-> "null"] \in Spec0
    BY DEF Spec0, StructSpec
  <2> QED BY <1>2, <2>1, SpecifierStep DEF TagSpecifier
<1>3. ASSUME NEW tag \in TagNames, OpenStruct(tag) PROVE Proceeds
  BY <1>3, OpenStructStep
<1>4. ASSUME CloseStruct PROVE Proceeds
  BY <1>4, CloseStructStep
<1>5. ASSUME ExtDefStruct PROVE Proceeds
  BY <1>5, ExtDefStructProceeds
<1>6. ASSUME NEW names \in SeqsUpTo(VarNames, MaxDecs) \ {<< >>}, ExtDefVars(names)
      PROVE  Proceeds
  BY <1>6, ExtDefVarsProceeds
<1>7. ASSUME NEW f \in FunNames, NEW params \in SeqsUpTo(ParamNames, MaxParams),
             ExtDefFunAborts(f, params)
      PROVE  Proceeds
  <2>1. UNCHANGED <<db, open, nodes>>
    BY <1>7 DEF ExtDefFunAborts
  <2>2. db' = Complain(db, FALSE)
    <3>1. /\ db = [symbols |-> db.symbols, tables |-> db.tables, passed |-> db.passed]
          /\ db.passed \in BOOLEAN
      BY HereParts, DbParts
    <3> QED BY <2>1, <3>1 DEF Complain
  <2> QED BY <2>1, <2>2, OnlyComplains
<1>8. ASSUME NEW f \in FunNames, NEW params \in SeqsUpTo(ParamNames, MaxParams),
             ExtDefFunDec(f, params)
      PROVE  Proceeds
  BY <1>8, ExtDefFunDecProceeds
<1>9. ASSUME NEW f \in FunNames, NEW params \in SeqsUpTo(ParamNames, MaxParams),
             OpenFun(f, params)
      PROVE  Proceeds
  BY <1>9, OpenFunProceeds
<1>10. ASSUME OpenBlock PROVE Proceeds
  BY <1>10, OpenBlockProceeds
<1>11. ASSUME CloseBlock PROVE Proceeds
  BY <1>11, CloseBlockProceeds
<1>12. ASSUME NEW decs \in SeqsUpTo(Decs, MaxDecs) \ {<< >>}, Def(decs) PROVE Proceeds
  BY <1>12, DefStep
<1>13. ASSUME NEW kind \in {"id", "neg", "call"}, NEW name \in UseNames,
              NEW args \in Seq(Names \cup {NoName}), Use(kind, name, args)
       PROVE  Proceeds
  BY <1>13, UseStep
<1>14. << >> \in Seq(Names \cup {NoName})
       /\ \A args \in SeqsUpTo({NoName}, 1) : args \in Seq(Names \cup {NoName})
  <2>1. ASSUME NEW args \in SeqsUpTo({NoName}, 1) PROVE args \in Seq(Names \cup {NoName})
    <3>1. Len(args) \in Nat /\ args \in [1 .. Len(args) -> {NoName}]
      BY SeqUpTo
    <3>2. args \in [1 .. Len(args) -> Names \cup {NoName}]
      BY <3>1
    <3>3. Len(args) \in Nat
      BY <3>1
    <3> QED BY <3>2, <3>3
  <2>2. << >> \in Seq(Names \cup {NoName})
    OBVIOUS
  <2> QED BY <2>1, <2>2
<1>15. ASSUME Finish PROVE Proceeds
  BY <1>15, FinishStep
<1>16. Proceeds
  BY <1>1, <1>2, <1>3, <1>4, <1>5, <1>6, <1>7, <1>8, <1>9, <1>10, <1>11, <1>12, <1>13, <1>14, <1>15
     DEF Analyse
<1>17. /\ phase = "analyse" /\ phase' \in {"analyse", "aborted", "translate", "rejected"}
       /\ pc' = pc
  BY DEF Analyse, MayDefine, TypeSpecifier, TagSpecifier, OpenStruct, CloseStruct, ExtDefStruct,
         ExtDefVars, ExtDefFunAborts, ExtDefFunDec, OpenFun, OpenBlock, CloseBlock, Def, Use, Finish
<1> QED BY <1>16, <1>17

\* Every step of the translation: the program and the tables are complete.
LEMMA TranslateStep ==
  ASSUME TypeInv, Translate
  PROVE  /\ phase = "translate" /\ UNCHANGED <<open, nodes>>
         /\ Evolves(db, db') /\ db'.tables = db.tables /\ db'.passed = db.passed
         /\ Len(db'.symbols) = Len(db.symbols)
         /\ \A s \in 1 .. Len(db.symbols) : db'.symbols[s].state = db.symbols[s].state
         /\ \/ /\ phase' \in {"unsupported", "translated", "dangling"}
               /\ pc' = pc /\ db' = db
            \/ phase' = "translate" /\ pc <= Len(nodes) /\ pc' = pc + 1
<1> DEFINE Set(d) == /\ Evolves(db, d) /\ d.tables = db.tables /\ d.passed = db.passed
                     /\ Len(d.symbols) = Len(db.symbols)
                     /\ \A s \in 1 .. Len(db.symbols) : d.symbols[s].state = db.symbols[s].state
<1>1. WellFormed(db)
  BY HereParts
<1>2. Set(db)
  BY <1>1, EvolvesReflexive
<1>3. ASSUME NEW d, Set(d), NEW syms, NEW ir \in {"null", "var", "label"}
      PROVE  Set(SetIr(d, syms, ir))
  <2>1. PICK e : e = SetIr(d, syms, ir)
    OBVIOUS
  <2>2. WellFormed(d)
    BY <1>3 DEF Evolves
  <2>3. IsSetIr(d, e, syms, ir)
    BY <2>1, <2>2, IrIsSet
  <2>4. Evolves(d, e)
    BY <2>2, <2>3, EvolvesInPlace DEF IsSetIr
  <2>5. Evolves(db, e)
    BY <1>1, <1>3, <2>4, EvolvesTransitive
  <2> QED BY <1>3, <2>1, <2>3, <2>5 DEF IsSetIr
<1> DEFINE Goes == \/ /\ phase' \in {"unsupported", "translated", "dangling"}
                      /\ pc' = pc /\ db' = db
                   \/ phase' = "translate" /\ pc <= Len(nodes) /\ pc' = pc + 1 /\ Set(db')
           Stays == phase = "translate" /\ UNCHANGED <<open, nodes>>
<1> HIDE DEF Set
<1>4. ASSUME TranslateExt PROVE Goes /\ Stays
  BY <1>4 DEF TranslateExt, Visit, Stop
<1>5. ASSUME TranslateFunDec PROVE Goes /\ Stays
  <2> DEFINE f == st_find(db, 1, At.name)
             params == {st_findonly(db, At.table, At.params[i]) : i \in DOMAIN At.params}
  <2>1. \/ Stop("dangling")
        \/ Advance(SetIr(SetIr(db, {f}, "label"), params, "var"))
    BY <1>5 DEF TranslateFunDec
  <2>2. Set(SetIr(SetIr(db, {f}, "label"), params, "var"))
    <3> HIDE DEF f, params
    <3>1. PICK d : d = SetIr(db, {f}, "label")
      OBVIOUS
    <3>2. Set(d)
      BY <1>2, <1>3, <3>1
    <3>3. Set(SetIr(d, params, "var"))
      BY <1>3, <3>2
    <3> QED BY <3>1, <3>3
  <2>3. phase = "translate" /\ pc <= Len(nodes) /\ UNCHANGED <<open, nodes>>
    BY <1>5 DEF TranslateFunDec, Visit
  <2> HIDE DEF f, params
  <2> QED BY <2>1, <2>2, <2>3 DEF Stop, Advance
<1>6. ASSUME TranslateVarDec PROVE Goes /\ Stays
  <2>1. Set(SetIr(db, {At.sym}, "var"))
    BY <1>2, <1>3
  <2> QED BY <1>6, <2>1 DEF TranslateVarDec, Visit, Advance
<1>7. ASSUME TranslateId PROVE Goes /\ Stays
  BY <1>2, <1>7 DEF TranslateId, Visit, Stop, Advance
<1>8. ASSUME TranslateCall PROVE Goes /\ Stays
  BY <1>2, <1>8 DEF TranslateCall, Visit, Stop, Advance
<1>9. ASSUME TranslationEnds PROVE Goes /\ Stays
  BY <1>9 DEF TranslationEnds
<1>10. Goes /\ Stays
  BY <1>4, <1>5, <1>6, <1>7, <1>8, <1>9 DEF Translate
<1>11. Set(db')
  BY <1>2, <1>10
<1> QED BY <1>10, <1>11 DEF Set

-----------------------------------------------------------------------------
(* The inductive invariant of the types, and what all steps have in common. *)

LEMMA TypeInit == Init => TypeInv /\ Unique(db) /\ GlobalTags(db)
<1> SUFFICES ASSUME Init PROVE TypeInv /\ Unique(db) /\ GlobalTags(db)
  OBVIOUS
<1>1. PICK read, write : /\ read = NewSymbol(ReadName, "func", 0, "def")
                         /\ write = NewSymbol(WriteName, "func", 1, "def")
  OBVIOUS
<1>2. /\ read \in Symbol /\ read.name = ReadName /\ read.cls = "func"
      /\ write \in Symbol /\ write.name = WriteName /\ write.cls = "func"
  BY <1>1, NamesHere, NewSymbols
<1>3. db = [symbols |-> <<read, write>>, tables |-> <<[parent |-> None, syms |-> {1, 2}]>>,
            passed |-> TRUE]
  BY <1>1 DEF Init
<1>4. /\ <<read, write>> \in Seq(Symbol) /\ Len(<<read, write>>) = 2
      /\ <<read, write>>[1] = read /\ <<read, write>>[2] = write
  BY <1>2
<1>5. PICK table : table = [parent |-> None, syms |-> {1, 2}]
  OBVIOUS
<1>6. table \in Table /\ table.parent = 0 /\ table.syms = {1, 2}
  BY <1>5 DEF Table, None
<1>7. db.symbols = <<read, write>> /\ db.tables = <<table>> /\ db.passed = TRUE
  BY <1>3, <1>5
<1>8. /\ Len(db.symbols) = 2 /\ db.symbols[1] = read /\ db.symbols[2] = write
      /\ Len(db.tables) = 1 /\ db.tables[1] = table
      /\ db.symbols \in Seq(Symbol) /\ db.tables \in Seq(Table)
  BY <1>4, <1>6, <1>7
<1>9. db \in Db
  BY <1>3, <1>7, <1>8 DEF Db
<1>10. \A t \in 1 .. 1 : t = 1
  OBVIOUS
<1>11. WellFormed(db)
  BY <1>6, <1>8, <1>9, <1>10 DEF WellFormed
<1>12. Unique(db)
  BY <1>2, <1>6, <1>8, <1>10, NamesHere DEF Unique
<1>13. GlobalTags(db)
  BY <1>2, <1>6, <1>8, <1>10 DEF GlobalTags, HidesNoTag, Values
<1>14. PICK c : c = Context("unit", 1, NoName, None)
  OBVIOUS
<1>15. /\ c \in Contexts /\ c.kind = "unit" /\ c.table = 1 /\ c.fun = 0 /\ c.spec = NoSpec
  BY <1>14, NoSpecIsSpec DEF Context, Contexts, None
<1>16. open = <<c>>
  BY <1>14 DEF Init
<1>17. open \in Seq(Contexts) /\ Len(open) = 1 /\ open[1] = c
  BY <1>15, <1>16
<1>18. Nested(open, db)
  BY <1>8, <1>10, <1>15, <1>17 DEF Nested, None
<1>19. nodes \in Seq(Nodes) /\ Len(nodes) = 0 /\ phase \in Phases /\ pc = 1
  BY DEF Init, Phases
<1> QED BY <1>11, <1>12, <1>13, <1>18, <1>19 DEF TypeInv

LEMMA TypeStep ==
  ASSUME TypeInv, [Next]_vars
  PROVE  TypeInv' /\ Evolves(db, db')
<1>1. CASE Analyse
  <2>1. /\ Proceeds
        /\ phase' \in {"analyse", "aborted", "translate", "rejected"} /\ pc' = pc
    BY <1>1, AnalyseProceeds
  <2>2. Len(nodes) \in Nat /\ Len(nodes') \in Nat /\ Len(nodes) <= Len(nodes')
    BY <2>1 DEF Proceeds, Prolongs, TypeInv
  <2>3. pc' \in 1 .. Len(nodes') + 1
    BY <2>1, <2>2 DEF TypeInv
  <2>4. WellFormed(db') /\ Nested(open', db') /\ nodes' \in Seq(Nodes) /\ Evolves(db, db')
    BY <2>1 DEF Proceeds, Evolves
  <2>5. phase' \in Phases
    BY <2>1 DEF Phases
  <2> QED BY <2>3, <2>4, <2>5 DEF TypeInv
<1>2. CASE Translate
  <2>1. /\ UNCHANGED <<open, nodes>> /\ Evolves(db, db')
        /\ \/ phase' \in {"unsupported", "translated", "dangling"} /\ pc' = pc
           \/ phase' = "translate" /\ pc <= Len(nodes) /\ pc' = pc + 1
    BY <1>2, TranslateStep
  <2>2. WellFormed(db) /\ Nested(open, db) /\ nodes \in Seq(Nodes) /\ Len(nodes) \in Nat
        /\ pc \in 1 .. Len(nodes) + 1
    BY DEF TypeInv
  <2>3. Nested(open, db')
    BY <2>1, <2>2, NestedGrows DEF Evolves
  <2>4. Nested(open', db')
    BY <2>1, <2>3
  <2>5. pc' \in 1 .. Len(nodes') + 1
    BY <2>1, <2>2
  <2>6. phase' \in Phases
    BY <2>1 DEF Phases
  <2> QED BY <2>1, <2>2, <2>4, <2>5, <2>6 DEF TypeInv, Evolves
<1>3. CASE UNCHANGED vars
  <2>1. UNCHANGED <<db, open, nodes, phase, pc>>
    BY <1>3 DEF vars
  <2>2. Evolves(db, db')
    BY <2>1, EvolvesReflexive DEF TypeInv
  <2> QED BY <2>1, <2>2 DEF TypeInv
<1> QED BY <1>1, <1>2, <1>3 DEF Next, Over

\* The types, the tree of the tables and the nesting of the constructs are
\* kept by every handler of the analysis and of the translation.
THEOREM TypesAreKept == Spec => []TypeInv
<1>1. Init => TypeInv
  BY TypeInit
<1>2. TypeInv /\ [Next]_vars => TypeInv'
  BY TypeStep
<1> QED BY <1>1, <1>2, PTL DEF Spec

\* What Scopes says of its types.
THEOREM TypeCorrect == Spec => []TypeOK
<1>1. TypeInv => TypeOK
  <2> SUFFICES ASSUME TypeInv PROVE TypeOK
    OBVIOUS
  <2>1. WellFormed(db) /\ Nested(open, db) /\ nodes \in Seq(Nodes)
    BY DEF TypeInv
  <2>2. /\ db.symbols \in Seq(Symbol) /\ db.tables \in Seq(Table) /\ db.passed \in BOOLEAN
        /\ DOMAIN db.symbols = 1 .. Len(db.symbols) /\ DOMAIN db.tables = 1 .. Len(db.tables)
    BY <2>1, DbParts
  <2>3. \A t \in 1 .. Len(db.tables) : /\ db.tables[t].parent \in 0 .. t - 1
                                       /\ db.tables[t].syms \subseteq 1 .. Len(db.symbols)
    BY <2>1, TableParts
  <2>4. /\ DOMAIN open = 1 .. Len(open)
        /\ \A i \in 1 .. Len(open) : open[i].table \in 1 .. Len(db.tables)
    BY <2>1 DEF Nested
  <2> QED BY <2>2, <2>3, <2>4 DEF TypeOK, TypeInv, Phases
<1> QED BY <1>1, TypesAreKept, PTL

\* Whatever program is analysed, no table holds two symbols of one name: every
\* caller of st_add has looked before.
THEOREM NamesAreUnique == Spec => []UniqueNames
<1>1. TypeInv /\ Unique(db) /\ [Next]_vars => Unique(db)'
  BY TypeStep DEF Evolves, Unique
<1>2. TypeInv /\ Unique(db) => UniqueNames
  <2> SUFFICES ASSUME TypeInv, Unique(db) PROVE UniqueNames
    OBVIOUS
  <2>1. DOMAIN db.tables = 1 .. Len(db.tables)
    BY DbParts DEF TypeInv
  <2> QED BY <2>1 DEF Unique, UniqueNames
<1>3. Init => Unique(db)
  BY TypeInit
<1> QED BY <1>1, <1>2, <1>3, TypesAreKept, PTL DEF Spec

\* Struct tags are in the outermost table only, and a variable hides one only
\* where it was in scope before the tag, or where a function of the name is.
THEOREM StructTagsAreGlobal == Spec => []TagsAreGlobal
<1>1. TypeInv /\ (Unique(db) /\ GlobalTags(db)) /\ [Next]_vars => (Unique(db) /\ GlobalTags(db))'
  <2> SUFFICES ASSUME TypeInv, Unique(db), GlobalTags(db), [Next]_vars
               PROVE  Unique(db') /\ GlobalTags(db')
    BY DEF Unique, GlobalTags
  <2> QED BY TypeStep DEF Evolves
<1>2. TypeInv /\ GlobalTags(db) => TagsAreGlobal
  <2> SUFFICES ASSUME TypeInv, GlobalTags(db) PROVE TagsAreGlobal
    OBVIOUS
  <2>1. DOMAIN db.tables = 1 .. Len(db.tables)
    BY DbParts DEF TypeInv
  <2> QED BY <2>1 DEF GlobalTags, HidesNoTag, TagsAreGlobal
<1>3. Init => Unique(db) /\ GlobalTags(db)
  BY TypeInit
<1> QED BY <1>1, <1>2, <1>3, TypesAreKept, PTL DEF Spec

-----------------------------------------------------------------------------
(* What a name means does not change. *)

LEMMA NextProceeds ==
  ASSUME TypeInv, [Next]_vars
  PROVE  Proceeds
<1>1. CASE Analyse
  BY <1>1, AnalyseProceeds
<1>2. ASSUME UNCHANGED <<open, nodes>>, db'.tables = db.tables PROVE Proceeds
  <2>1. Evolves(db, db') /\ TypeInv'
    BY TypeStep
  <2>2. Kept(open, open', Len(db.tables))
    BY <1>2, KeptReflexive
  <2>3. nodes' \in Seq(Nodes) /\ Nested(open', db')
    BY <2>1 DEF TypeInv
  <2>4. Prolongs(nodes, nodes')
    BY <1>2, <2>3, ProlongsReflexive
  <2> QED BY <1>2, <2>1, <2>2, <2>3, <2>4 DEF Proceeds
<1>3. CASE Translate
  BY <1>2, <1>3, TranslateStep
<1>4. CASE UNCHANGED vars
  BY <1>2, <1>4 DEF vars
<1> QED BY <1>1, <1>3, <1>4 DEF Next, Over

\* The nodes whose names mean at the translation what they meant before: all
\* identifiers and calls, but initialisers are analysed before the variables of
\* their definition are declared.
Uses == IF Inits THEN {"neg", "call"} ELSE {"id", "neg", "call"}

\* A name that has been used in tables that are settled.
Resolved(n, d, o) ==
  /\ n.table \in 1 .. Len(d.tables)
  /\ n.sym # None
  /\ st_find(d, n.table, n.name) = n.sym
  /\ \A u \in Enclosing(d, n.table) : Settled(o, u)

StableInv ==
  /\ phase = "translate" => db.passed
  /\ db.passed =>
       \A i \in 1 .. Len(nodes) : nodes[i].kind \in Uses => Resolved(nodes[i], db, open)

LEMMA ResolvedStays ==
  ASSUME TypeInv, Proceeds, Unique(db'), NEW n, Resolved(n, db, open)
  PROVE  Resolved(n, db', open')
<1>1. /\ WellFormed(db) /\ WellFormed(db') /\ Grows(db, db')
      /\ Nested(open, db) /\ Nested(open', db') /\ Kept(open, open', Len(db.tables))
      /\ Len(db.tables) \in Nat /\ Len(db'.tables) \in Nat /\ Len(db.tables) <= Len(db'.tables)
  BY HereParts, DbParts DEF Proceeds, Evolves, Grows
<1>2. PICK t, name : t = n.table /\ name = n.name
  OBVIOUS
<1>3. /\ t \in 1 .. Len(db.tables) /\ n.sym # None /\ st_find(db, t, name) = n.sym
      /\ \A u \in Enclosing(db, t) : Settled(open, u)
  BY <1>2 DEF Resolved
<1>4. Enclosing(db', t) = Enclosing(db, t)
  BY <1>1, <1>3, EnclosingStays
<1>5. ASSUME NEW u \in Enclosing(db, t)
      PROVE  /\ Settled(open', u)
             /\ u # 1 => db'.tables[u].syms = db.tables[u].syms
  <2>1. u \in 1 .. Len(db.tables)
    <3>1. u \in 1 .. t
      BY <1>1, <1>3, EnclosingParts
    <3> QED BY <1>1, <1>3, <3>1
  <2>2. Settled(open, u)
    BY <1>3
  <2>3. Settled(open', u)
    BY <1>1, <2>1, <2>2, SettledStays
  <2>4. u # 1 => u \in 2 .. Len(db.tables)
    BY <1>1, <2>1
  <2> QED BY <2>2, <2>3, <2>4 DEF Proceeds
<1>6. st_find(db', t, name) = st_find(db, t, name)
  <2>1. \A u \in Enclosing(db, t) : u # 1 => db'.tables[u].syms = db.tables[u].syms
    BY <1>5
  <2> QED BY <1>1, <1>3, <2>1, FindStays
<1>7. t \in 1 .. Len(db'.tables)
  BY <1>1, <1>3
<1> QED BY <1>2, <1>3, <1>4, <1>5, <1>6, <1>7 DEF Resolved

\* Nodes of these kinds come from uses only.
LEMMA NewUses ==
  ASSUME TypeInv, Analyse, NEW k \in Len(nodes) + 1 .. Len(nodes'), nodes'[k].kind \in Uses
  PROVE  \E kind \in {"id", "neg", "call"} : \E name \in UseNames :
           \E args \in Seq(Names \cup {NoName}) : Use(kind, name, args)
<1>0. nodes \in Seq(Nodes) /\ Len(nodes) \in Nat
  BY DEF TypeInv
<1>1. ASSUME NEW n \in Nodes, nodes' = Append(nodes, n), n.kind \notin Uses PROVE FALSE
  <2>1. Len(nodes') = Len(nodes) + 1 /\ nodes'[Len(nodes) + 1] = n
    BY <1>0, <1>1, ProlongsAppend
  <2>2. k = Len(nodes) + 1
    BY <1>0, <2>1
  <2> QED BY <1>1, <2>1, <2>2
<1>2. ASSUME nodes' = nodes PROVE FALSE
  BY <1>0, <1>2
<1>3. \A names, params, f, t, s :
        /\ Node("extvars", NoName, 1, None, names).kind \notin Uses
        /\ Node("fundec", f, 1, None, params).kind \notin Uses
        /\ Node("fun", f, t, s, params).kind \notin Uses
  BY DEF Node, Uses
<1>4. ASSUME NEW names \in SeqsUpTo(VarNames, MaxDecs) \ {<< >>}, ExtDefVars(names)
      PROVE  FALSE
  BY <1>1, <1>3, <1>4, ExtDefVarsStep DEF ExtDefVars
<1>5. ASSUME NEW f \in FunNames, NEW params \in SeqsUpTo(ParamNames, MaxParams),
             ExtDefFunDec(f, params)
      PROVE  FALSE
  BY <1>1, <1>3, <1>5, ExtDefFunDecStep DEF ExtDefFunDec
<1>6. ASSUME NEW f \in FunNames, NEW params \in SeqsUpTo(ParamNames, MaxParams),
             OpenFun(f, params)
      PROVE  FALSE
  <2>1. PICK d : nodes' = Append(nodes, Node("fun", f, Len(d.tables), Len(d.symbols), params))
    BY <1>6, OpenFunStep
  <2>2. nodes' \in Seq(Nodes) /\ Len(nodes') = Len(nodes) + 1
    BY <1>6, OpenFunStep
  <2>3. PICK n : n = Node("fun", f, Len(d.tables), Len(d.symbols), params)
    OBVIOUS
  <2>4. nodes'[Len(nodes) + 1] = n
    BY <1>0, <2>1, <2>3
  <2>5. k = Len(nodes) + 1
    BY <1>0, <2>2
  <2> QED BY <1>3, <2>3, <2>4, <2>5
<1>7. ASSUME NEW decs \in SeqsUpTo(Decs, MaxDecs) \ {<< >>}, Def(decs) PROVE FALSE
  <2>1. CASE Here.kind = "struct"
    BY <1>2, <1>7, <2>1, DefStep
  <2>2. CASE Here.kind = "block"
    <3>1. AreVisited(nodes, nodes', Len(decs), Len(db'.symbols) - Len(decs))
      BY <1>7, <2>2, DefStep
    <3>2. nodes'[k].kind = "dec" \/ (nodes'[k].kind = "id" /\ Inits)
      BY <3>1 DEF AreVisited
    <3> QED BY <3>2 DEF Uses
  <2> QED BY <1>7, <2>1, <2>2, DefStep
<1>8. ASSUME NEW name \in UseNames, NEW kind \in {"id", "neg"}, Use(kind, name, << >>)
      PROVE  \E args \in Seq(Names \cup {NoName}) : Use(kind, name, args)
  <2>1. << >> \in Seq(Names \cup {NoName})
    OBVIOUS
  <2> QED BY <1>8, <2>1
<1>9. ASSUME NEW name \in UseNames, NEW args \in SeqsUpTo({NoName}, 1), Use("call", name, args)
      PROVE  args \in Seq(Names \cup {NoName})
  <2>1. Len(args) \in Nat /\ args \in [1 .. Len(args) -> {NoName}]
    BY SeqUpTo
  <2>2. args \in [1 .. Len(args) -> Names \cup {NoName}]
    BY <2>1
  <2>3. Len(args) \in Nat
    BY <2>1
  <2> QED BY <2>2, <2>3
<1>10. nodes' # nodes
  BY <1>2
<1>11. \/ \E name \in UseNames : Use("id", name, << >>) \/ Use("neg", name, << >>)
       \/ \E name \in UseNames, args \in SeqsUpTo({NoName}, 1) : Use("call", name, args)
  BY <1>4, <1>5, <1>6, <1>7, <1>10
     DEF Analyse, TypeSpecifier, TagSpecifier, OpenStruct, CloseStruct, ExtDefStruct,
         ExtDefFunAborts, OpenBlock, CloseBlock, Finish
<1> QED BY <1>8, <1>9, <1>11

\* In the block of a use all tables are settled but those of the outermost
\* construct: there are statements in all of the blocks.
LEMMA UseResolved ==
  ASSUME TypeInv, NEW kind \in {"id", "neg", "call"}, NEW name \in UseNames,
         NEW args \in Seq(Names \cup {NoName}), Use(kind, name, args), db'.passed
  PROVE  /\ Len(nodes') = Len(nodes) + 1
         /\ Resolved(nodes'[Len(nodes) + 1], db', open')
         /\ nodes'[Len(nodes) + 1].kind = kind
         /\ nodes'[Len(nodes) + 1].name = name
         /\ nodes'[Len(nodes) + 1].table = Here.table
         /\ nodes'[Len(nodes) + 1].params = args
         /\ nodes'[Len(nodes) + 1].sym = st_find(db, Here.table, name)
<1>1. PICK s, t : s = st_find(db, Here.table, name) /\ t = Here.table
  OBVIOUS
<1>2. PICK n : n = Node(kind, name, t, s, args)
  OBVIOUS
<1>3. /\ Proceeds
      /\ db'.symbols = db.symbols /\ db'.tables = db.tables
      /\ nodes' = Append(nodes, n) /\ n \in Nodes
      /\ IsWith(open, open', NoSpec, TRUE)
      /\ s # None
  BY <1>1, <1>2, UseStep
<1>4. nodes \in Seq(Nodes) /\ Len(nodes') = Len(nodes) + 1 /\ nodes'[Len(nodes) + 1] = n
  BY <1>3, ProlongsAppend DEF TypeInv
<1>5. /\ WellFormed(db) /\ Nested(open, db) /\ Here = open[Len(open)] /\ Here.kind = "block"
      /\ Len(open) \in Nat /\ t \in 1 .. Len(db.tables)
      /\ open[1].table = 1
  BY <1>1, HereParts DEF Use, Nested
<1>6. WellFormed(db') /\ Grows(db, db') /\ Nested(open', db')
  BY <1>3 DEF Proceeds, Evolves
<1>7. st_find(db', t, name) = s
  <2>1. st_find(db', t, name) = st_find(db, t, name)
    BY <1>3 DEF st_find, st_findonly
  <2> QED BY <1>1, <2>1
<1>8. \A u : Settled(open', u)
  <2> SUFFICES ASSUME NEW u, u # 1, NEW i \in 1 .. Len(open'), open'[i].table = u
               PROVE  open'[i].stmts
    BY DEF Settled
  <2>1. Len(open') = Len(open)
    BY <1>3 DEF IsWith
  <2>2. CASE i = Len(open)
    BY <1>3, <2>2 DEF IsWith
  <2>3. CASE i # Len(open)
    <3>1. open'[i] = open[i]
      BY <1>3, <2>1, <2>3 DEF IsWith
    <3>2. i # 1
      BY <1>5, <3>1
    <3>3. i \in 2 .. Len(open) - 1 /\ Len(open) \in 1 .. Len(open)
      BY <1>5, <2>1, <2>3, <3>2
    <3>4. open[i].stmts
      BY <1>5, <3>3 DEF Nested
    <3> QED BY <3>1, <3>4
  <2> QED BY <2>2, <2>3
<1>9. /\ n.kind = kind /\ n.name = name /\ n.table = t /\ n.sym = s /\ n.params = args
  BY <1>2 DEF Node
<1>10. Resolved(n, db', open')
  BY <1>3, <1>5, <1>7, <1>8, <1>9 DEF Resolved
<1> QED BY <1>1, <1>4, <1>9, <1>10

LEMMA StableStep ==
  ASSUME TypeInv, Unique(db), StableInv, [Next]_vars
  PROVE  StableInv'
<1>1. Proceeds /\ Unique(db') /\ (db'.passed => db.passed)
  BY NextProceeds DEF Proceeds, Evolves
<1>2. phase' = "translate" => db'.passed
  <2>1. CASE Analyse
    <3> SUFFICES ASSUME phase' = "translate" PROVE Finish
      BY FinishStep
    <3>1. phase # "translate"
      BY <2>1, AnalyseProceeds
    <3> QED BY <2>1, <3>1
       DEF Analyse, MayDefine, TypeSpecifier, TagSpecifier, OpenStruct, CloseStruct, ExtDefStruct,
           ExtDefVars, ExtDefFunAborts, ExtDefFunDec, OpenFun, OpenBlock, CloseBlock, Def, Use
  <2>2. CASE Translate
    BY <2>2, TranslateStep DEF StableInv
  <2>3. CASE UNCHANGED vars
    BY <2>3 DEF vars, StableInv
  <2> QED BY <2>1, <2>2, <2>3 DEF Next, Over
<1>3. ASSUME db'.passed, NEW i \in 1 .. Len(nodes'), nodes'[i].kind \in Uses
      PROVE  Resolved(nodes'[i], db', open')
  <2>1. CASE i \in 1 .. Len(nodes)
    <3>1. nodes'[i] = nodes[i]
      BY <1>1, <2>1 DEF Proceeds, Prolongs
    <3>2. Resolved(nodes[i], db, open)
      BY <1>1, <1>3, <2>1, <3>1 DEF StableInv
    <3>3. Resolved(nodes[i], db', open')
      BY <1>1, <3>2, ResolvedStays
    <3> QED BY <3>1, <3>3
  <2>2. CASE i \notin 1 .. Len(nodes)
    <3>1. Len(nodes) \in Nat /\ i \in Len(nodes) + 1 .. Len(nodes')
      BY <2>2 DEF TypeInv
    <3>2. Analyse
      <4>1. nodes' # nodes
        BY <3>1
      <4>2. ~Translate
        BY <4>1, TranslateStep
      <4> QED BY <4>1, <4>2 DEF Next, Over, vars
    <3>3. PICK kind \in {"id", "neg", "call"} : \E name \in UseNames :
            \E args \in Seq(Names \cup {NoName}) : Use(kind, name, args)
      BY <1>3, <3>1, <3>2, NewUses
    <3>4. PICK name \in UseNames : \E args \in Seq(Names \cup {NoName}) : Use(kind, name, args)
      BY <3>3
    <3>5. PICK args \in Seq(Names \cup {NoName}) : Use(kind, name, args)
      BY <3>4
    <3>6. /\ Len(nodes') = Len(nodes) + 1
          /\ Resolved(nodes'[Len(nodes) + 1], db', open')
      BY <1>3, <3>5, UseResolved
    <3>7. i = Len(nodes) + 1
      BY <3>1, <3>6
    <3> QED BY <3>6, <3>7
  <2> QED BY <2>1, <2>2
<1> QED BY <1>2, <1>3 DEF StableInv

\* As long as there is no error, every name that has been used has a symbol, and
\* no table in which a lookup of it looks gets another one, the outermost table
\* excepted.
THEOREM UsesAreResolved == Spec => []StableInv
<1>1. Init => StableInv
  BY DEF Init, StableInv
<1>2. TypeInv /\ Unique(db) /\ StableInv /\ [Next]_vars => StableInv'
  BY StableStep
<1>3. Init => Unique(db)
  BY TypeInit
<1>4. TypeInv /\ Unique(db) /\ [Next]_vars => Unique(db)'
  BY TypeStep DEF Evolves, Unique
<1> QED BY <1>1, <1>2, <1>3, <1>4, TypesAreKept, PTL DEF Spec

\* A name means the same symbol to the translation as it meant to the analysis,
\* in programs without initialisers: an initialiser is analysed before the names
\* of its definition are declared, and translated with them (Def).
THEOREM NamesAreStable ==
  ASSUME ~Inits
  PROVE  Spec => []StableNames
<1>1. TypeInv /\ StableInv => StableNames
  <2> SUFFICES ASSUME TypeInv, StableInv, phase = "translate", pc <= Len(nodes),
                      At.kind \in {"id", "neg", "call"}
               PROVE  Found = At.sym
    BY DEF StableNames
  <2>1. pc \in 1 .. Len(nodes) /\ At = nodes[pc]
    BY DEF TypeInv, At
  <2>2. Resolved(nodes[pc], db, open)
    BY <2>1 DEF StableInv, Uses
  <2> QED BY <2>1, <2>2 DEF Resolved, Found
<1> QED BY <1>1, TypesAreKept, UsesAreResolved, PTL

\* In every program that is so of calls and of identifiers in expressions that
\* are no initialisers.
THEOREM UsesAreStable ==
  Spec => [](phase = "translate" /\ pc <= Len(nodes) /\ At.kind \in {"neg", "call"}
               => Found = At.sym)
<1>1. TypeInv /\ StableInv =>
        (phase = "translate" /\ pc <= Len(nodes) /\ At.kind \in {"neg", "call"} => Found = At.sym)
  <2> SUFFICES ASSUME TypeInv, StableInv, phase = "translate", pc <= Len(nodes),
                      At.kind \in {"neg", "call"}
               PROVE  Found = At.sym
    OBVIOUS
  <2>1. pc \in 1 .. Len(nodes) /\ At = nodes[pc]
    BY DEF TypeInv, At
  <2>2. Resolved(nodes[pc], db, open)
    BY <2>1 DEF StableInv, Uses
  <2> QED BY <2>1, <2>2 DEF Resolved, Found
<1> QED BY <1>1, TypesAreKept, UsesAreResolved, PTL
=============================================================================
