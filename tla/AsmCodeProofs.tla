---------------------------- MODULE AsmCodeProofs ----------------------------
(***************************************************************************)
(* The instructions of each code do what Calls says of the code, whatever  *)
(* the number of the variables, the position of the rotation and what the  *)
(* temporaries hold.                                                       *)
(***************************************************************************)
EXTENDS AsmCode, CallsProofs, Induction

-----------------------------------------------------------------------------
(* Running a sequence of instructions. *)

\* The steps of RunFrom exist, and are the ones its definition asks for.
LEMMA RunFunction ==
  ASSUME NEW m, NEW code, Len(code) \in Nat
  PROVE  \E after :
           /\ after = [k \in 0 .. Len(code) |->
                         IF k = 0 THEN m ELSE Exec(after[k - 1], code[k])]
           /\ RunFrom(m, code) = after[Len(code)]
<1> DEFINE body(f, k) == IF k = 0 THEN m ELSE Exec(f[k - 1], code[k])
           Has == {n \in Nat : \E f : f = [k \in 0 .. n |-> body(f, k)]}
<1>1. ASSUME NEW n \in Nat, \A j \in Nat : j < n => j \in Has
      PROVE  n \in Has
  <2>1. CASE n = 0
    <3> DEFINE h == [k \in 0 .. 0 |-> m]
    <3>1. h = [k \in 0 .. 0 |-> body(h, k)]
      OBVIOUS
    <3> QED BY <3>1, <2>1
  <2>2. CASE n # 0
    <3>1. PICK g : g = [k \in 0 .. n - 1 |-> body(g, k)]
      <4>1. n - 1 \in Has
        <5> HIDE DEF Has
        <5> QED BY <1>1, <2>2
      <4> QED BY <4>1
    <3> DEFINE h == [k \in 0 .. n |-> IF k < n THEN g[k] ELSE body(g, k)]
    <3>2. ASSUME NEW k \in 0 .. n PROVE h[k] = body(h, k)
      <4>1. k # 0 => k - 1 \in 0 .. n /\ h[k - 1] = g[k - 1]
        OBVIOUS
      <4>2. CASE k = n
        BY <4>1, <4>2
      <4>3. CASE k < n
        <5>1. h[k] = g[k]
          BY <4>3
        <5>2. g[k] = body(g, k)
          <6> HIDE DEF h, body
          <6> QED BY <3>1, <4>3
        <5> QED BY <5>1, <5>2, <4>1
      <4> HIDE DEF h, body
      <4> QED BY <4>2, <4>3
    <3>3. h = [k \in 0 .. n |-> body(h, k)]
      BY <3>2
    <3> QED BY <3>3
  <2> QED BY <2>1, <2>2
<1>2. \E f : f = [k \in 0 .. Len(code) |-> body(f, k)]
  <2>1. Len(code) \in Has
    <3> HIDE DEF Has
    <3> QED BY <1>1, SetInduction
  <2> QED BY <2>1
<1> DEFINE after == CHOOSE f : f = [k \in 0 .. Len(code) |-> body(f, k)]
<1>3. after = [k \in 0 .. Len(code) |-> body(after, k)]
  BY <1>2
<1>4. RunFrom(m, code) = after[Len(code)]
  BY DEF RunFrom
<1> WITNESS after
<1> QED BY <1>3, <1>4

\* One instruction.
LEMMA RunOne ==
  ASSUME NEW m, NEW ins
  PROVE  RunFrom(m, <<ins>>) = Exec(m, ins)
<1>1. PICK code : code = <<ins>>
  OBVIOUS
<1>2. Len(code) = 1 /\ code[1] = ins
  BY <1>1
<1>3. PICK after :
        /\ after = [k \in 0 .. Len(code) |->
                      IF k = 0 THEN m ELSE Exec(after[k - 1], code[k])]
        /\ RunFrom(m, code) = after[Len(code)]
  <2>1. Len(code) \in Nat
    BY <1>2
  <2> QED BY <2>1, RunFunction
<1>4. after[0] = m /\ after[1] = Exec(after[0], code[1])
  BY <1>2, <1>3
<1> QED BY <1>1, <1>2, <1>3, <1>4

\* No instruction.
LEMMA RunNone ==
  ASSUME NEW m
  PROVE  RunFrom(m, << >>) = m
<1>1. PICK code : code = << >>
  OBVIOUS
<1>2. Len(code) = 0
  BY <1>1
<1>3. PICK after :
        /\ after = [k \in 0 .. Len(code) |->
                      IF k = 0 THEN m ELSE Exec(after[k - 1], code[k])]
        /\ RunFrom(m, code) = after[Len(code)]
  <2>1. Len(code) \in Nat
    BY <1>2
  <2> QED BY <2>1, RunFunction
<1>4. after[0] = m
  BY <1>2, <1>3
<1> QED BY <1>1, <1>2, <1>3, <1>4

\* One sequence after the other.
LEMMA RunConcat ==
  ASSUME NEW S, NEW p \in Seq(S), NEW q \in Seq(S), NEW m
  PROVE  RunFrom(m, p \o q) = RunFrom(RunFrom(m, p), q)
<1>1. PICK pq : pq = p \o q
  OBVIOUS
<1>2. PICK a, b : a = Len(p) /\ b = Len(q)
  OBVIOUS
<1>3. /\ a \in Nat /\ b \in Nat /\ Len(pq) = a + b
      /\ \A k \in 1 .. a : pq[k] = p[k]
      /\ \A k \in 1 .. b : pq[a + k] = q[k]
  <2>1. a \in Nat /\ b \in Nat
    BY <1>2
  <2>2. /\ Len(p \o q) = Len(p) + Len(q)
        /\ \A k \in 1 .. Len(p) : (p \o q)[k] = p[k]
        /\ \A k \in 1 .. Len(q) : (p \o q)[Len(p) + k] = q[k]
    BY ConcatElements
  <2> QED BY <2>1, <2>2, <1>1, <1>2
<1>4. PICK n : n = RunFrom(m, p)
  OBVIOUS
<1>5. PICK f : /\ f = [k \in 0 .. a |-> IF k = 0 THEN m ELSE Exec(f[k - 1], p[k])]
               /\ n = f[a]
  <2>1. Len(p) \in Nat
    BY <1>2, <1>3
  <2>2. PICK f : /\ f = [k \in 0 .. Len(p) |-> IF k = 0 THEN m ELSE Exec(f[k - 1], p[k])]
                 /\ RunFrom(m, p) = f[Len(p)]
    BY <2>1, RunFunction
  <2> QED BY <2>2, <1>2, <1>4
<1>6. PICK g : /\ g = [k \in 0 .. b |-> IF k = 0 THEN n ELSE Exec(g[k - 1], q[k])]
               /\ RunFrom(n, q) = g[b]
  <2>1. Len(q) \in Nat
    BY <1>2, <1>3
  <2>2. PICK g : /\ g = [k \in 0 .. Len(q) |-> IF k = 0 THEN n ELSE Exec(g[k - 1], q[k])]
                 /\ RunFrom(n, q) = g[Len(q)]
    BY <2>1, RunFunction
  <2> QED BY <2>2, <1>2
<1>7. PICK h : /\ h = [k \in 0 .. a + b |-> IF k = 0 THEN m ELSE Exec(h[k - 1], pq[k])]
               /\ RunFrom(m, pq) = h[a + b]
  <2>1. Len(pq) \in Nat
    BY <1>3
  <2>2. PICK h : /\ h = [k \in 0 .. Len(pq) |-> IF k = 0 THEN m ELSE Exec(h[k - 1], pq[k])]
                 /\ RunFrom(m, pq) = h[Len(pq)]
    BY <2>1, RunFunction
  <2> QED BY <2>2, <1>3
<1> DEFINE First == {k \in Nat : k <= a => h[k] = f[k]}
           Second == {k \in Nat : k <= b => h[a + k] = g[k]}
<1>8. ASSUME NEW k \in Nat, \A j \in Nat : j < k => j \in First
      PROVE  k \in First
  <2> SUFFICES ASSUME k <= a PROVE h[k] = f[k]
    OBVIOUS
  <2>1. CASE k = 0
    BY <2>1, <1>3, <1>5, <1>7
  <2>2. CASE k # 0
    <3>1. k - 1 \in Nat /\ k - 1 < k /\ k - 1 <= a
      BY <2>2, <1>3
    <3>2. h[k - 1] = f[k - 1]
      BY <3>1, <1>8
    <3>3. h[k] = Exec(h[k - 1], pq[k])
      BY <2>2, <1>3, <1>7
    <3>4. f[k] = Exec(f[k - 1], p[k])
      BY <2>2, <1>3, <1>5
    <3>5. pq[k] = p[k]
      BY <2>2, <1>3
    <3> QED BY <3>2, <3>3, <3>4, <3>5
  <2> QED BY <2>1, <2>2
<1>9. a \in First
  <2> HIDE DEF First
  <2> QED BY <1>3, <1>8, SetInduction
<1>10. ASSUME NEW k \in Nat, \A j \in Nat : j < k => j \in Second
       PROVE  k \in Second
  <2> SUFFICES ASSUME k <= b PROVE h[a + k] = g[k]
    OBVIOUS
  <2>1. CASE k = 0
    <3>1. h[a] = f[a]
      BY <1>3, <1>9
    <3>2. a + k = a /\ g[k] = n
      BY <2>1, <1>3, <1>6
    <3> QED BY <3>1, <3>2, <1>5
  <2>2. CASE k # 0
    <3>1. k - 1 \in Nat /\ k - 1 < k /\ k - 1 <= b
      BY <2>2, <1>3
    <3>2. h[a + (k - 1)] = g[k - 1]
      BY <3>1, <1>10
    <3>3. h[a + k] = Exec(h[a + (k - 1)], pq[a + k])
      <4>1. PICK i : i = a + k
        OBVIOUS
      <4>2. i \in 0 .. a + b /\ i # 0 /\ i - 1 = a + (k - 1)
        BY <4>1, <2>2, <1>3
      <4>3. h[i] = Exec(h[i - 1], pq[i])
        BY <4>2, <1>7
      <4> QED BY <4>1, <4>2, <4>3
    <3>4. g[k] = Exec(g[k - 1], q[k])
      BY <2>2, <1>3, <1>6
    <3>5. pq[a + k] = q[k]
      BY <2>2, <1>3
    <3> QED BY <3>2, <3>3, <3>4, <3>5
  <2> QED BY <2>1, <2>2
<1>11. b \in Second
  <2> HIDE DEF Second
  <2> QED BY <1>3, <1>10, SetInduction
<1>12. h[a + b] = g[b]
  BY <1>3, <1>11
<1> QED BY <1>1, <1>4, <1>6, <1>7, <1>12
-----------------------------------------------------------------------------
(* Machines and instructions. *)

Regs == 0 .. 31

Machines == [data : [Vars -> Int], stack : [Addr -> Int], reg : [Regs -> Int]]

Instructions ==
       [i : {"li"}, rd : Regs, imm : Int]
  \cup [i : {"la"}, rd : Regs, var : Vars]
  \cup [i : {"move"}, rd : Regs, rs : Regs]
  \cup [i : {"addi"}, rd : Regs, rs : Regs, imm : Int]
  \cup [i : {"lw", "sw"}, rd : Regs, rs : Regs]
  \cup [i : ArithKinds, rd : Regs, rs : Regs, rt : Regs]

\* Machine m executes code and becomes n.
Runs(m, code, n) ==
  code \in Seq(Instructions) /\ m \in Machines /\ n \in Machines /\ n = RunFrom(m, code)

\* Nothing but register r changes, to w.
Sets(m, n, r, w) ==
  n.data = m.data /\ n.stack = m.stack /\ n.reg = [m.reg EXCEPT ![r] = w]

\* The registers outside R do not change.
Keeps(m, n, R) == \A q \in Regs \ R : n.reg[q] = m.reg[q]

\* The memory does not change.
SameMemory(m, n) == n.data = m.data /\ n.stack = m.stack

\* One sequence after the other, again.
LEMMA RunsConcat ==
  ASSUME NEW l, NEW m, NEW n, NEW p, NEW q, Runs(l, p, m), Runs(m, q, n)
  PROVE  Runs(l, p \o q, n)
<1>1. p \in Seq(Instructions) /\ q \in Seq(Instructions)
  BY DEF Runs
<1>2. p \o q \in Seq(Instructions)
  BY <1>1
<1>3. RunFrom(l, p \o q) = RunFrom(RunFrom(l, p), q)
  BY <1>1, RunConcat
<1> QED BY <1>2, <1>3 DEF Runs

\* Nothing is executed.
LEMMA RunsNone ==
  ASSUME NEW m \in Machines
  PROVE  Runs(m, << >>, m)
BY RunNone DEF Runs

\* A sequence of one instruction.
LEMMA RunsOne ==
  ASSUME NEW m \in Machines, NEW ins \in Instructions, Exec(m, ins) \in Machines
  PROVE  Runs(m, <<ins>>, Exec(m, ins))
<1>1. <<ins>> \in Seq(Instructions)
  OBVIOUS
<1> QED BY <1>1, RunOne DEF Runs

\* An instruction that sets a register to an integer.
LEMMA SetsRegister ==
  ASSUME NEW m \in Machines, NEW r \in Regs, NEW w \in Int
  PROVE  /\ [m EXCEPT !.reg[r] = w] \in Machines
         /\ Sets(m, [m EXCEPT !.reg[r] = w], r, w)
<1>1. m = [data |-> m.data, stack |-> m.stack, reg |-> m.reg]
  BY DEF Machines
<1>2. m.data \in [Vars -> Int] /\ m.stack \in [Addr -> Int] /\ m.reg \in [Regs -> Int]
  BY DEF Machines
<1>3. PICK g : g = [m.reg EXCEPT ![r] = w]
  OBVIOUS
<1>4. g \in [Regs -> Int]
  BY <1>2, <1>3
<1>5. [m EXCEPT !.reg[r] = w] = [data |-> m.data, stack |-> m.stack, reg |-> g]
  BY <1>1, <1>3
<1> QED BY <1>2, <1>3, <1>4, <1>5 DEF Machines, Sets

\* li sets a register to a number.
LEMMA LiRuns ==
  ASSUME NEW m \in Machines, NEW r \in Regs, NEW w \in Int
  PROVE  \E n : Runs(m, Li(r, w), n) /\ Sets(m, n, r, w)
<1> DEFINE ins == [i |-> "li", rd |-> r, imm |-> w]
           n == [m EXCEPT !.reg[r] = w]
<1>1. ins \in Instructions
  BY DEF Instructions
<1>2. Exec(m, ins) = n
  BY DEF Exec
<1>3. n \in Machines /\ Sets(m, n, r, w)
  BY SetsRegister
<1>4. Runs(m, <<ins>>, n)
  BY <1>1, <1>2, <1>3, RunsOne
<1> QED BY <1>3, <1>4 DEF Li

\* la sets a register to the address of a word of data.
LEMMA LaRuns ==
  ASSUME NEW m \in Machines, NEW r \in Regs, NEW x \in Vars
  PROVE  \E n : Runs(m, La(r, x), n) /\ Sets(m, n, r, Label(x))
<1> DEFINE ins == [i |-> "la", rd |-> r, var |-> x]
           n == [m EXCEPT !.reg[r] = Label(x)]
<1>1. ins \in Instructions
  BY DEF Instructions
<1>2. Exec(m, ins) = n
  BY DEF Exec
<1>3. Label(x) \in Int
  BY Constants DEF Assumptions, Label, Vars
<1>4. n \in Machines /\ Sets(m, n, r, Label(x))
  BY <1>3, SetsRegister
<1>5. Runs(m, <<ins>>, n)
  BY <1>1, <1>2, <1>4, RunsOne
<1> QED BY <1>4, <1>5 DEF La

\* move copies a register.
LEMMA MoveRuns ==
  ASSUME NEW m \in Machines, NEW r \in Regs, NEW s \in Regs
  PROVE  \E n : Runs(m, Move(r, s), n) /\ Sets(m, n, r, m.reg[s])
<1> DEFINE ins == [i |-> "move", rd |-> r, rs |-> s]
           n == [m EXCEPT !.reg[r] = m.reg[s]]
<1>1. ins \in Instructions
  BY DEF Instructions
<1>2. Exec(m, ins) = n
  BY DEF Exec
<1>3. m.reg[s] \in Int
  BY DEF Machines
<1>4. n \in Machines /\ Sets(m, n, r, m.reg[s])
  BY <1>3, SetsRegister
<1>5. Runs(m, <<ins>>, n)
  BY <1>1, <1>2, <1>4, RunsOne
<1> QED BY <1>4, <1>5 DEF Move

\* addi adds a number to a register.
LEMMA AddiRuns ==
  ASSUME NEW m \in Machines, NEW r \in Regs, NEW s \in Regs, NEW w \in Int
  PROVE  \E n : Runs(m, Addi(r, s, w), n) /\ Sets(m, n, r, m.reg[s] + w)
<1> DEFINE ins == [i |-> "addi", rd |-> r, rs |-> s, imm |-> w]
           n == [m EXCEPT !.reg[r] = m.reg[s] + w]
<1>1. ins \in Instructions
  BY DEF Instructions
<1>2. Exec(m, ins) = n
  BY DEF Exec
<1>3. m.reg[s] + w \in Int
  BY DEF Machines
<1>4. n \in Machines /\ Sets(m, n, r, m.reg[s] + w)
  BY <1>3, SetsRegister
<1>5. Runs(m, <<ins>>, n)
  BY <1>1, <1>2, <1>4, RunsOne
<1> QED BY <1>4, <1>5 DEF Addi

\* The arithmetic instructions set a register to what Arith says.
LEMMA ArithRuns ==
  ASSUME NEW m \in Machines, NEW kind \in ArithKinds,
         NEW r \in Regs, NEW s \in Regs, NEW t \in Regs,
         Arith(kind, m.reg[s], m.reg[t]) \in Int
  PROVE  \E n : /\ Runs(m, Arith3(kind, r, s, t), n)
                /\ Sets(m, n, r, Arith(kind, m.reg[s], m.reg[t]))
<1> DEFINE ins == [i |-> kind, rd |-> r, rs |-> s, rt |-> t]
           w == Arith(kind, m.reg[s], m.reg[t])
           n == [m EXCEPT !.reg[r] = w]
<1>1. ins \in Instructions
  BY DEF Instructions
<1>2. kind \notin {"li", "la", "move", "addi", "lw", "sw"}
  BY DEF ArithKinds
<1>3. Exec(m, ins) = n
  <2> HIDE DEF w
  <2>1. ins.i = kind /\ ins.rd = r /\ ins.rs = s /\ ins.rt = t
    OBVIOUS
  <2> HIDE DEF ins
  <2>2. Exec(m, ins) = [m EXCEPT !.reg[ins.rd] = Arith(ins.i, m.reg[ins.rs], m.reg[ins.rt])]
    BY <1>2, <2>1 DEF Exec
  <2> QED BY <2>1, <2>2 DEF w
<1>4. n \in Machines /\ Sets(m, n, r, w)
  <2> HIDE DEF w
  <2>1. w \in Int
    BY DEF w
  <2> QED BY <2>1, SetsRegister
<1>5. Runs(m, <<ins>>, n)
  <2> HIDE DEF ins, n
  <2> QED BY <1>1, <1>3, <1>4, RunsOne
<1> QED BY <1>4, <1>5 DEF Arith3

\* A word of the stack is loaded.
LEMMA LwStackRuns ==
  ASSUME NEW m \in Machines, NEW r \in Regs, NEW s \in Regs, m.reg[s] \in Addr
  PROVE  \E n : Runs(m, Lw(r, s), n) /\ Sets(m, n, r, m.stack[m.reg[s]])
<1> DEFINE ins == [i |-> "lw", rd |-> r, rs |-> s]
           n == [m EXCEPT !.reg[r] = m.stack[m.reg[s]]]
<1>1. ins \in Instructions
  BY DEF Instructions
<1>2. Exec(m, ins) = n
  BY DEF Exec, Load
<1>3. m.stack[m.reg[s]] \in Int
  BY DEF Machines
<1>4. n \in Machines /\ Sets(m, n, r, m.stack[m.reg[s]])
  BY <1>3, SetsRegister
<1>5. Runs(m, <<ins>>, n)
  BY <1>1, <1>2, <1>4, RunsOne
<1> QED BY <1>4, <1>5 DEF Lw

\* The word of a variable has no address of the stack.
LEMMA LabelIsNoAddress ==
  ASSUME NEW x \in Vars
  PROVE  Label(x) \in Int /\ Label(x) \notin Addr /\ Label(x) - StackSize = x
BY Constants DEF Assumptions, Label, Vars, Addr

\* The word of a variable is loaded.
LEMMA LwDataRuns ==
  ASSUME NEW m \in Machines, NEW r \in Regs, NEW s \in Regs, NEW x \in Vars,
         m.reg[s] = Label(x)
  PROVE  \E n : Runs(m, Lw(r, s), n) /\ Sets(m, n, r, m.data[x])
<1> DEFINE ins == [i |-> "lw", rd |-> r, rs |-> s]
           n == [m EXCEPT !.reg[r] = m.data[x]]
<1>1. ins \in Instructions
  BY DEF Instructions
<1>2. Load(m, m.reg[s]) = m.data[x]
  BY LabelIsNoAddress DEF Load
<1>3. Exec(m, ins) = n
  BY <1>2 DEF Exec
<1>4. m.data[x] \in Int
  BY DEF Machines
<1>5. n \in Machines /\ Sets(m, n, r, m.data[x])
  BY <1>4, SetsRegister
<1>6. Runs(m, <<ins>>, n)
  BY <1>1, <1>3, <1>5, RunsOne
<1> QED BY <1>5, <1>6 DEF Lw

\* A word of the stack is stored.
LEMMA SwStackRuns ==
  ASSUME NEW m \in Machines, NEW r \in Regs, NEW s \in Regs, m.reg[s] \in Addr
  PROVE  \E n : /\ Runs(m, Sw(r, s), n)
                /\ n.data = m.data /\ n.reg = m.reg
                /\ n.stack = [m.stack EXCEPT ![m.reg[s]] = m.reg[r]]
<1> DEFINE ins == [i |-> "sw", rd |-> r, rs |-> s]
           n == [m EXCEPT !.stack[m.reg[s]] = m.reg[r]]
<1>1. ins \in Instructions
  BY DEF Instructions
<1>2. Exec(m, ins) = n
  BY DEF Exec, Store
<1>3. m.data \in [Vars -> Int] /\ m.stack \in [Addr -> Int] /\ m.reg \in [Regs -> Int]
  BY DEF Machines
<1>4. PICK g : g = [m.stack EXCEPT ![m.reg[s]] = m.reg[r]]
  OBVIOUS
<1>5. g \in [Addr -> Int]
  BY <1>3, <1>4
<1>6. n = [data |-> m.data, stack |-> g, reg |-> m.reg]
  BY <1>4 DEF Machines
<1>7. n \in Machines /\ n.data = m.data /\ n.reg = m.reg /\ n.stack = g
  BY <1>3, <1>5, <1>6 DEF Machines
<1>8. Runs(m, <<ins>>, n)
  BY <1>1, <1>2, <1>7, RunsOne
<1> QED BY <1>4, <1>7, <1>8 DEF Sw

\* The word of a variable is stored.
LEMMA SwDataRuns ==
  ASSUME NEW m \in Machines, NEW r \in Regs, NEW s \in Regs, NEW x \in Vars,
         m.reg[s] = Label(x)
  PROVE  \E n : /\ Runs(m, Sw(r, s), n)
                /\ n.stack = m.stack /\ n.reg = m.reg
                /\ n.data = [m.data EXCEPT ![x] = m.reg[r]]
<1> DEFINE ins == [i |-> "sw", rd |-> r, rs |-> s]
           n == [m EXCEPT !.data[x] = m.reg[r]]
<1>1. ins \in Instructions
  BY DEF Instructions
<1>2. Exec(m, ins) = n
  <2>1. m.reg[s] \notin Addr /\ m.reg[s] - StackSize = x
    BY LabelIsNoAddress
  <2> QED BY <2>1 DEF Exec, Store
<1>3. m.data \in [Vars -> Int] /\ m.stack \in [Addr -> Int] /\ m.reg \in [Regs -> Int]
  BY DEF Machines
<1>4. PICK g : g = [m.data EXCEPT ![x] = m.reg[r]]
  OBVIOUS
<1>5. g \in [Vars -> Int]
  BY <1>3, <1>4
<1>6. n = [data |-> g, stack |-> m.stack, reg |-> m.reg]
  BY <1>4 DEF Machines
<1>7. n \in Machines /\ n.data = g /\ n.reg = m.reg /\ n.stack = m.stack
  BY <1>3, <1>5, <1>6 DEF Machines
<1>8. Runs(m, <<ins>>, n)
  BY <1>1, <1>2, <1>7, RunsOne
<1> QED BY <1>4, <1>7, <1>8 DEF Sw

-----------------------------------------------------------------------------
(* What is emitted. *)

Temps == FirstTemp .. LastTemp

\* The registers that the generator names are distinct and no temporaries.
LEMMA TempsAreRegisters ==
  /\ Temps \subseteq Regs /\ {V0, A0, SP, FP, RA} \subseteq Regs \ Temps
  /\ SP \notin {V0, A0, FP, RA} /\ FP \notin {V0, A0, RA} /\ RA \notin {V0, A0} /\ V0 # A0
BY DEF Temps, Regs, FirstTemp, LastTemp, V0, A0, SP, FP, RA

\* get_reg gives temporaries.
LEMMA RegIsTemp ==
  ASSUME NEW c \in Nat
  PROVE  Reg(c) \in Temps
BY DEF Reg, Temps, FirstTemp, LastTemp, TempRegs

\* Fewer than TempRegs calls of get_reg give distinct registers.
LEMMA RegsDiffer ==
  ASSUME NEW c \in Nat, NEW d \in Nat, c < d, d - c < TempRegs
  PROVE  Reg(c) # Reg(d)
BY DEF Reg, FirstTemp, LastTemp, TempRegs

\* prepare_oprand of a variable brings its word into a register.
LEMMA PrepareVarRuns ==
  ASSUME NEW m \in Machines, NEW x \in Vars, NEW r \in Regs, NEW c \in Nat
  PROVE  \E n : /\ Runs(m, PrepareVar(x, r, c), n) /\ SameMemory(m, n)
                /\ n.reg[r] = m.data[x] /\ Keeps(m, n, {r, Reg(c)})
<1>1. Reg(c) \in Regs
  BY RegIsTemp, TempsAreRegisters
<1>2. PICK l : Runs(m, La(Reg(c), x), l) /\ Sets(m, l, Reg(c), Label(x))
  BY <1>1, LaRuns
<1>3. l \in Machines /\ l.reg[Reg(c)] = Label(x)
  BY <1>1, <1>2 DEF Runs, Sets, Machines
<1>4. PICK n : Runs(l, Lw(r, Reg(c)), n) /\ Sets(l, n, r, l.data[x])
  BY <1>1, <1>3, LwDataRuns
<1>5. Runs(m, PrepareVar(x, r, c), n)
  BY <1>2, <1>4, RunsConcat DEF PrepareVar
<1>6. SameMemory(m, n) /\ n.reg[r] = m.data[x]
  BY <1>2, <1>3, <1>4 DEF Sets, Runs, Machines, SameMemory
<1>7. Keeps(m, n, {r, Reg(c)})
  BY <1>2, <1>3, <1>4 DEF Sets, Runs, Machines, Keeps
<1> WITNESS n
<1> QED BY <1>5, <1>6, <1>7

\* An address is loaded into the register that held its own address.
LEMMA PrepareAddressRuns ==
  ASSUME NEW m \in Machines, NEW x \in Vars, NEW c \in Nat
  PROVE  \E n : /\ Runs(m, PrepareVar(x, Reg(c), c), n) /\ SameMemory(m, n)
                /\ n.reg[Reg(c)] = m.data[x] /\ Keeps(m, n, {Reg(c)})
<1>1. Reg(c) \in Regs
  BY RegIsTemp, TempsAreRegisters
<1>2. PICK n : /\ Runs(m, PrepareVar(x, Reg(c), c), n) /\ SameMemory(m, n)
               /\ n.reg[Reg(c)] = m.data[x] /\ Keeps(m, n, {Reg(c), Reg(c)})
  BY <1>1, PrepareVarRuns
<1>3. Keeps(m, n, {Reg(c)})
  BY <1>2 DEF Keeps
<1> QED BY <1>2, <1>3

\* prepare_oprand delivers the value of the operand; it takes the registers at
\* c and, for a variable, at c + 1.
LEMMA PrepareOprandRuns ==
  ASSUME NEW m \in Machines, NEW op \in Operands, NEW r \in Regs, NEW c \in Nat,
         op.kind = "Deref" => m.data[op.var] \in Addr
  PROVE  \E n : /\ Runs(m, PrepareOprand(op, r, c), n) /\ SameMemory(m, n)
                /\ n.reg[r] = Value(op, m.data, m.stack)
                /\ Keeps(m, n, {r, Reg(c), Reg(c + 1)})
<1>1. Reg(c) \in Regs /\ c + 1 \in Nat /\ Reg(c + 1) \in Regs
  BY RegIsTemp, TempsAreRegisters
<1>2. CASE op.kind = "Variable"
  <2>1. op.var \in Vars
    BY <1>2 DEF Operands, VarOperands, DerefOperands, RefOperands, ConstOperands
  <2>2. PICK n : /\ Runs(m, PrepareVar(op.var, r, c + 1), n) /\ SameMemory(m, n)
                 /\ n.reg[r] = m.data[op.var] /\ Keeps(m, n, {r, Reg(c + 1)})
    BY <1>1, <2>1, PrepareVarRuns
  <2>3. PrepareOprand(op, r, c) = PrepareVar(op.var, r, c + 1)
    BY <1>2 DEF PrepareOprand
  <2>4. Value(op, m.data, m.stack) = m.data[op.var]
    BY <1>2 DEF Value
  <2>5. Keeps(m, n, {r, Reg(c), Reg(c + 1)})
    BY <2>2 DEF Keeps
  <2> QED BY <2>2, <2>3, <2>4, <2>5
<1>3. CASE op.kind = "Constant"
  <2>1. op.value \in Int
    BY <1>3 DEF Operands, VarOperands, DerefOperands, RefOperands, ConstOperands
  <2>2. PICK n : Runs(m, Li(r, op.value), n) /\ Sets(m, n, r, op.value)
    BY <2>1, LiRuns
  <2>3. PrepareOprand(op, r, c) = Li(r, op.value)
    BY <1>3 DEF PrepareOprand
  <2>4. Value(op, m.data, m.stack) = op.value
    BY <1>3 DEF Value
  <2>5. SameMemory(m, n) /\ n.reg[r] = op.value /\ Keeps(m, n, {r, Reg(c), Reg(c + 1)})
    BY <2>2 DEF Keeps, SameMemory, Sets, Machines
  <2> QED BY <2>2, <2>3, <2>4, <2>5
<1>4. CASE op.kind = "Ref"
  <2>1. op.var \in Vars
    BY <1>4 DEF Operands, VarOperands, DerefOperands, RefOperands, ConstOperands
  <2>2. PICK n : /\ Runs(m, PrepareVar(op.var, r, c), n) /\ SameMemory(m, n)
                 /\ n.reg[r] = m.data[op.var] /\ Keeps(m, n, {r, Reg(c)})
    BY <2>1, PrepareVarRuns
  <2>3. PrepareOprand(op, r, c) = PrepareVar(op.var, r, c)
    BY <1>4 DEF PrepareOprand, PrepareVar
  <2>4. Value(op, m.data, m.stack) = m.data[op.var]
    BY <1>4 DEF Value
  <2>5. Keeps(m, n, {r, Reg(c), Reg(c + 1)})
    BY <2>2 DEF Keeps
  <2> QED BY <2>2, <2>3, <2>4, <2>5
<1>5. CASE op.kind = "Deref"
  <2>1. op.var \in Vars
    BY <1>5 DEF Operands, VarOperands, DerefOperands, RefOperands, ConstOperands
  <2>2. PICK k : /\ Runs(m, PrepareVar(op.var, Reg(c), c), k) /\ SameMemory(m, k)
                 /\ k.reg[Reg(c)] = m.data[op.var] /\ Keeps(m, k, {Reg(c)})
    BY <2>1, PrepareAddressRuns
  <2>3. k \in Machines /\ k.reg[Reg(c)] \in Addr
    BY <1>5, <2>2 DEF Runs
  <2>4. PICK n : /\ Runs(k, Lw(r, Reg(c)), n)
                 /\ Sets(k, n, r, k.stack[k.reg[Reg(c)]])
    BY <1>1, <2>3, LwStackRuns
  <2>5. PrepareOprand(op, r, c) = PrepareVar(op.var, Reg(c), c) \o Lw(r, Reg(c))
    BY <1>5 DEF PrepareOprand, PrepareVar
  <2>6. Runs(m, PrepareOprand(op, r, c), n)
    BY <2>2, <2>4, <2>5, RunsConcat
  <2>7. Value(op, m.data, m.stack) = m.stack[m.data[op.var]]
    BY <1>5 DEF Value
  <2>8. SameMemory(m, n) /\ n.reg[r] = m.stack[m.data[op.var]]
    BY <2>2, <2>3, <2>4 DEF Sets, SameMemory, Machines
  <2>9. Keeps(m, n, {r, Reg(c), Reg(c + 1)})
    BY <2>2, <2>3, <2>4 DEF Sets, Keeps, Machines
  <2> WITNESS n
  <2> QED BY <2>6, <2>7, <2>8, <2>9
<1>6. op.kind \in {"Variable", "Constant", "Ref", "Deref"}
  BY DEF Operands, VarOperands, DerefOperands, RefOperands, ConstOperands
<1> QED BY <1>2, <1>3, <1>4, <1>5, <1>6

\* apply_oprand of a variable stores a register into its word.
LEMMA ApplyVarRuns ==
  ASSUME NEW m \in Machines, NEW x \in Vars, NEW r \in Regs, NEW c \in Nat, r # Reg(c)
  PROVE  \E n : /\ Runs(m, ApplyVar(x, r, c), n)
                /\ n.data = [m.data EXCEPT ![x] = m.reg[r]] /\ n.stack = m.stack
                /\ Keeps(m, n, {Reg(c)})
<1>1. Reg(c) \in Regs
  BY RegIsTemp, TempsAreRegisters
<1>2. PICK l : Runs(m, La(Reg(c), x), l) /\ Sets(m, l, Reg(c), Label(x))
  BY <1>1, LaRuns
<1>3. l \in Machines /\ l.reg[Reg(c)] = Label(x) /\ l.reg[r] = m.reg[r]
  BY <1>1, <1>2 DEF Runs, Sets, Machines
<1>4. PICK n : /\ Runs(l, Sw(r, Reg(c)), n)
               /\ n.stack = l.stack /\ n.reg = l.reg
               /\ n.data = [l.data EXCEPT ![x] = l.reg[r]]
  BY <1>1, <1>3, SwDataRuns
<1>5. Runs(m, ApplyVar(x, r, c), n)
  BY <1>2, <1>4, RunsConcat DEF ApplyVar
<1>6. n.data = [m.data EXCEPT ![x] = m.reg[r]] /\ n.stack = m.stack
  BY <1>2, <1>3, <1>4 DEF Sets
<1>7. Keeps(m, n, {Reg(c)})
  BY <1>2, <1>3, <1>4 DEF Sets, Machines, Keeps
<1> WITNESS n
<1> QED BY <1>5, <1>6, <1>7

\* apply_oprand stores a register into the operand, when the register is none
\* of those that it takes itself.
LEMMA ApplyOprandRuns ==
  ASSUME NEW m \in Machines, NEW op \in Targets, NEW r \in Regs, NEW c \in Nat,
         r # Reg(c), r # Reg(c + 1),
         op.kind = "Deref" => m.data[op.var] \in Addr
  PROVE  \E n : /\ Runs(m, ApplyOprand(op, r, c), n)
                /\ IF op.kind = "Deref"
                   THEN /\ n.stack = [m.stack EXCEPT ![m.data[op.var]] = m.reg[r]]
                        /\ n.data = m.data
                   ELSE /\ n.data = [m.data EXCEPT ![op.var] = m.reg[r]]
                        /\ n.stack = m.stack
                /\ Keeps(m, n, {Reg(c), Reg(c + 1)})
<1>1. Reg(c) \in Regs /\ c + 1 \in Nat /\ Reg(c + 1) \in Regs /\ op.var \in Vars
  BY RegIsTemp, TempsAreRegisters DEF Targets, VarOperands, DerefOperands
<1>2. CASE op.kind = "Variable"
  <2>1. PICK n : /\ Runs(m, ApplyVar(op.var, r, c + 1), n)
                 /\ n.data = [m.data EXCEPT ![op.var] = m.reg[r]] /\ n.stack = m.stack
                 /\ Keeps(m, n, {Reg(c + 1)})
    BY <1>1, ApplyVarRuns
  <2>2. ApplyOprand(op, r, c) = ApplyVar(op.var, r, c + 1)
    BY <1>2 DEF ApplyOprand
  <2>3. Keeps(m, n, {Reg(c), Reg(c + 1)})
    BY <2>1 DEF Keeps
  <2> QED BY <1>2, <2>1, <2>2, <2>3
<1>3. CASE op.kind = "Deref"
  <2>1. PICK k : /\ Runs(m, PrepareVar(op.var, Reg(c), c), k) /\ SameMemory(m, k)
                 /\ k.reg[Reg(c)] = m.data[op.var] /\ Keeps(m, k, {Reg(c)})
    BY <1>1, PrepareAddressRuns
  <2>2. k \in Machines /\ k.reg[Reg(c)] \in Addr /\ k.reg[r] = m.reg[r]
    BY <1>3, <2>1 DEF Runs, Keeps
  <2>3. PICK n : /\ Runs(k, Sw(r, Reg(c)), n)
                 /\ n.data = k.data /\ n.reg = k.reg
                 /\ n.stack = [k.stack EXCEPT ![k.reg[Reg(c)]] = k.reg[r]]
    BY <1>1, <2>2, SwStackRuns
  <2>4. ApplyOprand(op, r, c) = PrepareVar(op.var, Reg(c), c) \o Sw(r, Reg(c))
    BY <1>3 DEF ApplyOprand, PrepareVar
  <2>5. Runs(m, ApplyOprand(op, r, c), n)
    BY <2>1, <2>3, <2>4, RunsConcat
  <2>6. n.data = m.data /\ n.stack = [m.stack EXCEPT ![m.data[op.var]] = m.reg[r]]
    BY <2>1, <2>2, <2>3 DEF SameMemory
  <2>7. Keeps(m, n, {Reg(c), Reg(c + 1)})
    BY <2>1, <2>3 DEF Keeps
  <2> QED BY <1>3, <2>5, <2>6, <2>7
<1>4. op.kind \in {"Variable", "Deref"}
  BY DEF Targets, VarOperands, DerefOperands
<1> QED BY <1>2, <1>3, <1>4

\* A register is stored into a variable.
LEMMA ApplyResultRuns ==
  ASSUME NEW m \in Machines, NEW x \in Vars, NEW r \in Regs, NEW c \in Nat, r # Reg(c + 1)
  PROVE  \E n : /\ Runs(m, ApplyOprand(Var(x), r, c), n)
                /\ n.data = [m.data EXCEPT ![x] = m.reg[r]] /\ n.stack = m.stack
                /\ Keeps(m, n, {Reg(c + 1)})
<1>1. ApplyOprand(Var(x), r, c) = ApplyVar(x, r, c + 1)
  BY DEF ApplyOprand, Var
<1>2. c + 1 \in Nat
  OBVIOUS
<1> QED BY <1>1, <1>2, ApplyVarRuns

\* gen_push takes a word of the stack and puts a register there.
LEMMA PushRuns ==
  ASSUME NEW m \in Machines, NEW r \in Regs, r # SP, m.reg[SP] - 1 \in Addr
  PROVE  \E n : /\ Runs(m, Push(r), n)
                /\ n.data = m.data
                /\ n.stack = [m.stack EXCEPT ![m.reg[SP] - 1] = m.reg[r]]
                /\ n.reg = [m.reg EXCEPT ![SP] = m.reg[SP] - 1]
<1>1. SP \in Regs /\ -1 \in Int
  BY TempsAreRegisters
<1>2. PICK l : Runs(m, Addi(SP, SP, -1), l) /\ Sets(m, l, SP, m.reg[SP] + (-1))
  BY <1>1, AddiRuns
<1>3. m.reg[SP] \in Int
  BY <1>1 DEF Machines
<1>4. /\ l \in Machines /\ l.reg = [m.reg EXCEPT ![SP] = m.reg[SP] - 1]
      /\ l.data = m.data /\ l.stack = m.stack
  BY <1>2, <1>3 DEF Runs, Sets
<1>5. l.reg[SP] = m.reg[SP] - 1 /\ l.reg[r] = m.reg[r]
  BY <1>1, <1>4 DEF Machines
<1>6. PICK n : /\ Runs(l, Sw(r, SP), n)
               /\ n.data = l.data /\ n.reg = l.reg
               /\ n.stack = [l.stack EXCEPT ![l.reg[SP]] = l.reg[r]]
  <2>1. l \in Machines /\ SP \in Regs /\ l.reg[SP] \in Addr
    BY <1>1, <1>4, <1>5
  <2> QED BY <2>1, SwStackRuns
<1>7. Runs(m, Push(r), n)
  BY <1>2, <1>6, RunsConcat DEF Push
<1> WITNESS n
<1> QED BY <1>4, <1>5, <1>6, <1>7

\* gen_pop brings the last word of the stack into a register.
LEMMA PopRuns ==
  ASSUME NEW m \in Machines, NEW r \in Regs, r # SP, m.reg[SP] \in Addr
  PROVE  \E n : /\ Runs(m, Pop(r), n) /\ SameMemory(m, n)
                /\ n.reg[r] = m.stack[m.reg[SP]] /\ n.reg[SP] = m.reg[SP] + 1
                /\ Keeps(m, n, {r, SP})
<1>1. SP \in Regs /\ 1 \in Int
  BY TempsAreRegisters
<1>2. PICK l : Runs(m, Lw(r, SP), l) /\ Sets(m, l, r, m.stack[m.reg[SP]])
  BY <1>1, LwStackRuns
<1>3. l \in Machines /\ l.reg[SP] = m.reg[SP] /\ l.reg[r] = m.stack[m.reg[SP]]
  BY <1>1, <1>2 DEF Runs, Sets, Machines
<1>4. PICK n : Runs(l, Addi(SP, SP, 1), n) /\ Sets(l, n, SP, l.reg[SP] + 1)
  BY <1>1, <1>3, AddiRuns
<1>5. Runs(m, Pop(r), n)
  BY <1>2, <1>4, RunsConcat DEF Pop
<1>6. SameMemory(m, n)
  BY <1>2, <1>4 DEF Sets, SameMemory
<1>7. n.reg[r] = m.stack[m.reg[SP]] /\ n.reg[SP] = m.reg[SP] + 1
  BY <1>1, <1>3, <1>4 DEF Sets, Machines
<1>8. Keeps(m, n, {r, SP})
  BY <1>1, <1>2, <1>3, <1>4 DEF Sets, Machines, Keeps
<1> WITNESS n
<1> QED BY <1>5, <1>6, <1>7, <1>8

-----------------------------------------------------------------------------
(* The loops over the variables. *)

\* The first i variables have been pushed.
Stored(m, k, i) ==
  /\ k.data = m.data
  /\ k.reg[SP] = m.reg[SP] - i
  /\ \A a \in Addr : k.stack[a] = IF a \in m.reg[SP] - i .. m.reg[SP] - 1
                                 THEN m.data[m.reg[SP] - a] ELSE m.stack[a]
  /\ Keeps(m, k, Temps \cup {SP})

\* One variable is pushed.
LEMMA StoreVarRuns ==
  ASSUME NEW m \in Machines, NEW c \in Nat, NEW x \in Vars, NEW k \in Machines,
         Stored(m, k, x - 1), m.reg[SP] \in 0 .. StackSize, m.reg[SP] - x >= 0
  PROVE  \E n : /\ Runs(k, PrepareVar(x, Reg(c), c + x) \o Push(Reg(c)), n)
                /\ Stored(m, n, x)
<1>1. /\ x \in Nat /\ c + x \in Nat /\ Reg(c) \in Temps /\ Reg(c + x) \in Temps
      /\ Reg(c) \in Regs /\ SP \in Regs /\ SP \notin Temps /\ Reg(c) # SP
      /\ StackSize \in Nat
  BY RegIsTemp, TempsAreRegisters, Constants DEF Vars, Assumptions
<1>2. PICK l : /\ Runs(k, PrepareVar(x, Reg(c), c + x), l) /\ SameMemory(k, l)
               /\ l.reg[Reg(c)] = k.data[x] /\ Keeps(k, l, {Reg(c), Reg(c + x)})
  BY <1>1, PrepareVarRuns
<1>3. l.reg[SP] = m.reg[SP] - (x - 1)
  BY <1>1, <1>2 DEF Keeps, Stored
<1>4. l \in Machines /\ l.reg[SP] - 1 = m.reg[SP] - x /\ l.reg[SP] - 1 \in Addr
  <2>1. l \in Machines /\ x \in Nat /\ x >= 1
    BY <1>2 DEF Runs, Vars
  <2>2. l.reg[SP] - 1 = m.reg[SP] - x
    BY <1>3, <2>1
  <2>3. m.reg[SP] - x \in Addr
    BY <1>1, <2>1 DEF Addr
  <2> QED BY <2>1, <2>2, <2>3
<1>5. PICK n : /\ Runs(l, Push(Reg(c)), n)
               /\ n.data = l.data
               /\ n.stack = [l.stack EXCEPT ![l.reg[SP] - 1] = l.reg[Reg(c)]]
               /\ n.reg = [l.reg EXCEPT ![SP] = l.reg[SP] - 1]
  BY <1>1, <1>4, PushRuns
<1>6. Runs(k, PrepareVar(x, Reg(c), c + x) \o Push(Reg(c)), n)
  BY <1>2, <1>5, RunsConcat
<1>7. n.data = m.data /\ n.reg[SP] = m.reg[SP] - x
  BY <1>1, <1>2, <1>4, <1>5 DEF SameMemory, Stored, Machines
<1>8. Keeps(m, n, Temps \cup {SP})
  <2> SUFFICES ASSUME NEW q \in Regs \ (Temps \cup {SP}) PROVE n.reg[q] = m.reg[q]
    BY DEF Keeps
  <2>1. n.reg[q] = l.reg[q]
    BY <1>4, <1>5 DEF Machines
  <2>2. l.reg[q] = k.reg[q]
    BY <1>1, <1>2 DEF Keeps
  <2>3. k.reg[q] = m.reg[q]
    BY DEF Stored, Keeps
  <2> QED BY <2>1, <2>2, <2>3
<1>9. ASSUME NEW a \in Addr
      PROVE  n.stack[a] = IF a \in m.reg[SP] - x .. m.reg[SP] - 1
                          THEN m.data[m.reg[SP] - a] ELSE m.stack[a]
  <2>1. n.stack[a] = IF a = m.reg[SP] - x THEN k.data[x] ELSE k.stack[a]
    BY <1>2, <1>4, <1>5 DEF SameMemory, Machines
  <2>2. k.data = m.data
    BY DEF Stored
  <2>3. k.stack[a] = IF a \in m.reg[SP] - (x - 1) .. m.reg[SP] - 1
                     THEN m.data[m.reg[SP] - a] ELSE m.stack[a]
    BY DEF Stored
  <2>4. PICK s : s = m.reg[SP]
    OBVIOUS
  <2>5. s \in Int /\ a \in Int
    BY <2>4 DEF Addr
  <2>6. a = s - x => s - a = x /\ a \in s - x .. s - 1
    BY <2>5, <1>1 DEF Vars
  <2>7. a # s - x => (a \in s - x .. s - 1 <=> a \in s - (x - 1) .. s - 1)
    BY <2>5, <1>1
  <2> QED BY <2>1, <2>2, <2>3, <2>4, <2>6, <2>7
<1> WITNESS n
<1> QED BY <1>6, <1>7, <1>8, <1>9 DEF Stored

\* "# store_vars" pushes every variable.
LEMMA StoreVarsRuns ==
  ASSUME NEW m \in Machines, NEW c \in Nat,
         m.reg[SP] \in 0 .. StackSize, m.reg[SP] - NumVars >= 0
  PROVE  \E n : Runs(m, StoreVars(NumVars, c), n) /\ Stored(m, n, NumVars)
<1> DEFINE seqs == [x \in 1 .. NumVars |-> PrepareVar(x, Reg(c), c + x) \o Push(Reg(c))]
<1>1. NumVars \in Nat /\ StackSize \in Nat
  BY Constants DEF Assumptions
<1>2. seqs \in [1 .. NumVars -> Seq(Instructions)]
  <2> SUFFICES ASSUME NEW x \in 1 .. NumVars
               PROVE  PrepareVar(x, Reg(c), c + x) \o Push(Reg(c)) \in Seq(Instructions)
    OBVIOUS
  <2>1. /\ x \in Vars /\ Reg(c) \in Regs /\ Reg(c + x) \in Regs /\ SP \in Regs
        /\ -1 \in Int
    BY RegIsTemp, TempsAreRegisters DEF Vars
  <2>2. /\ [i |-> "la", rd |-> Reg(c + x), var |-> x] \in Instructions
        /\ [i |-> "lw", rd |-> Reg(c), rs |-> Reg(c + x)] \in Instructions
        /\ [i |-> "addi", rd |-> SP, rs |-> SP, imm |-> -1] \in Instructions
        /\ [i |-> "sw", rd |-> Reg(c), rs |-> SP] \in Instructions
    BY <2>1 DEF Instructions
  <2>3. PICK a, b, d, e : /\ a = La(Reg(c + x), x) /\ b = Lw(Reg(c), Reg(c + x))
                          /\ d = Addi(SP, SP, -1) /\ e = Sw(Reg(c), SP)
    OBVIOUS
  <2>4. a \in Seq(Instructions) /\ b \in Seq(Instructions)
        /\ d \in Seq(Instructions) /\ e \in Seq(Instructions)
    BY <2>2, <2>3 DEF La, Lw, Addi, Sw
  <2>5. (a \o b) \o (d \o e) \in Seq(Instructions)
    BY <2>4
  <2> QED BY <2>3, <2>5 DEF PrepareVar, Push
<1>3. PICK p : /\ p[0] = << >>
               /\ \A i \in 1 .. NumVars : p[i] = p[i - 1] \o seqs[i]
               /\ p[NumVars] = FlattenSeq(seqs)
  <2> HIDE DEF seqs
  <2> QED BY <1>1, <1>2, FlattenPrefixes
<1> DEFINE Has == {i \in Nat : i <= NumVars => \E k : Runs(m, p[i], k) /\ Stored(m, k, i)}
<1>4. ASSUME NEW i \in Nat, \A j \in Nat : j < i => j \in Has
      PROVE  i \in Has
  <2> SUFFICES ASSUME i <= NumVars
               PROVE  \E k : Runs(m, p[i], k) /\ Stored(m, k, i)
    OBVIOUS
  <2>1. CASE i = 0
    <3>1. Runs(m, p[i], m)
      BY <2>1, <1>3, RunsNone
    <3>2. Stored(m, m, 0)
      BY DEF Stored, Keeps
    <3> QED BY <2>1, <3>1, <3>2
  <2>2. CASE i # 0
    <3>1. i - 1 \in Nat /\ i - 1 < i /\ i - 1 <= NumVars /\ i \in 1 .. NumVars
      BY <2>2, <1>1
    <3>2. PICK k : Runs(m, p[i - 1], k) /\ Stored(m, k, i - 1)
      BY <3>1, <1>4
    <3>3. k \in Machines /\ i \in Vars /\ m.reg[SP] - i >= 0
      BY <3>1, <3>2, <1>1 DEF Runs, Vars
    <3>4. PICK n : Runs(k, seqs[i], n) /\ Stored(m, n, i)
      <4>1. seqs[i] = PrepareVar(i, Reg(c), c + i) \o Push(Reg(c))
        BY <3>1
      <4> HIDE DEF seqs
      <4> QED BY <4>1, <3>2, <3>3, StoreVarRuns
    <3>5. Runs(m, p[i - 1] \o seqs[i], n)
      <4> HIDE DEF seqs
      <4> QED BY <3>2, <3>4, RunsConcat
    <3>6. p[i] = p[i - 1] \o seqs[i]
      <4> HIDE DEF seqs
      <4> QED BY <3>1, <1>3
    <3> HIDE DEF seqs
    <3> QED BY <3>4, <3>5, <3>6
  <2> QED BY <2>1, <2>2
<1>5. NumVars \in Has
  <2> HIDE DEF Has
  <2> QED BY <1>1, <1>4, SetInduction
<1>6. \E k : Runs(m, p[NumVars], k) /\ Stored(m, k, NumVars)
  BY <1>1, <1>5
<1>7. StoreVars(NumVars, c) = FlattenSeq(seqs)
  BY DEF StoreVars
<1> HIDE DEF seqs
<1> QED BY <1>3, <1>6, <1>7

\* The address of a variable is written into the variable when its register is
\* the one that should be stored.
LEMMA ApplyVarAliasRuns ==
  ASSUME NEW m \in Machines, NEW x \in Vars, NEW r \in Regs, NEW c \in Nat, r = Reg(c)
  PROVE  \E n : /\ Runs(m, ApplyVar(x, r, c), n)
                /\ n.data = [m.data EXCEPT ![x] = Label(x)] /\ n.stack = m.stack
                /\ Keeps(m, n, {Reg(c)})
<1>1. PICK l : Runs(m, La(r, x), l) /\ Sets(m, l, r, Label(x))
  BY LaRuns
<1>2. l \in Machines /\ l.reg[r] = Label(x)
  BY <1>1 DEF Runs, Sets, Machines
<1>3. PICK n : /\ Runs(l, Sw(r, r), n)
               /\ n.stack = l.stack /\ n.reg = l.reg
               /\ n.data = [l.data EXCEPT ![x] = l.reg[r]]
  BY <1>2, SwDataRuns
<1>4. Runs(m, ApplyVar(x, r, c), n)
  BY <1>1, <1>3, RunsConcat DEF ApplyVar
<1>5. n.data = [m.data EXCEPT ![x] = Label(x)] /\ n.stack = m.stack
  BY <1>1, <1>2, <1>3 DEF Sets
<1>6. Keeps(m, n, {Reg(c)})
  BY <1>1, <1>2, <1>3 DEF Sets, Machines, Keeps
<1> WITNESS n
<1> QED BY <1>4, <1>5, <1>6

\* The last i variables have been popped from the words at s and above; those
\* whose address took the register have their address instead.
PoppedValue(m, s, x) ==
  IF AddressTakesRegister(x) THEN Label(x) ELSE m.stack[s + NumVars - x]

Popped(m, k, i) ==
  /\ k.stack = m.stack
  /\ k.reg[SP] = m.reg[SP] + i
  /\ \A x \in Vars : k.data[x] = IF x > NumVars - i THEN PoppedValue(m, m.reg[SP], x)
                                 ELSE m.data[x]
  /\ Keeps(m, k, Temps \cup {SP})

\* Which variable is popped into which register.
LEMMA WhoTakesRegister ==
  ASSUME NEW c \in Nat, NEW i \in 1 .. NumVars
  PROVE  Reg(c + i) = Reg(c) <=> AddressTakesRegister(NumVars + 1 - i)
<1>1. NumVars \in Nat
  BY Constants DEF Assumptions
<1>2. NumVars + 1 - (NumVars + 1 - i) = i
  BY <1>1
<1>3. (c + i) % 16 = c % 16 <=> i % 16 = 0
  OBVIOUS
<1>4. AddressTakesRegister(NumVars + 1 - i) <=> i % 16 = 0
  BY <1>2 DEF AddressTakesRegister, TempRegs, FirstTemp, LastTemp
<1>5. (c + i) % 16 \in Int /\ c % 16 \in Int
  OBVIOUS
<1>6. Reg(c + i) = Reg(c) <=> (c + i) % 16 = c % 16
  BY <1>5 DEF Reg, TempRegs, FirstTemp, LastTemp
<1> QED BY <1>3, <1>4, <1>6

\* One variable is popped.
LEMMA LoadVarRuns ==
  ASSUME NEW m \in Machines, NEW c \in Nat, NEW i \in 1 .. NumVars, NEW k \in Machines,
         Popped(m, k, i - 1), m.reg[SP] \in Nat, m.reg[SP] + NumVars <= StackSize
  PROVE  \E n : /\ Runs(k, Pop(Reg(c)) \o ApplyVar(NumVars + 1 - i, Reg(c), c + i), n)
                /\ Popped(m, n, i)
<1> DEFINE x == NumVars + 1 - i
           s == m.reg[SP]
<1>0. NumVars \in Nat /\ StackSize \in Nat /\ i \in Int /\ i >= 1 /\ i <= NumVars
  BY Constants DEF Assumptions
<1>1. /\ c + i \in Nat /\ Reg(c) \in Temps /\ Reg(c + i) \in Temps
      /\ Reg(c) \in Regs /\ SP \in Regs /\ SP \notin Temps /\ Reg(c) # SP
  BY <1>0, RegIsTemp, TempsAreRegisters
<1>2. x \in Vars /\ x \in Int
  BY <1>0 DEF Vars
<1>3. s \in Int /\ k.reg[SP] = s + (i - 1) /\ k.reg[SP] \in Addr
  <2>1. k.reg[SP] = s + (i - 1)
    BY DEF Popped
  <2> QED BY <1>0, <2>1 DEF Addr
<1>4. PICK l : /\ Runs(k, Pop(Reg(c)), l) /\ SameMemory(k, l)
               /\ l.reg[Reg(c)] = k.stack[k.reg[SP]] /\ l.reg[SP] = k.reg[SP] + 1
               /\ Keeps(k, l, {Reg(c), SP})
  BY <1>1, <1>3, PopRuns
<1>5. l \in Machines
  BY <1>4 DEF Runs
<1>6. l.reg[Reg(c)] = m.stack[s + NumVars - x]
  <2>1. k.stack = m.stack
    BY DEF Popped
  <2>2. s + (i - 1) = s + NumVars - x
    BY <1>0, <1>3
  <2> QED BY <1>3, <1>4, <2>1, <2>2
<1>7. PICK n : /\ Runs(l, ApplyVar(x, Reg(c), c + i), n)
               /\ n.data = [l.data EXCEPT ![x] = PoppedValue(m, s, x)]
               /\ n.stack = l.stack /\ Keeps(l, n, {Reg(c + i)})
  <2> HIDE DEF x, s
  <2>1. CASE Reg(c + i) = Reg(c)
    <3>1. AddressTakesRegister(x)
      BY <2>1, WhoTakesRegister DEF x
    <3>2. PICK n : /\ Runs(l, ApplyVar(x, Reg(c), c + i), n)
                   /\ n.data = [l.data EXCEPT ![x] = Label(x)]
                   /\ n.stack = l.stack /\ Keeps(l, n, {Reg(c + i)})
      BY <1>1, <1>2, <1>5, <2>1, ApplyVarAliasRuns
    <3> QED BY <3>1, <3>2 DEF PoppedValue
  <2>2. CASE Reg(c + i) # Reg(c)
    <3>1. ~AddressTakesRegister(x)
      BY <2>2, WhoTakesRegister DEF x
    <3>2. PICK n : /\ Runs(l, ApplyVar(x, Reg(c), c + i), n)
                   /\ n.data = [l.data EXCEPT ![x] = l.reg[Reg(c)]]
                   /\ n.stack = l.stack /\ Keeps(l, n, {Reg(c + i)})
      BY <1>1, <1>2, <1>5, <2>2, ApplyVarRuns
    <3> QED BY <1>6, <3>1, <3>2 DEF PoppedValue
  <2> QED BY <2>1, <2>2
<1>8. Runs(k, Pop(Reg(c)) \o ApplyVar(x, Reg(c), c + i), n)
  <2> HIDE DEF x, s
  <2> QED BY <1>4, <1>7, RunsConcat
<1>9. n.stack = m.stack /\ n.reg[SP] = s + i
  <2>1. n.stack = m.stack
    BY <1>4, <1>7 DEF SameMemory, Popped
  <2>2. n.reg[SP] = k.reg[SP] + 1
    BY <1>1, <1>4, <1>7 DEF Keeps
  <2>3. s + (i - 1) + 1 = s + i
    BY <1>0, <1>3
  <2> HIDE DEF s
  <2> QED BY <1>3, <2>1, <2>2, <2>3
<1>10. Keeps(m, n, Temps \cup {SP})
  <2> SUFFICES ASSUME NEW q \in Regs \ (Temps \cup {SP}) PROVE n.reg[q] = m.reg[q]
    BY DEF Keeps
  <2>1. n.reg[q] = l.reg[q]
    BY <1>1, <1>7 DEF Keeps
  <2>2. l.reg[q] = k.reg[q]
    BY <1>1, <1>4 DEF Keeps
  <2>3. k.reg[q] = m.reg[q]
    BY DEF Popped, Keeps
  <2> QED BY <2>1, <2>2, <2>3
<1>11. ASSUME NEW y \in Vars
       PROVE  n.data[y] = IF y > NumVars - i THEN PoppedValue(m, s, y) ELSE m.data[y]
  <2>1. y \in Int
    BY DEF Vars
  <2>2. l.data = k.data /\ l.data \in [Vars -> Int]
    BY <1>4, <1>5 DEF SameMemory, Machines
  <2>3. k.data[y] = IF y > NumVars - (i - 1) THEN PoppedValue(m, s, y) ELSE m.data[y]
    BY DEF Popped
  <2>4. y > NumVars - i <=> (y = x \/ y > NumVars - (i - 1))
    BY <1>0, <2>1
  <2>5. y = x => ~(y > NumVars - (i - 1))
    BY <1>0, <2>1
  <2> HIDE DEF x, s
  <2>6. n.data[y] = IF y = x THEN PoppedValue(m, s, x) ELSE k.data[y]
    BY <1>7, <2>2
  <2> QED BY <2>3, <2>4, <2>5, <2>6
<1>12. Popped(m, n, i)
  BY <1>9, <1>10, <1>11 DEF Popped
<1> WITNESS n
<1> QED BY <1>8, <1>12

\* "# load_vars" pops every variable.
LEMMA LoadVarsRuns ==
  ASSUME NEW m \in Machines, NEW c \in Nat,
         m.reg[SP] \in Nat, m.reg[SP] + NumVars <= StackSize
  PROVE  \E n : Runs(m, LoadVars(NumVars, c), n) /\ Popped(m, n, NumVars)
<1> DEFINE seqs == [i \in 1 .. NumVars |->
                      Pop(Reg(c)) \o ApplyVar(NumVars + 1 - i, Reg(c), c + i)]
<1>1. NumVars \in Nat /\ StackSize \in Nat
  BY Constants DEF Assumptions
<1>2. seqs \in [1 .. NumVars -> Seq(Instructions)]
  <2> SUFFICES ASSUME NEW i \in 1 .. NumVars
               PROVE  Pop(Reg(c)) \o ApplyVar(NumVars + 1 - i, Reg(c), c + i)
                        \in Seq(Instructions)
    OBVIOUS
  <2>1. /\ NumVars + 1 - i \in Vars /\ c + i \in Nat
        /\ Reg(c) \in Regs /\ Reg(c + i) \in Regs /\ SP \in Regs /\ 1 \in Int
    BY <1>1, RegIsTemp, TempsAreRegisters DEF Vars
  <2>2. /\ [i |-> "la", rd |-> Reg(c + i), var |-> NumVars + 1 - i] \in Instructions
        /\ [i |-> "sw", rd |-> Reg(c), rs |-> Reg(c + i)] \in Instructions
        /\ [i |-> "addi", rd |-> SP, rs |-> SP, imm |-> 1] \in Instructions
        /\ [i |-> "lw", rd |-> Reg(c), rs |-> SP] \in Instructions
    BY <2>1 DEF Instructions
  <2>3. PICK a, b, d, e : /\ a = Lw(Reg(c), SP) /\ b = Addi(SP, SP, 1)
                          /\ d = La(Reg(c + i), NumVars + 1 - i)
                          /\ e = Sw(Reg(c), Reg(c + i))
    OBVIOUS
  <2>4. a \in Seq(Instructions) /\ b \in Seq(Instructions)
        /\ d \in Seq(Instructions) /\ e \in Seq(Instructions)
    BY <2>2, <2>3 DEF La, Lw, Addi, Sw
  <2>5. (a \o b) \o (d \o e) \in Seq(Instructions)
    BY <2>4
  <2> QED BY <2>3, <2>5 DEF ApplyVar, Pop
<1>3. PICK p : /\ p[0] = << >>
               /\ \A i \in 1 .. NumVars : p[i] = p[i - 1] \o seqs[i]
               /\ p[NumVars] = FlattenSeq(seqs)
  <2> HIDE DEF seqs
  <2> QED BY <1>1, <1>2, FlattenPrefixes
<1> DEFINE Has == {i \in Nat : i <= NumVars => \E k : Runs(m, p[i], k) /\ Popped(m, k, i)}
<1>4. ASSUME NEW i \in Nat, \A j \in Nat : j < i => j \in Has
      PROVE  i \in Has
  <2> SUFFICES ASSUME i <= NumVars
               PROVE  \E k : Runs(m, p[i], k) /\ Popped(m, k, i)
    OBVIOUS
  <2>1. CASE i = 0
    <3>1. Runs(m, p[i], m)
      BY <2>1, <1>3, RunsNone
    <3>2. Popped(m, m, 0)
      BY <1>1 DEF Popped, Keeps, Vars, Addr
    <3> QED BY <2>1, <3>1, <3>2
  <2>2. CASE i # 0
    <3>1. i - 1 \in Nat /\ i - 1 < i /\ i - 1 <= NumVars /\ i \in 1 .. NumVars
      BY <2>2, <1>1
    <3>2. PICK k : Runs(m, p[i - 1], k) /\ Popped(m, k, i - 1)
      BY <3>1, <1>4
    <3>3. k \in Machines
      BY <3>2 DEF Runs
    <3>4. PICK n : Runs(k, seqs[i], n) /\ Popped(m, n, i)
      <4>1. seqs[i] = Pop(Reg(c)) \o ApplyVar(NumVars + 1 - i, Reg(c), c + i)
        BY <3>1
      <4> HIDE DEF seqs
      <4> QED BY <4>1, <3>1, <3>2, <3>3, LoadVarRuns
    <3>5. Runs(m, p[i - 1] \o seqs[i], n)
      <4> HIDE DEF seqs
      <4> QED BY <3>2, <3>4, RunsConcat
    <3>6. p[i] = p[i - 1] \o seqs[i]
      <4> HIDE DEF seqs
      <4> QED BY <3>1, <1>3
    <3> HIDE DEF seqs
    <3> QED BY <3>4, <3>5, <3>6
  <2> QED BY <2>1, <2>2
<1>5. NumVars \in Has
  <2> HIDE DEF Has
  <2> QED BY <1>1, <1>4, SetInduction
<1>6. \E k : Runs(m, p[NumVars], k) /\ Popped(m, k, NumVars)
  BY <1>1, <1>5
<1>7. LoadVars(NumVars, c) = FlattenSeq(seqs)
  BY DEF LoadVars
<1> HIDE DEF seqs
<1> QED BY <1>3, <1>6, <1>7

-----------------------------------------------------------------------------
(* The call sequence. *)

\* The stack with the save area of a caller.
SavedStack(m) ==
  [a \in Addr |->
     IF a \in m.reg[SP] - NumVars .. m.reg[SP] - 1 THEN m.data[m.reg[SP] - a]
     ELSE IF a = m.reg[SP] - NumVars - 1 THEN m.reg[RA]
     ELSE IF a = m.reg[SP] - SaveSize THEN m.reg[FP]
     ELSE m.stack[a]]

\* The save area of a caller has been pushed, and fp points to it.
CallPrepared(m, n) ==
  /\ n.data = m.data /\ n.stack = SavedStack(m)
  /\ n.reg[SP] = m.reg[SP] - SaveSize /\ n.reg[FP] = m.reg[SP] - SaveSize
  /\ Keeps(m, n, Temps \cup {SP, FP})

\* prepare_call before the first ARG, or before a CALL without any.
LEMMA PrepareCallRuns ==
  ASSUME NEW m \in Machines, NEW c \in Nat,
         m.reg[SP] \in 0 .. StackSize, m.reg[SP] - SaveSize >= 0
  PROVE  \E n : Runs(m, PrepareCall(NumVars, FALSE, c), n) /\ CallPrepared(m, n)
<1>1. NumVars \in Nat /\ StackSize \in Nat
  BY Constants DEF Assumptions
<1>2. PICK s : s = m.reg[SP]
  OBVIOUS
<1>3. s \in 0 .. StackSize /\ s - NumVars - 2 >= 0 /\ SaveSize = NumVars + 2
  BY <1>1, <1>2 DEF SaveSize
<1>4. /\ {RA, FP, SP} \subseteq Regs \ Temps /\ RA # SP /\ FP # SP /\ FP # RA
  BY TempsAreRegisters
<1>5. PICK j : Runs(m, StoreVars(NumVars, c), j) /\ Stored(m, j, NumVars)
  <2>1. m.reg[SP] - NumVars >= 0
    BY <1>1, <1>2, <1>3
  <2> QED BY <2>1, StoreVarsRuns
<1>6. /\ j \in Machines /\ j.reg[SP] = s - NumVars /\ j.data = m.data
      /\ j.reg[RA] = m.reg[RA] /\ j.reg[FP] = m.reg[FP]
  BY <1>2, <1>4, <1>5 DEF Runs, Stored, Keeps
<1>7. PICK k : /\ Runs(j, Push(RA), k) /\ k.data = j.data
               /\ k.stack = [j.stack EXCEPT ![j.reg[SP] - 1] = j.reg[RA]]
               /\ k.reg = [j.reg EXCEPT ![SP] = j.reg[SP] - 1]
  <2>1. j.reg[SP] - 1 \in Addr
    BY <1>1, <1>3, <1>6 DEF Addr
  <2>2. RA \in Regs /\ RA # SP
    BY <1>4
  <2> QED BY <1>6, <2>1, <2>2, PushRuns
<1>8. /\ k \in Machines /\ k.reg[SP] = s - NumVars - 1 /\ k.reg[FP] = m.reg[FP]
      /\ k.stack = [j.stack EXCEPT ![s - NumVars - 1] = m.reg[RA]]
  <2>1. k \in Machines
    BY <1>7 DEF Runs
  <2>2. k.reg[SP] = s - NumVars - 1 /\ k.reg[FP] = m.reg[FP]
    BY <1>4, <1>6, <1>7 DEF Machines
  <2> QED BY <1>6, <1>7, <2>1, <2>2
<1>9. PICK l : /\ Runs(k, Push(FP), l) /\ l.data = k.data
               /\ l.stack = [k.stack EXCEPT ![k.reg[SP] - 1] = k.reg[FP]]
               /\ l.reg = [k.reg EXCEPT ![SP] = k.reg[SP] - 1]
  <2>1. k.reg[SP] - 1 \in Addr
    BY <1>1, <1>3, <1>8 DEF Addr
  <2>2. FP \in Regs /\ FP # SP
    BY <1>4
  <2> QED BY <1>8, <2>1, <2>2, PushRuns
<1>10. /\ l \in Machines /\ l.reg[SP] = s - SaveSize
       /\ l.stack = [k.stack EXCEPT ![s - SaveSize] = m.reg[FP]]
  <2>1. k.reg[SP] - 1 = s - SaveSize
    BY <1>1, <1>3, <1>8
  <2>2. l \in Machines
    BY <1>9 DEF Runs
  <2>3. l.reg[SP] = s - SaveSize
    BY <1>4, <1>8, <1>9, <2>1 DEF Machines
  <2> QED BY <1>8, <1>9, <2>1, <2>2, <2>3
<1>11. PICK n : Runs(l, Move(FP, SP), n) /\ Sets(l, n, FP, l.reg[SP])
  <2>1. FP \in Regs /\ SP \in Regs
    BY <1>4
  <2> QED BY <1>10, <2>1, MoveRuns
<1>12. Runs(m, PrepareCall(NumVars, FALSE, c), n)
  BY <1>5, <1>7, <1>9, <1>11, RunsConcat DEF PrepareCall
<1>13. n.reg[SP] = s - SaveSize /\ n.reg[FP] = s - SaveSize
  BY <1>4, <1>10, <1>11 DEF Sets, Machines
<1>14. n.stack = SavedStack(m)
  <2>1. n.stack \in [Addr -> Int] /\ j.stack \in [Addr -> Int]
    BY <1>6, <1>11 DEF Runs, Machines
  <2>2. ASSUME NEW a \in Addr PROVE n.stack[a] = SavedStack(m)[a]
    <3>1. n.stack[a] = IF a = s - SaveSize THEN m.reg[FP]
                       ELSE IF a = s - NumVars - 1 THEN m.reg[RA] ELSE j.stack[a]
      BY <1>8, <1>10, <1>11, <2>1 DEF Sets, Machines
    <3>2. j.stack[a] = IF a \in s - NumVars .. s - 1 THEN m.data[s - a] ELSE m.stack[a]
      BY <1>2, <1>5 DEF Stored
    <3>3. /\ a = s - SaveSize => a \notin s - NumVars .. s - 1 /\ a # s - NumVars - 1
          /\ a = s - NumVars - 1 => a \notin s - NumVars .. s - 1
      BY <1>1, <1>3
    <3>4. SavedStack(m)[a] = IF a \in s - NumVars .. s - 1 THEN m.data[s - a]
                             ELSE IF a = s - NumVars - 1 THEN m.reg[RA]
                             ELSE IF a = s - SaveSize THEN m.reg[FP]
                             ELSE m.stack[a]
      BY <1>2 DEF SavedStack
    <3> QED BY <3>1, <3>2, <3>3, <3>4
  <2>3. SavedStack(m) = [a \in Addr |-> SavedStack(m)[a]]
    BY DEF SavedStack
  <2>4. n.stack = [a \in Addr |-> n.stack[a]]
    BY <2>1
  <2> QED BY <2>2, <2>3, <2>4
<1>15. n.data = m.data
  BY <1>6, <1>7, <1>9, <1>11 DEF Sets
<1>16. Keeps(m, n, Temps \cup {SP, FP})
  <2> SUFFICES ASSUME NEW q \in Regs \ (Temps \cup {SP, FP}) PROVE n.reg[q] = m.reg[q]
    BY DEF Keeps
  <2>1. n.reg[q] = l.reg[q]
    BY <1>10, <1>11 DEF Sets, Machines
  <2>2. l.reg[q] = k.reg[q] /\ k.reg[q] = j.reg[q]
    BY <1>6, <1>7, <1>8, <1>9 DEF Machines
  <2>3. j.reg[q] = m.reg[q]
    BY <1>5 DEF Stored, Keeps
  <2> QED BY <2>1, <2>2, <2>3
<1> WITNESS n
<1> QED BY <1>2, <1>12, <1>13, <1>14, <1>15, <1>16 DEF CallPrepared

\* What end_call leaves: the words at fp and above are the caller's.
CallEnded(m, n) ==
  /\ n.stack = m.stack
  /\ n.reg[SP] = m.reg[FP] + SaveSize
  /\ n.reg[FP] = m.stack[m.reg[FP]] /\ n.reg[RA] = m.stack[m.reg[FP] + 1]
  /\ \A x \in Vars : n.data[x] = IF AddressTakesRegister(x) THEN Label(x)
                                 ELSE m.stack[m.reg[FP] + SaveSize - x]
  /\ Keeps(m, n, Temps \cup {SP, FP, RA})

\* end_call brings back what prepare_call has put on the stack.
LEMMA EndCallRuns ==
  ASSUME NEW m \in Machines, NEW c \in Nat,
         m.reg[FP] \in Nat, m.reg[FP] + SaveSize <= StackSize
  PROVE  \E n : Runs(m, EndCall(NumVars, c), n) /\ CallEnded(m, n)
<1>1. NumVars \in Nat /\ StackSize \in Nat /\ SaveSize = NumVars + 2
  BY Constants DEF Assumptions, SaveSize
<1>2. PICK f : f = m.reg[FP]
  OBVIOUS
<1>3. f \in Nat /\ f + NumVars + 2 <= StackSize
  BY <1>1, <1>2
<1>4. /\ RA \in Regs /\ FP \in Regs /\ SP \in Regs
      /\ RA \notin Temps /\ FP \notin Temps /\ SP \notin Temps
      /\ RA # SP /\ FP # SP /\ FP # RA
  BY TempsAreRegisters
<1>5. PICK j : Runs(m, Move(SP, FP), j) /\ Sets(m, j, SP, f)
  BY <1>2, <1>4, MoveRuns
<1>6. j \in Machines /\ j.reg[SP] = f /\ f \in Addr
  BY <1>1, <1>3, <1>4, <1>5 DEF Runs, Sets, Machines, Addr
<1>7. PICK k : /\ Runs(j, Pop(FP), k) /\ SameMemory(j, k)
               /\ k.reg[FP] = j.stack[j.reg[SP]] /\ k.reg[SP] = j.reg[SP] + 1
               /\ Keeps(j, k, {FP, SP})
  BY <1>4, <1>6, PopRuns
<1>8. /\ k \in Machines /\ k.reg[SP] = f + 1 /\ k.reg[FP] = m.stack[f]
      /\ k.stack = m.stack /\ k.data = m.data /\ f + 1 \in Addr
  <2>1. f + 1 \in Addr
    BY <1>1, <1>3 DEF Addr
  <2> QED BY <1>5, <1>6, <1>7, <2>1 DEF Runs, SameMemory, Sets
<1>9. PICK l : /\ Runs(k, Pop(RA), l) /\ SameMemory(k, l)
               /\ l.reg[RA] = k.stack[k.reg[SP]] /\ l.reg[SP] = k.reg[SP] + 1
               /\ Keeps(k, l, {RA, SP})
  BY <1>4, <1>8, PopRuns
<1>10. /\ l \in Machines /\ l.reg[SP] = f + 2 /\ l.reg[FP] = m.stack[f]
       /\ l.reg[RA] = m.stack[f + 1] /\ l.stack = m.stack
  <2>1. l.reg[SP] = f + 1 + 1 /\ f + 1 + 1 = f + 2
    BY <1>3, <1>8, <1>9
  <2>2. l.reg[FP] = k.reg[FP]
    BY <1>4, <1>9 DEF Keeps
  <2> QED BY <1>8, <1>9, <2>1, <2>2 DEF Runs, SameMemory
<1>11. PICK n : Runs(l, LoadVars(NumVars, c), n) /\ Popped(l, n, NumVars)
  <2>1. l.reg[SP] \in Nat /\ l.reg[SP] + NumVars <= StackSize
    BY <1>1, <1>3, <1>10
  <2> QED BY <1>10, <2>1, LoadVarsRuns
<1>12. Runs(m, EndCall(NumVars, c), n)
  BY <1>5, <1>7, <1>9, <1>11, RunsConcat DEF EndCall
<1>13. n.stack = m.stack
  BY <1>10, <1>11 DEF Popped
<1>14. n.reg[SP] = f + SaveSize
  <2>1. n.reg[SP] = f + 2 + NumVars
    BY <1>10, <1>11 DEF Popped
  <2> QED BY <1>1, <1>3, <2>1
<1>15. n.reg[FP] = m.stack[f] /\ n.reg[RA] = m.stack[f + 1]
  BY <1>4, <1>10, <1>11 DEF Popped, Keeps
<1>16. ASSUME NEW x \in Vars
       PROVE  n.data[x] = IF AddressTakesRegister(x) THEN Label(x)
                          ELSE m.stack[f + SaveSize - x]
  <2>1. x \in Int /\ x > NumVars - NumVars
    BY <1>1 DEF Vars
  <2>2. n.data[x] = PoppedValue(l, f + 2, x)
    BY <1>10, <1>11, <2>1 DEF Popped
  <2>3. f + 2 + NumVars - x = f + SaveSize - x
    BY <1>1, <1>3, <2>1
  <2> QED BY <1>10, <2>2, <2>3 DEF PoppedValue
<1>17. Keeps(m, n, Temps \cup {SP, FP, RA})
  <2> SUFFICES ASSUME NEW q \in Regs \ (Temps \cup {SP, FP, RA}) PROVE n.reg[q] = m.reg[q]
    BY DEF Keeps
  <2>1. n.reg[q] = l.reg[q]
    BY <1>11 DEF Popped, Keeps
  <2>2. l.reg[q] = k.reg[q] /\ k.reg[q] = j.reg[q]
    BY <1>7, <1>9 DEF Keeps
  <2>3. j.reg[q] = m.reg[q]
    BY <1>5 DEF Sets, Machines
  <2> QED BY <2>1, <2>2, <2>3
<1> WITNESS n
<1> QED BY <1>2, <1>12, <1>13, <1>14, <1>15, <1>16, <1>17 DEF CallEnded

-----------------------------------------------------------------------------
(* The machine of AsmCode. *)

\* The machine that a code starts on is the one that Calls describes.
LEMMA MachineIsMachine ==
  ASSUME TypeOK
  PROVE  /\ Machine \in Machines
         /\ Machine.data = data /\ Machine.stack = stack
         /\ Machine.reg[SP] = sp /\ Machine.reg[FP] = fp
         /\ Machine.reg[RA] = ra /\ Machine.reg[V0] = v0
         /\ \A op : Value(op, Machine.data, Machine.stack) = Eval(op)
<1>1. sp \in Int /\ fp \in Int /\ ra \in Int /\ v0 \in Int /\ Junk \in Int
  BY JunkAssumption, Constants DEF TypeOK, Assumptions
<1>2. PICK g : g = [r \in 0 .. 31 |-> CASE r = SP -> sp
                                        [] r = FP -> fp
                                        [] r = RA -> ra
                                        [] r = V0 -> v0
                                        [] OTHER  -> Junk]
  OBVIOUS
<1>3. SP = 29 /\ FP = 30 /\ RA = 31 /\ V0 = 2
  BY DEF SP, FP, RA, V0
<1>4. g[SP] = sp /\ g[FP] = fp /\ g[RA] = ra /\ g[V0] = v0
  BY <1>2, <1>3
<1>5. g \in [Regs -> Int]
  <2>1. \A r \in 0 .. 31 : (CASE r = SP -> sp
                             [] r = FP -> fp
                             [] r = RA -> ra
                             [] r = V0 -> v0
                             [] OTHER  -> Junk) \in Int
    BY <1>1
  <2> QED BY <1>2, <2>1 DEF Regs
<1>6. Machine = [data |-> data, stack |-> stack, reg |-> g]
  BY <1>2 DEF Machine
<1>7. Machine \in Machines
  BY <1>5, <1>6 DEF TypeOK, Machines
<1> QED BY <1>4, <1>6, <1>7 DEF Eval

\* Where a sequence leaves the machine.
LEMMA Becomes ==
  ASSUME NEW code, NEW n, Runs(Machine, code, n), BecomeMachine(Run(code))
  PROVE  /\ data' = n.data /\ stack' = n.stack /\ sp' = n.reg[SP] /\ fp' = n.reg[FP]
         /\ ra' = n.reg[RA] /\ v0' = n.reg[V0]
<1>1. Run(code) = n
  BY DEF Run, Runs
<1> QED BY <1>1 DEF BecomeMachine

\* A dereference that is allowed reads the stack.
LEMMA ReadableIsAddress ==
  ASSUME TypeOK, NEW op, Readable(op), op.kind = "Deref"
  PROVE  data[op.var] \in Addr
BY DEF TypeOK, Readable, InBounds

\* An operand takes one or two calls of get_reg.
LEMMA TakenBounds ==
  ASSUME NEW op
  PROVE  Taken(op) \in {1, 2}
BY DEF Taken

-----------------------------------------------------------------------------
(* The codes. *)

\* The instructions of an assignment do what Assign of Calls says.
LEMMA AssignRuns ==
  ASSUME TypeOK, NEW left \in Targets, NEW right \in Operands, NEW c \in Nat,
         AsmAssign(left, right, c)
  PROVE  Assign(left, right)
<1>1. PICK m : m = Machine
  OBVIOUS
<1>2. /\ m \in Machines /\ m.data = data /\ m.stack = stack
      /\ m.reg[SP] = sp /\ m.reg[FP] = fp /\ m.reg[RA] = ra /\ m.reg[V0] = v0
      /\ Value(right, m.data, m.stack) = Eval(right)
  BY <1>1, MachineIsMachine
<1>3. /\ left.kind = "Deref" => m.data[left.var] \in Addr
      /\ right.kind = "Deref" => m.data[right.var] \in Addr
  BY <1>2, ReadableIsAddress DEF AsmAssign
<1>4. PICK d : d = c + 1 + Taken(right)
  OBVIOUS
<1>5. d \in Nat /\ c < d /\ d - c < 4 /\ c < d + 1 /\ d + 1 - c < 5
  <2>1. PICK k : k = Taken(right)
    OBVIOUS
  <2>2. k \in {1, 2}
    BY <2>1, TakenBounds
  <2> QED BY <1>4, <2>1, <2>2
<1>6. Reg(c) # Reg(d) /\ Reg(c) # Reg(d + 1)
  BY <1>5, RegsDiffer DEF TempRegs, FirstTemp, LastTemp
<1>7. Reg(c) \in Temps /\ Reg(c) \in Regs /\ Reg(c + 1) \in Temps /\ Reg(c + 1 + 1) \in Temps
      /\ Reg(d) \in Temps /\ Reg(d + 1) \in Temps /\ c + 1 \in Nat
  BY <1>5, RegIsTemp, TempsAreRegisters
<1>8. PICK k : /\ Runs(m, PrepareOprand(right, Reg(c), c + 1), k) /\ SameMemory(m, k)
               /\ k.reg[Reg(c)] = Value(right, m.data, m.stack)
               /\ Keeps(m, k, {Reg(c), Reg(c + 1), Reg(c + 1 + 1)})
  BY <1>2, <1>3, <1>7, PrepareOprandRuns
<1>9. k \in Machines /\ k.data = data /\ k.stack = stack /\ k.reg[Reg(c)] = Eval(right)
  BY <1>2, <1>8 DEF Runs, SameMemory
<1>10. PICK n : /\ Runs(k, ApplyOprand(left, Reg(c), d), n)
                /\ IF left.kind = "Deref"
                   THEN /\ n.stack = [k.stack EXCEPT ![k.data[left.var]] = k.reg[Reg(c)]]
                        /\ n.data = k.data
                   ELSE /\ n.data = [k.data EXCEPT ![left.var] = k.reg[Reg(c)]]
                        /\ n.stack = k.stack
                /\ Keeps(k, n, {Reg(d), Reg(d + 1)})
  <2>1. left.kind = "Deref" => k.data[left.var] \in Addr
    BY <1>2, <1>3, <1>9
  <2> QED BY <1>5, <1>6, <1>7, <1>9, <2>1, ApplyOprandRuns
<1>11. Runs(m, RewriteAssign(left, right, c), n)
  BY <1>4, <1>8, <1>10, RunsConcat DEF RewriteAssign
<1>12. /\ data' = n.data /\ stack' = n.stack /\ sp' = n.reg[SP] /\ fp' = n.reg[FP]
       /\ ra' = n.reg[RA] /\ v0' = n.reg[V0]
  BY <1>1, <1>11, Becomes DEF AsmAssign
<1>13. ASSUME NEW q \in {SP, FP, RA, V0} PROVE n.reg[q] = m.reg[q]
  <2>1. q \in Regs \ Temps
    BY TempsAreRegisters
  <2> QED BY <1>7, <1>8, <1>10, <2>1 DEF Keeps
<1>14. UNCHANGED <<sp, fp, ra, v0>>
  BY <1>2, <1>12, <1>13
<1>15. IF left.kind = "Deref"
       THEN stack' = [stack EXCEPT ![data[left.var]] = Eval(right)] /\ data' = data
       ELSE data' = [data EXCEPT ![left.var] = Eval(right)] /\ stack' = stack
  BY <1>9, <1>10, <1>12
<1> QED BY <1>14, <1>15 DEF AsmAssign, Assign

\* The instructions of an arithmetic code do what BinOp says.
LEMMA BinOpRuns ==
  ASSUME TypeOK, NEW kind \in ArithKinds, NEW x \in Vars,
         NEW op1 \in Operands, NEW op2 \in Operands, NEW c \in Nat,
         AsmBinOp(kind, x, op1, op2, c)
  PROVE  BinOp(kind, x, op1, op2)
<1>1. PICK m : m = Machine
  OBVIOUS
<1>2. /\ m \in Machines /\ m.data = data /\ m.stack = stack
      /\ m.reg[SP] = sp /\ m.reg[FP] = fp /\ m.reg[RA] = ra /\ m.reg[V0] = v0
      /\ Value(op1, m.data, m.stack) = Eval(op1)
      /\ Value(op2, m.data, m.stack) = Eval(op2)
  BY <1>1, MachineIsMachine
<1>3. /\ op1.kind = "Deref" => m.data[op1.var] \in Addr
      /\ op2.kind = "Deref" => m.data[op2.var] \in Addr
  BY <1>2, ReadableIsAddress DEF AsmBinOp
<1>4. PICK d, e : d = c + 3 + Taken(op1) /\ e = c + 3 + Taken(op1) + Taken(op2)
  OBVIOUS
<1>5. /\ d \in Nat /\ c < d /\ d - c < 6
      /\ e \in Nat /\ c + 2 < e /\ e - c < 8
  <2>1. PICK i, j : i = Taken(op1) /\ j = Taken(op2)
    OBVIOUS
  <2>2. i \in {1, 2} /\ j \in {1, 2}
    BY <2>1, TakenBounds
  <2> QED BY <1>4, <2>1, <2>2
<1>6. /\ Reg(c) # Reg(c + 1) /\ Reg(c) # Reg(d) /\ Reg(c) # Reg(d + 1)
      /\ Reg(c + 2) # Reg(e) /\ Reg(c + 2) # Reg(e + 1)
  <2>1. TempRegs = 16
    BY DEF TempRegs, FirstTemp, LastTemp
  <2>2. c + 1 \in Nat /\ c + 2 \in Nat /\ d + 1 \in Nat /\ e + 1 \in Nat
    BY <1>5
  <2>3. Reg(c) # Reg(c + 1)
    BY <2>1, <2>2, RegsDiffer
  <2>4. Reg(c) # Reg(d)
    BY <1>5, <2>1, RegsDiffer
  <2>5. Reg(c) # Reg(d + 1)
    BY <1>5, <2>1, <2>2, RegsDiffer
  <2>6. Reg(c + 2) # Reg(e)
    BY <1>5, <2>1, <2>2, RegsDiffer
  <2>7. Reg(c + 2) # Reg(e + 1)
    BY <1>5, <2>1, <2>2, RegsDiffer
  <2> QED BY <2>3, <2>4, <2>5, <2>6, <2>7
<1>7. /\ c + 1 \in Nat /\ c + 2 \in Nat /\ c + 3 \in Nat /\ c + 3 + 1 \in Nat
      /\ d + 1 \in Nat /\ e + 1 \in Nat
      /\ {Reg(c), Reg(c + 1), Reg(c + 2), Reg(c + 3), Reg(c + 3 + 1)} \subseteq Temps
      /\ {Reg(d), Reg(d + 1), Reg(e), Reg(e + 1)} \subseteq Temps
      /\ Reg(c) \in Regs /\ Reg(c + 1) \in Regs /\ Reg(c + 2) \in Regs
  <2>1. /\ c + 1 \in Nat /\ c + 2 \in Nat /\ c + 3 \in Nat /\ c + 3 + 1 \in Nat
        /\ d + 1 \in Nat /\ e + 1 \in Nat
    BY <1>5
  <2> QED BY <1>5, <2>1, RegIsTemp, TempsAreRegisters
<1>8. PICK j : /\ Runs(m, PrepareOprand(op1, Reg(c), c + 3), j) /\ SameMemory(m, j)
               /\ j.reg[Reg(c)] = Value(op1, m.data, m.stack)
               /\ Keeps(m, j, {Reg(c), Reg(c + 3), Reg(c + 3 + 1)})
  BY <1>2, <1>3, <1>7, PrepareOprandRuns
<1>9. j \in Machines /\ j.data = m.data /\ j.stack = m.stack
  BY <1>8 DEF Runs, SameMemory
<1>10. PICK k : /\ Runs(j, PrepareOprand(op2, Reg(c + 1), d), k) /\ SameMemory(j, k)
                /\ k.reg[Reg(c + 1)] = Value(op2, j.data, j.stack)
                /\ Keeps(j, k, {Reg(c + 1), Reg(d), Reg(d + 1)})
  BY <1>3, <1>5, <1>7, <1>9, PrepareOprandRuns
<1>11. /\ k \in Machines /\ k.data = data /\ k.stack = stack
       /\ k.reg[Reg(c)] = Eval(op1) /\ k.reg[Reg(c + 1)] = Eval(op2)
  <2>1. k.reg[Reg(c)] = j.reg[Reg(c)]
    BY <1>6, <1>7, <1>10 DEF Keeps
  <2> QED BY <1>2, <1>8, <1>9, <1>10, <2>1 DEF Runs, SameMemory
<1>12. PICK w : w = Arith(kind, Eval(op1), Eval(op2))
  OBVIOUS
<1>13. w \in Int
  BY <1>12, Constants DEF AsmBinOp, Assumptions
<1>14. PICK l : /\ Runs(k, Arith3(kind, Reg(c + 2), Reg(c), Reg(c + 1)), l)
                /\ Sets(k, l, Reg(c + 2), w)
  <2>1. Arith(kind, k.reg[Reg(c)], k.reg[Reg(c + 1)]) = w
    BY <1>11, <1>12
  <2>2. Arith(kind, k.reg[Reg(c)], k.reg[Reg(c + 1)]) \in Int
    BY <1>13, <2>1
  <2>3. \E l : /\ Runs(k, Arith3(kind, Reg(c + 2), Reg(c), Reg(c + 1)), l)
               /\ Sets(k, l, Reg(c + 2), Arith(kind, k.reg[Reg(c)], k.reg[Reg(c + 1)]))
    BY <1>7, <1>11, <2>2, ArithRuns
  <2> QED BY <2>1, <2>3
<1>15. l \in Machines /\ l.data = data /\ l.stack = stack /\ l.reg[Reg(c + 2)] = w
  BY <1>7, <1>11, <1>14 DEF Runs, Sets, Machines
<1>16. PICK n : /\ Runs(l, ApplyOprand(Var(x), Reg(c + 2), e), n)
                /\ n.data = [l.data EXCEPT ![x] = l.reg[Reg(c + 2)]]
                /\ n.stack = l.stack
                /\ Keeps(l, n, {Reg(e + 1)})
  BY <1>5, <1>6, <1>7, <1>15, ApplyResultRuns
<1>17. Runs(m, RewriteArith(kind, x, op1, op2, c), n)
  BY <1>4, <1>8, <1>10, <1>14, <1>16, RunsConcat DEF RewriteArith
<1>18. /\ data' = n.data /\ stack' = n.stack /\ sp' = n.reg[SP] /\ fp' = n.reg[FP]
       /\ ra' = n.reg[RA] /\ v0' = n.reg[V0]
  BY <1>1, <1>17, Becomes DEF AsmBinOp
<1>19. ASSUME NEW q \in {SP, FP, RA, V0} PROVE n.reg[q] = m.reg[q]
  <2>1. q \in Regs \ Temps
    BY TempsAreRegisters
  <2>2. n.reg[q] = l.reg[q] /\ k.reg[q] = j.reg[q] /\ j.reg[q] = m.reg[q]
    BY <1>7, <1>8, <1>10, <1>16, <2>1 DEF Keeps
  <2>3. l.reg[q] = k.reg[q]
    BY <1>7, <1>11, <1>14, <2>1 DEF Sets, Machines
  <2> QED BY <2>2, <2>3
<1>20. UNCHANGED <<sp, fp, ra, v0>>
  BY <1>2, <1>18, <1>19
<1>21. data' = [data EXCEPT ![x] = Arith(kind, Eval(op1), Eval(op2))] /\ stack' = stack
  BY <1>12, <1>15, <1>16, <1>18
<1> QED BY <1>20, <1>21 DEF AsmBinOp, BinOp

\* The instructions of RETURN do what Return says.
LEMMA ReturnRuns ==
  ASSUME TypeOK, NEW op \in Operands, NEW c \in Nat, AsmReturn(op, c)
  PROVE  Return(op)
<1>1. PICK m : m = Machine
  OBVIOUS
<1>2. /\ m \in Machines /\ m.data = data /\ m.stack = stack
      /\ m.reg[SP] = sp /\ m.reg[FP] = fp /\ m.reg[RA] = ra /\ m.reg[V0] = v0
      /\ Value(op, m.data, m.stack) = Eval(op)
  BY <1>1, MachineIsMachine
<1>3. op.kind = "Deref" => m.data[op.var] \in Addr
  BY <1>2, ReadableIsAddress DEF AsmReturn
<1>4. PICK n : /\ Runs(m, PrepareOprand(op, V0, c), n) /\ SameMemory(m, n)
               /\ n.reg[V0] = Value(op, m.data, m.stack)
               /\ Keeps(m, n, {V0, Reg(c), Reg(c + 1)})
  <2>1. V0 \in Regs
    BY TempsAreRegisters
  <2> QED BY <1>2, <1>3, <2>1, PrepareOprandRuns
<1>5. Front(RewriteReturn(op, c)) = PrepareOprand(op, V0, c)
  <2>1. PICK p : p = PrepareOprand(op, V0, c)
    OBVIOUS
  <2> DEFINE jr == [i |-> "jr", rs |-> RA]
             S == Instructions \cup {jr}
  <2>2. p \in Seq(S) /\ <<jr>> \in Seq(S)
    BY <1>4, <2>1 DEF Runs
  <2>3. PICK q : q = p \o <<jr>>
    OBVIOUS
  <2>4. /\ q \in Seq(S) /\ Len(q) = Len(p) + 1 /\ Len(p) \in Nat
        /\ \A k \in 1 .. Len(p) : q[k] = p[k]
    BY <2>2, <2>3
  <2>5. /\ SubSeq(q, 1, Len(p)) \in Seq(S) /\ Len(SubSeq(q, 1, Len(p))) = Len(p)
        /\ \A k \in 1 .. Len(p) : SubSeq(q, 1, Len(p))[k] = q[k]
    <3> HIDE DEF S
    <3> QED BY <2>4, SubSeqProperties
  <2>6. SubSeq(q, 1, Len(p)) = p
    <3> HIDE DEF S
    <3> QED BY <2>2, <2>4, <2>5, SeqEqual
  <2>7. Len(q) - 1 = Len(p)
    BY <2>4
  <2>8. Front(q) = p
    BY <2>6, <2>7 DEF Front
  <2> QED BY <2>1, <2>3, <2>8 DEF RewriteReturn, Jr
<1>6. /\ data' = n.data /\ stack' = n.stack /\ sp' = n.reg[SP] /\ fp' = n.reg[FP]
      /\ ra' = n.reg[RA] /\ v0' = n.reg[V0]
  BY <1>1, <1>4, <1>5, Becomes DEF AsmReturn
<1>7. ASSUME NEW q \in {SP, FP, RA} PROVE n.reg[q] = m.reg[q]
  <2>1. q \in Regs \ Temps /\ q # V0
    BY TempsAreRegisters
  <2>2. Reg(c) \in Temps /\ Reg(c + 1) \in Temps
    BY RegIsTemp
  <2> QED BY <1>4, <2>1, <2>2 DEF Keeps
<1>8. UNCHANGED <<data, stack, sp, fp, ra>> /\ v0' = Eval(op)
  BY <1>2, <1>4, <1>6, <1>7 DEF SameMemory
<1> QED BY <1>8 DEF AsmReturn, Return

\* The instructions of DEC do what Dec says.
LEMMA DecRuns ==
  ASSUME TypeOK, NEW x \in Vars, NEW size \in Nat, NEW c \in Nat, AsmDec(x, size, c)
  PROVE  Dec(x, size)
<1>1. PICK m : m = Machine
  OBVIOUS
<1>2. /\ m \in Machines /\ m.data = data /\ m.stack = stack
      /\ m.reg[SP] = sp /\ m.reg[FP] = fp /\ m.reg[RA] = ra /\ m.reg[V0] = v0
  BY <1>1, MachineIsMachine
<1>3. /\ Reg(c) \in Temps /\ Reg(c) \in Regs /\ Reg(c + 1 + 1) \in Temps /\ c + 1 \in Nat
      /\ SP \in Regs /\ SP \notin Temps /\ Reg(c) # SP /\ Reg(c + 1 + 1) # SP
  BY RegIsTemp, TempsAreRegisters
<1>4. PICK k : Runs(m, Li(Reg(c), size), k) /\ Sets(m, k, Reg(c), size)
  BY <1>2, <1>3, LiRuns
<1>5. /\ k \in Machines /\ k.data = data /\ k.stack = stack
      /\ k.reg[Reg(c)] = size /\ k.reg[SP] = sp
  BY <1>2, <1>3, <1>4 DEF Runs, Sets, Machines
<1>6. Arith("Sub", k.reg[SP], k.reg[Reg(c)]) = sp - size /\ sp - size \in Int
  BY <1>5 DEF Arith, TypeOK
<1>7. PICK l : /\ Runs(k, Arith3("Sub", SP, SP, Reg(c)), l)
               /\ Sets(k, l, SP, Arith("Sub", k.reg[SP], k.reg[Reg(c)]))
  <2>1. "Sub" \in ArithKinds
    BY DEF ArithKinds
  <2>2. Arith("Sub", k.reg[SP], k.reg[Reg(c)]) \in Int
    BY <1>6
  <2> QED BY <1>3, <1>5, <2>1, <2>2, ArithRuns
<1>8. l \in Machines /\ l.data = data /\ l.stack = stack /\ l.reg[SP] = sp - size
  BY <1>3, <1>5, <1>6, <1>7 DEF Runs, Sets, Machines
<1>9. PICK n : /\ Runs(l, ApplyOprand(Var(x), SP, c + 1), n)
               /\ n.data = [l.data EXCEPT ![x] = l.reg[SP]] /\ n.stack = l.stack
               /\ Keeps(l, n, {Reg(c + 1 + 1)})
  BY <1>3, <1>8, ApplyResultRuns
<1>10. Runs(m, RewriteDec(x, size, c), n)
  BY <1>4, <1>7, <1>9, RunsConcat DEF RewriteDec
<1>11. /\ data' = n.data /\ stack' = n.stack /\ sp' = n.reg[SP] /\ fp' = n.reg[FP]
       /\ ra' = n.reg[RA] /\ v0' = n.reg[V0]
  BY <1>1, <1>10, Becomes DEF AsmDec
<1>12. n.reg[SP] = sp - size
  BY <1>3, <1>8, <1>9 DEF Keeps
<1>13. ASSUME NEW q \in {FP, RA, V0} PROVE n.reg[q] = m.reg[q]
  <2>1. q \in Regs \ Temps /\ q # SP
    BY TempsAreRegisters
  <2>2. n.reg[q] = l.reg[q]
    BY <1>3, <1>9, <2>1 DEF Keeps
  <2>3. l.reg[q] = k.reg[q] /\ k.reg[q] = m.reg[q]
    BY <1>2, <1>3, <1>4, <1>5, <1>7, <2>1 DEF Sets, Machines
  <2> QED BY <2>2, <2>3
<1>14. /\ sp' = sp - size /\ data' = [data EXCEPT ![x] = sp - size]
       /\ UNCHANGED <<stack, fp, ra, v0>>
  BY <1>2, <1>8, <1>9, <1>11, <1>12, <1>13
<1> QED BY <1>14 DEF AsmDec, Dec

\* The instructions of PARAM do what Param says.
LEMMA ParamRuns ==
  ASSUME TypeOK, NEW x \in Vars, NEW c \in Nat, sp \in Addr, AsmParam(x, c)
  PROVE  Param(x)
<1>1. PICK m : m = Machine
  OBVIOUS
<1>2. /\ m \in Machines /\ m.data = data /\ m.stack = stack
      /\ m.reg[SP] = sp /\ m.reg[FP] = fp /\ m.reg[RA] = ra /\ m.reg[V0] = v0
  BY <1>1, MachineIsMachine
<1>3. /\ Reg(c) \in Temps /\ Reg(c) \in Regs /\ Reg(c + 1 + 1) \in Temps /\ c + 1 \in Nat
      /\ SP \in Regs /\ SP \notin Temps /\ Reg(c) # SP
  BY RegIsTemp, TempsAreRegisters
<1>4. Reg(c) # Reg(c + 1 + 1)
  <2>1. c + 1 + 1 \in Nat /\ c < c + 1 + 1 /\ c + 1 + 1 - c < 16
    OBVIOUS
  <2> QED BY <2>1, RegsDiffer DEF TempRegs, FirstTemp, LastTemp
<1>5. PICK k : /\ Runs(m, Pop(Reg(c)), k) /\ SameMemory(m, k)
               /\ k.reg[Reg(c)] = m.stack[m.reg[SP]] /\ k.reg[SP] = m.reg[SP] + 1
               /\ Keeps(m, k, {Reg(c), SP})
  BY <1>2, <1>3, PopRuns
<1>6. /\ k \in Machines /\ k.data = data /\ k.stack = stack
      /\ k.reg[Reg(c)] = stack[sp] /\ k.reg[SP] = sp + 1
  BY <1>2, <1>5 DEF Runs, SameMemory
<1>7. PICK n : /\ Runs(k, ApplyOprand(Var(x), Reg(c), c + 1), n)
               /\ n.data = [k.data EXCEPT ![x] = k.reg[Reg(c)]] /\ n.stack = k.stack
               /\ Keeps(k, n, {Reg(c + 1 + 1)})
  BY <1>3, <1>4, <1>6, ApplyResultRuns
<1>8. Runs(m, RewriteParam(x, c), n)
  BY <1>5, <1>7, RunsConcat DEF RewriteParam
<1>9. /\ data' = n.data /\ stack' = n.stack /\ sp' = n.reg[SP] /\ fp' = n.reg[FP]
      /\ ra' = n.reg[RA] /\ v0' = n.reg[V0]
  BY <1>1, <1>8, Becomes DEF AsmParam
<1>10. n.reg[SP] = sp + 1
  BY <1>3, <1>6, <1>7 DEF Keeps
<1>11. ASSUME NEW q \in {FP, RA, V0} PROVE n.reg[q] = m.reg[q]
  <2>1. q \in Regs \ Temps /\ q # SP
    BY TempsAreRegisters
  <2> QED BY <1>3, <1>5, <1>7, <2>1 DEF Keeps
<1>12. /\ sp' = sp + 1 /\ data' = [data EXCEPT ![x] = stack[sp]]
       /\ UNCHANGED <<stack, fp, ra, v0>>
  BY <1>2, <1>6, <1>7, <1>9, <1>10, <1>11
<1> QED BY <1>12 DEF AsmParam, Param

\* The library routines change ra, a0 and v0.
LEMMA RoutineRuns ==
  ASSUME NEW m \in Machines, NEW w \in Int
  PROVE  \E n : /\ Runs(m, CallRoutine(w), n) /\ SameMemory(m, n)
                /\ n.reg[V0] = w /\ Keeps(m, n, {RA, A0, V0})
<1>1. /\ {RA, A0, V0} \subseteq Regs /\ V0 # A0 /\ RA # V0
      /\ Here \in Int /\ Junk \in Int
  BY TempsAreRegisters, JunkAssumption DEF Here
<1>2. PICK k : Runs(m, Li(RA, Here), k) /\ Sets(m, k, RA, Here)
  BY <1>1, LiRuns
<1>3. k \in Machines
  BY <1>2 DEF Runs
<1>4. PICK l : Runs(k, Li(A0, Junk), l) /\ Sets(k, l, A0, Junk)
  BY <1>1, <1>3, LiRuns
<1>5. l \in Machines
  BY <1>4 DEF Runs
<1>6. PICK n : Runs(l, Li(V0, w), n) /\ Sets(l, n, V0, w)
  BY <1>1, <1>5, LiRuns
<1>7. Runs(m, CallRoutine(w), n)
  BY <1>2, <1>4, <1>6, RunsConcat DEF CallRoutine
<1>8. SameMemory(m, n) /\ n.reg[V0] = w /\ Keeps(m, n, {RA, A0, V0})
  BY <1>1, <1>2, <1>3, <1>4, <1>5, <1>6 DEF Sets, SameMemory, Keeps, Machines
<1> WITNESS n
<1> QED BY <1>7, <1>8

\* A library routine is called with ra saved.
LEMMA GuardedRoutineRuns ==
  ASSUME NEW m \in Machines, NEW w \in Int, m.reg[SP] - 1 \in Addr
  PROVE  \E n : /\ Runs(m, Push(RA) \o CallRoutine(w) \o Pop(RA), n)
                /\ n.data = m.data
                /\ n.stack = [m.stack EXCEPT ![m.reg[SP] - 1] = m.reg[RA]]
                /\ n.reg[V0] = w /\ Keeps(m, n, {A0, V0})
<1>1. /\ {RA, SP, A0, V0} \subseteq Regs /\ RA # SP /\ A0 # SP /\ V0 # SP
      /\ RA # A0 /\ RA # V0
  BY TempsAreRegisters
<1>2. PICK s : s = m.reg[SP]
  OBVIOUS
<1>3. s \in Int /\ s - 1 \in Addr
  BY <1>1, <1>2 DEF Machines
<1>4. PICK k : /\ Runs(m, Push(RA), k) /\ k.data = m.data
               /\ k.stack = [m.stack EXCEPT ![m.reg[SP] - 1] = m.reg[RA]]
               /\ k.reg = [m.reg EXCEPT ![SP] = m.reg[SP] - 1]
  BY <1>1, PushRuns
<1>5. /\ k \in Machines /\ k.reg[SP] = s - 1 /\ k.stack[s - 1] = m.reg[RA]
      /\ Keeps(m, k, {SP})
  <2>1. k \in Machines
    BY <1>4 DEF Runs
  <2>2. k.reg[SP] = s - 1 /\ Keeps(m, k, {SP})
    BY <1>1, <1>2, <1>4 DEF Machines, Keeps
  <2>3. k.stack[s - 1] = m.reg[RA]
    BY <1>2, <1>3, <1>4 DEF Machines
  <2> QED BY <2>1, <2>2, <2>3
<1>6. PICK l : /\ Runs(k, CallRoutine(w), l) /\ SameMemory(k, l)
               /\ l.reg[V0] = w /\ Keeps(k, l, {RA, A0, V0})
  BY <1>5, RoutineRuns
<1>7. l \in Machines /\ l.reg[SP] = s - 1 /\ l.stack = k.stack
  BY <1>1, <1>5, <1>6 DEF Runs, Keeps, SameMemory
<1>8. PICK n : /\ Runs(l, Pop(RA), n) /\ SameMemory(l, n)
               /\ n.reg[RA] = l.stack[l.reg[SP]] /\ n.reg[SP] = l.reg[SP] + 1
               /\ Keeps(l, n, {RA, SP})
  <2>1. RA \in Regs /\ RA # SP /\ l.reg[SP] \in Addr
    BY <1>1, <1>3, <1>7
  <2> QED BY <1>7, <2>1, PopRuns
<1>9. Runs(m, Push(RA) \o CallRoutine(w) \o Pop(RA), n)
  BY <1>4, <1>6, <1>8, RunsConcat
<1>10. n.data = m.data /\ n.stack = [m.stack EXCEPT ![m.reg[SP] - 1] = m.reg[RA]]
  BY <1>4, <1>6, <1>8 DEF SameMemory
<1>11. n.reg[RA] = m.reg[RA] /\ n.reg[SP] = m.reg[SP] /\ n.reg[V0] = w
  <2>1. n.reg[RA] = m.reg[RA]
    BY <1>5, <1>7, <1>8
  <2>2. n.reg[SP] = m.reg[SP]
    BY <1>2, <1>3, <1>7, <1>8
  <2>3. n.reg[V0] = w
    BY <1>1, <1>6, <1>8 DEF Keeps
  <2> QED BY <2>1, <2>2, <2>3
<1>12. Keeps(m, n, {A0, V0})
  <2> SUFFICES ASSUME NEW q \in Regs \ {A0, V0, RA, SP} PROVE n.reg[q] = m.reg[q]
    BY <1>11 DEF Keeps
  <2> QED BY <1>5, <1>6, <1>8 DEF Keeps
<1> WITNESS n
<1> QED BY <1>9, <1>10, <1>11, <1>12

\* The instructions of READ do what Read says.
LEMMA ReadRuns ==
  ASSUME TypeOK, NEW x \in Vars, NEW i \in Inputs, NEW c \in Nat, AsmRead(x, i, c)
  PROVE  Read(x, i)
<1>1. PICK m : m = Machine
  OBVIOUS
<1>2. /\ m \in Machines /\ m.data = data /\ m.stack = stack
      /\ m.reg[SP] = sp /\ m.reg[FP] = fp /\ m.reg[RA] = ra /\ m.reg[V0] = v0
  BY <1>1, MachineIsMachine
<1>3. /\ V0 \in Regs /\ Reg(c + 1) \in Temps /\ V0 # Reg(c + 1) /\ i \in Int
  BY RegIsTemp, TempsAreRegisters, Constants DEF Assumptions
<1>4. m.reg[SP] - 1 \in Addr
  BY <1>2, Constants DEF AsmRead, TypeOK, Addr, Assumptions
<1>5. PICK k : /\ Runs(m, Push(RA) \o CallRoutine(i) \o Pop(RA), k)
               /\ k.data = m.data
               /\ k.stack = [m.stack EXCEPT ![m.reg[SP] - 1] = m.reg[RA]]
               /\ k.reg[V0] = i /\ Keeps(m, k, {A0, V0})
  BY <1>2, <1>3, <1>4, GuardedRoutineRuns
<1>6. k \in Machines
  BY <1>5 DEF Runs
<1>7. PICK n : /\ Runs(k, ApplyOprand(Var(x), V0, c), n)
               /\ n.data = [k.data EXCEPT ![x] = k.reg[V0]] /\ n.stack = k.stack
               /\ Keeps(k, n, {Reg(c + 1)})
  BY <1>3, <1>6, ApplyResultRuns
<1>8. Runs(m, RewriteRead(x, CallRoutine(i), c), n)
  BY <1>5, <1>7, RunsConcat DEF RewriteRead
<1>9. /\ data' = n.data /\ stack' = n.stack /\ sp' = n.reg[SP] /\ fp' = n.reg[FP]
      /\ ra' = n.reg[RA] /\ v0' = n.reg[V0]
  BY <1>1, <1>8, Becomes DEF AsmRead
<1>10. ASSUME NEW q \in {SP, FP, RA} PROVE n.reg[q] = m.reg[q]
  <2>1. q \in Regs \ Temps /\ q \notin {A0, V0}
    BY TempsAreRegisters
  <2> QED BY <1>3, <1>5, <1>7, <2>1 DEF Keeps
<1>11. n.reg[V0] = i
  BY <1>3, <1>5, <1>7 DEF Keeps
<1>12. /\ stack' = [stack EXCEPT ![sp - 1] = ra] /\ v0' = i
       /\ data' = [data EXCEPT ![x] = i] /\ UNCHANGED <<sp, fp, ra>>
  BY <1>2, <1>5, <1>7, <1>9, <1>10, <1>11
<1> QED BY <1>12 DEF AsmRead, Read

\* The instructions of WRITE do what Write says.
LEMMA WriteRuns ==
  ASSUME TypeOK, NEW op \in Operands, NEW c \in Nat, AsmWrite(op, c)
  PROVE  Write(op)
<1>1. PICK m : m = Machine
  OBVIOUS
<1>2. /\ m \in Machines /\ m.data = data /\ m.stack = stack
      /\ m.reg[SP] = sp /\ m.reg[FP] = fp /\ m.reg[RA] = ra /\ m.reg[V0] = v0
  BY <1>1, MachineIsMachine
<1>3. /\ A0 \in Regs /\ Reg(c) \in Regs /\ c + 1 \in Nat /\ A0 \notin Temps
      /\ {Reg(c), Reg(c + 1), Reg(c + 1 + 1)} \subseteq Temps
  BY RegIsTemp, TempsAreRegisters
<1>4. /\ m.reg[SP] - 1 \in Addr
      /\ op.kind = "Deref" => m.data[op.var] \in Addr
  <2>1. m.reg[SP] - 1 \in Addr
    BY <1>2, Constants DEF AsmWrite, TypeOK, Addr, Assumptions
  <2>2. op.kind = "Deref" => m.data[op.var] \in Addr
    BY <1>2, ReadableIsAddress DEF AsmWrite
  <2> QED BY <2>1, <2>2
<1>5. PICK j : /\ Runs(m, PrepareOprand(op, Reg(c), c + 1), j) /\ SameMemory(m, j)
               /\ j.reg[Reg(c)] = Value(op, m.data, m.stack)
               /\ Keeps(m, j, {Reg(c), Reg(c + 1), Reg(c + 1 + 1)})
  BY <1>2, <1>3, <1>4, PrepareOprandRuns
<1>6. j \in Machines
  BY <1>5 DEF Runs
<1>7. PICK k : Runs(j, Move(A0, Reg(c)), k) /\ Sets(j, k, A0, j.reg[Reg(c)])
  BY <1>3, <1>6, MoveRuns
<1>8. k \in Machines /\ Keeps(m, k, Temps \cup {A0}) /\ SameMemory(m, k)
  <2>1. k \in Machines
    BY <1>7 DEF Runs
  <2>2. Keeps(m, k, Temps \cup {A0})
    <3> SUFFICES ASSUME NEW q \in Regs \ (Temps \cup {A0}) PROVE k.reg[q] = m.reg[q]
      BY DEF Keeps
    <3>1. k.reg[q] = j.reg[q]
      BY <1>3, <1>6, <1>7 DEF Sets, Machines
    <3>2. j.reg[q] = m.reg[q]
      BY <1>3, <1>5 DEF Keeps
    <3> QED BY <3>1, <3>2
  <2> QED BY <1>5, <1>7, <2>1, <2>2 DEF SameMemory, Sets
<1>9. k.reg[SP] = m.reg[SP] /\ k.reg[RA] = m.reg[RA]
  BY <1>8, TempsAreRegisters DEF Keeps
<1>10. PICK n : /\ Runs(k, Push(RA) \o CallRoutine(0) \o Pop(RA), n)
                /\ n.data = k.data
                /\ n.stack = [k.stack EXCEPT ![k.reg[SP] - 1] = k.reg[RA]]
                /\ n.reg[V0] = 0 /\ Keeps(k, n, {A0, V0})
  <2>1. k.reg[SP] - 1 \in Addr /\ 0 \in Int
    BY <1>4, <1>9
  <2> QED BY <1>8, <2>1, GuardedRoutineRuns
<1>11. Runs(m, RewriteWrite(op, CallRoutine(0), c), n)
  <2>1. PICK p, q, r, s : /\ p = PrepareOprand(op, Reg(c), c + 1) \o Move(A0, Reg(c))
                          /\ q = Push(RA) /\ r = CallRoutine(0) /\ s = Pop(RA)
    OBVIOUS
  <2>2. Runs(m, p \o ((q \o r) \o s), n)
    <3>1. Runs(m, p, k)
      BY <1>5, <1>7, <2>1, RunsConcat
    <3>2. Runs(k, (q \o r) \o s, n)
      BY <1>10, <2>1
    <3> QED BY <3>1, <3>2, RunsConcat
  <2>3. /\ p \in Seq(Instructions) /\ q \in Seq(Instructions)
        /\ r \in Seq(Instructions) /\ s \in Seq(Instructions)
    <3>1. p \in Seq(Instructions)
      <4>1. Runs(m, p, k)
        BY <1>5, <1>7, <2>1, RunsConcat
      <4> QED BY <4>1 DEF Runs
    <3>2. q \in Seq(Instructions)
      <4>1. RA \in Regs /\ RA # SP /\ k.reg[SP] - 1 \in Addr
        BY <1>4, <1>9, TempsAreRegisters
      <4> QED BY <1>8, <2>1, <4>1, PushRuns DEF Runs
    <3>3. r \in Seq(Instructions)
      <4>1. 0 \in Int
        OBVIOUS
      <4> QED BY <1>8, <2>1, <4>1, RoutineRuns DEF Runs
    <3>4. s \in Seq(Instructions)
      <4>1. RA \in Regs /\ SP \in Regs /\ 1 \in Int
        BY TempsAreRegisters
      <4>2. /\ [i |-> "addi", rd |-> SP, rs |-> SP, imm |-> 1] \in Instructions
            /\ [i |-> "lw", rd |-> RA, rs |-> SP] \in Instructions
        BY <4>1 DEF Instructions
      <4>3. Lw(RA, SP) \in Seq(Instructions) /\ Addi(SP, SP, 1) \in Seq(Instructions)
        BY <4>2 DEF Lw, Addi
      <4> QED BY <2>1, <4>3 DEF Pop
    <3> QED BY <3>1, <3>2, <3>3, <3>4
  <2>4. p \o ((q \o r) \o s) = ((p \o q) \o r) \o s
    <3>1. q \o r \in Seq(Instructions) /\ p \o q \in Seq(Instructions)
      BY <2>3
    <3>2. (p \o (q \o r)) \o s = p \o ((q \o r) \o s)
      <4>1. PICK u : u = q \o r
        OBVIOUS
      <4>2. /\ p \in Seq(Instructions) /\ u \in Seq(Instructions)
            /\ s \in Seq(Instructions)
        BY <2>3, <3>1, <4>1
      <4>3. (p \o u) \o s = p \o (u \o s)
        BY <4>2, ConcatAssociative
      <4> QED BY <4>1, <4>3
    <3>3. (p \o q) \o r = p \o (q \o r)
      BY <2>3, ConcatAssociative
    <3> QED BY <3>2, <3>3
  <2> QED BY <2>1, <2>2, <2>4 DEF RewriteWrite
<1>12. /\ data' = n.data /\ stack' = n.stack /\ sp' = n.reg[SP] /\ fp' = n.reg[FP]
       /\ ra' = n.reg[RA] /\ v0' = n.reg[V0]
  BY <1>1, <1>11, Becomes DEF AsmWrite
<1>13. ASSUME NEW q \in {SP, FP, RA} PROVE n.reg[q] = m.reg[q]
  <2>1. q \in Regs \ Temps /\ q \notin {A0, V0}
    BY TempsAreRegisters
  <2> QED BY <1>8, <1>10, <2>1 DEF Keeps
<1>14. /\ stack' = [stack EXCEPT ![sp - 1] = ra] /\ v0' = 0
       /\ UNCHANGED <<data, sp, fp, ra>>
  BY <1>2, <1>8, <1>9, <1>10, <1>12, <1>13 DEF SameMemory
<1> QED BY <1>14 DEF AsmWrite, Write

\* prepare_call, when it is called for the first time or again.
LEMMA PreparingRuns ==
  ASSUME TypeOK, NEW c \in Nat, CallSp >= 0
  PROVE  \E n : /\ Runs(Machine, PrepareCall(NumVars, ctl = "incall", c), n)
                /\ n.data = data /\ n.stack = CallStack
                /\ n.reg[SP] = CallSp /\ n.reg[FP] = CallFp
                /\ n.reg[RA] = ra /\ n.reg[V0] = v0
<1>1. PICK m : m = Machine
  OBVIOUS
<1>2. /\ m \in Machines /\ m.data = data /\ m.stack = stack
      /\ m.reg[SP] = sp /\ m.reg[FP] = fp /\ m.reg[RA] = ra /\ m.reg[V0] = v0
  BY <1>1, MachineIsMachine
<1>3. CASE ctl = "incall"
  <2>1. Runs(m, PrepareCall(NumVars, ctl = "incall", c), m)
    BY <1>2, <1>3, RunsNone DEF PrepareCall
  <2> QED BY <1>1, <1>2, <1>3, <2>1 DEF CallStack, CallSp, CallFp
<1>4. CASE ctl # "incall"
  <2>1. sp - SaveSize >= 0 /\ sp \in 0 .. StackSize
    BY <1>4 DEF CallSp, TypeOK
  <2>2. PICK n : Runs(m, PrepareCall(NumVars, FALSE, c), n) /\ CallPrepared(m, n)
    <3>1. m.reg[SP] \in 0 .. StackSize /\ m.reg[SP] - SaveSize >= 0
      BY <1>2, <2>1
    <3> QED BY <1>2, <3>1, PrepareCallRuns
  <2>3. PrepareCall(NumVars, ctl = "incall", c) = PrepareCall(NumVars, FALSE, c)
    BY <1>4 DEF PrepareCall
  <2>4. SavedStack(m) = Prepared
    BY <1>2 DEF SavedStack, Prepared
  <2>5. n.reg[RA] = m.reg[RA] /\ n.reg[V0] = m.reg[V0]
    BY <2>2, TempsAreRegisters DEF CallPrepared, Keeps
  <2>6. /\ n.data = data /\ n.stack = CallStack
        /\ n.reg[SP] = CallSp /\ n.reg[FP] = CallFp
    BY <1>2, <1>4, <2>2, <2>4 DEF CallPrepared, CallStack, CallSp, CallFp
  <2> QED BY <1>1, <1>2, <2>2, <2>3, <2>5, <2>6
<1> QED BY <1>3, <1>4

\* The instructions of ARG, with those of prepare_call, do what Arg says.
LEMMA ArgRuns ==
  ASSUME TypeOK, NEW op \in Operands, NEW c \in Nat, AsmArg(op, c)
  PROVE  Arg(op)
<1>1. PICK d : d = IF ctl = "incall" THEN c ELSE c + LoopTakes(NumVars)
  OBVIOUS
<1>2. d \in Nat /\ d + 1 \in Nat /\ StackSize \in Nat
  BY <1>1, Constants DEF LoopTakes, Assumptions
<1>3. /\ CallSp >= 1 /\ CallSp \in Int /\ CallSp <= StackSize
  BY Constants DEF AsmArg, CallSp, TypeOK, SaveSize, Assumptions
<1>4. PICK k : /\ Runs(Machine, PrepareCall(NumVars, ctl = "incall", c), k)
               /\ k.data = data /\ k.stack = CallStack
               /\ k.reg[SP] = CallSp /\ k.reg[FP] = CallFp
               /\ k.reg[RA] = ra /\ k.reg[V0] = v0
  <2>1. CallSp >= 0
    BY <1>3
  <2> QED BY <2>1, PreparingRuns
<1>5. k \in Machines
  BY <1>4 DEF Runs
<1>6. /\ Reg(d) \in Regs /\ Reg(d) # SP
      /\ {Reg(d), Reg(d + 1), Reg(d + 1 + 1)} \subseteq Temps
  BY <1>2, RegIsTemp, TempsAreRegisters
<1>7. PICK l : /\ Runs(k, PrepareOprand(op, Reg(d), d + 1), l) /\ SameMemory(k, l)
               /\ l.reg[Reg(d)] = Value(op, k.data, k.stack)
               /\ Keeps(k, l, {Reg(d), Reg(d + 1), Reg(d + 1 + 1)})
  <2>1. op.kind = "Deref" => k.data[op.var] \in Addr
    BY <1>4, ReadableIsAddress DEF AsmArg
  <2> QED BY <1>2, <1>5, <1>6, <2>1, PrepareOprandRuns
<1>8. /\ l \in Machines /\ l.data = data /\ l.stack = CallStack
      /\ l.reg[Reg(d)] = Value(op, data, CallStack)
  BY <1>4, <1>7 DEF Runs, SameMemory
<1>9. ASSUME NEW q \in {SP, FP, RA, V0} PROVE l.reg[q] = k.reg[q]
  <2>1. q \in Regs \ Temps
    BY TempsAreRegisters
  <2> QED BY <1>6, <1>7, <2>1 DEF Keeps
<1>10. l.reg[SP] = CallSp /\ CallSp - 1 \in Addr
  <2>1. l.reg[SP] = CallSp
    BY <1>4, <1>9
  <2>2. CallSp - 1 \in Addr
    BY <1>2, <1>3 DEF Addr
  <2> QED BY <2>1, <2>2
<1>11. PICK n : /\ Runs(l, Push(Reg(d)), n)
                /\ n.data = l.data
                /\ n.stack = [l.stack EXCEPT ![l.reg[SP] - 1] = l.reg[Reg(d)]]
                /\ n.reg = [l.reg EXCEPT ![SP] = l.reg[SP] - 1]
  <2>1. l.reg[SP] - 1 \in Addr
    BY <1>10
  <2> QED BY <1>6, <1>8, <2>1, PushRuns
<1>12. Runs(Machine, RewriteArg(NumVars, ctl = "incall", op, c), n)
  <2>1. PICK m, p : m = Machine /\ p = PrepareCall(NumVars, ctl = "incall", c)
    OBVIOUS
  <2>2. Runs(m, p, k)
    BY <1>4, <2>1
  <2>3. Runs(m, p \o PrepareOprand(op, Reg(d), d + 1) \o Push(Reg(d)), n)
    BY <1>7, <1>11, <2>2, RunsConcat
  <2> QED BY <1>1, <2>1, <2>3 DEF RewriteArg
<1>13. /\ data' = n.data /\ stack' = n.stack /\ sp' = n.reg[SP] /\ fp' = n.reg[FP]
       /\ ra' = n.reg[RA] /\ v0' = n.reg[V0]
  <2>1. PICK code : code = RewriteArg(NumVars, ctl = "incall", op, c)
    OBVIOUS
  <2> QED BY <1>12, <2>1, Becomes DEF AsmArg
<1>14. ASSUME NEW q \in {FP, RA, V0} PROVE n.reg[q] = k.reg[q]
  <2>1. q \in Regs /\ q # SP
    BY TempsAreRegisters
  <2> QED BY <1>8, <1>9, <1>11, <2>1 DEF Machines
<1>15. n.reg[SP] = CallSp - 1
  <2>1. SP \in Regs
    BY TempsAreRegisters
  <2> QED BY <1>8, <1>10, <1>11, <2>1 DEF Machines
<1>16. /\ stack' = [CallStack EXCEPT ![CallSp - 1] = Value(op, data, CallStack)]
       /\ sp' = CallSp - 1 /\ fp' = CallFp
       /\ UNCHANGED <<data, ra, v0>>
  BY <1>4, <1>8, <1>10, <1>11, <1>13, <1>14, <1>15
<1>17. stack'[sp'] = Value(op, data, CallStack)
  <2>1. l.stack \in [Addr -> Int]
    BY <1>8 DEF Machines
  <2>2. CallStack \in [Addr -> Int]
    BY <1>8, <2>1
  <2> QED BY <1>10, <1>16, <2>2
<1>18. args' = Append(args, Value(op, data, CallStack))
  BY <1>17 DEF AsmArg
<1> QED BY <1>16, <1>18 DEF AsmArg, Arg

\* The instructions of CALL up to its jal do what Call says.
LEMMA CallRuns ==
  ASSUME TypeOK, NEW site \in Sites, NEW c \in Nat, AsmCall(site, c)
  PROVE  Call(site)
<1>1. PICK k : /\ Runs(Machine, PrepareCall(NumVars, ctl = "incall", c), k)
               /\ k.data = data /\ k.stack = CallStack
               /\ k.reg[SP] = CallSp /\ k.reg[FP] = CallFp
               /\ k.reg[RA] = ra /\ k.reg[V0] = v0
  BY PreparingRuns DEF AsmCall
<1>2. k \in Machines
  BY <1>1 DEF Runs
<1>3. PICK n : Runs(k, Li(RA, site), n) /\ Sets(k, n, RA, site)
  <2>1. RA \in Regs /\ site \in Int
    BY TempsAreRegisters, Constants DEF Assumptions
  <2> QED BY <1>2, <2>1, LiRuns
<1>4. Runs(Machine, PrepareCall(NumVars, ctl = "incall", c) \o Li(RA, site), n)
  <2>1. PICK m, p : m = Machine /\ p = PrepareCall(NumVars, ctl = "incall", c)
    OBVIOUS
  <2>2. Runs(m, p \o Li(RA, site), n)
    BY <1>1, <1>3, <2>1, RunsConcat
  <2> QED BY <2>1, <2>2
<1>5. /\ data' = n.data /\ stack' = n.stack /\ sp' = n.reg[SP] /\ fp' = n.reg[FP]
      /\ ra' = n.reg[RA] /\ v0' = n.reg[V0]
  <2>1. PICK code : code = PrepareCall(NumVars, ctl = "incall", c) \o Li(RA, site)
    OBVIOUS
  <2> QED BY <1>4, <2>1, Becomes DEF AsmCall
<1>6. /\ n.reg[RA] = site /\ n.reg[SP] = k.reg[SP]
      /\ n.reg[FP] = k.reg[FP] /\ n.reg[V0] = k.reg[V0]
  BY <1>2, <1>3, TempsAreRegisters DEF Sets, Machines
<1>7. /\ stack' = CallStack /\ sp' = CallSp /\ fp' = CallFp /\ ra' = site
      /\ UNCHANGED <<data, v0>>
  BY <1>1, <1>3, <1>5, <1>6 DEF Sets
<1> QED BY <1>7 DEF AsmCall, Call

\* The caller's frame is on the stack when a call has returned.
LEMMA LandRuns ==
  ASSUME TypeOK, NEW c \in Nat, ra \in Sites, fp \in Nat, fp + SaveSize <= StackSize,
         AsmLand(c)
  PROVE  Land
<1>1. PICK m : m = Machine
  OBVIOUS
<1>2. /\ m \in Machines /\ m.data = data /\ m.stack = stack
      /\ m.reg[SP] = sp /\ m.reg[FP] = fp /\ m.reg[RA] = ra /\ m.reg[V0] = v0
  BY <1>1, MachineIsMachine
<1>3. PICK x : x = ResultOf[ra]
  OBVIOUS
<1>4. x \in Vars
  BY <1>3, Constants DEF Assumptions
<1>5. PICK d : d = c + LoopTakes(NumVars)
  OBVIOUS
<1>6. d \in Nat /\ d + 1 \in Nat /\ d + 1 + 1 \in Nat
  BY <1>5, Constants DEF LoopTakes, Assumptions
<1>7. /\ Reg(d) \in Temps /\ Reg(d) \in Regs /\ Reg(d + 1 + 1) \in Temps
      /\ {V0, SP, FP, RA} \subseteq Regs \ Temps /\ V0 \notin {SP, FP, RA}
  BY <1>6, RegIsTemp, TempsAreRegisters
<1>8. Reg(d) # Reg(d + 1 + 1)
  <2>1. d < d + 1 + 1 /\ d + 1 + 1 - d < 16
    BY <1>6
  <2> QED BY <1>6, <2>1, RegsDiffer DEF TempRegs, FirstTemp, LastTemp
<1>9. PICK j : Runs(m, EndCall(NumVars, c), j) /\ CallEnded(m, j)
  <2>1. m.reg[FP] \in Nat /\ m.reg[FP] + SaveSize <= StackSize
    BY <1>2
  <2> QED BY <1>2, <2>1, EndCallRuns
<1>10. j \in Machines /\ j.reg[V0] = v0
  BY <1>2, <1>7, <1>9 DEF Runs, CallEnded, Keeps
<1>11. PICK k : Runs(j, Move(Reg(d), V0), k) /\ Sets(j, k, Reg(d), v0)
  BY <1>7, <1>10, MoveRuns
<1>12. /\ k \in Machines /\ k.reg[Reg(d)] = v0 /\ k.data = j.data /\ k.stack = j.stack
       /\ Keeps(j, k, {Reg(d)})
  BY <1>7, <1>10, <1>11 DEF Runs, Sets, Machines, Keeps
<1>13. PICK n : /\ Runs(k, ApplyOprand(Var(x), Reg(d), d + 1), n)
                /\ n.data = [k.data EXCEPT ![x] = k.reg[Reg(d)]] /\ n.stack = k.stack
                /\ Keeps(k, n, {Reg(d + 1 + 1)})
  BY <1>4, <1>6, <1>7, <1>8, <1>12, ApplyResultRuns
<1>14. Runs(m, RewriteCallTail(NumVars, x, c), n)
  BY <1>5, <1>9, <1>11, <1>13, RunsConcat DEF RewriteCallTail
<1>15. /\ data' = n.data /\ stack' = n.stack /\ sp' = n.reg[SP] /\ fp' = n.reg[FP]
       /\ ra' = n.reg[RA] /\ v0' = n.reg[V0]
  BY <1>1, <1>3, <1>14, Becomes DEF AsmLand
<1>16. ASSUME NEW q \in {SP, FP, RA, V0} PROVE n.reg[q] = j.reg[q]
  BY <1>7, <1>12, <1>13 DEF Keeps
<1>17. /\ sp' = fp + SaveSize /\ fp' = stack[fp] /\ ra' = stack[fp + 1]
       /\ v0' = v0 /\ stack' = stack
  BY <1>2, <1>9, <1>10, <1>12, <1>13, <1>15, <1>16 DEF CallEnded
<1>18. j.data = LoadedVars
  <2>1. j.data \in [Vars -> Int]
    BY <1>10 DEF Machines
  <2>2. ASSUME NEW y \in Vars PROVE j.data[y] = Restored(y)
    BY <1>2, <1>9 DEF CallEnded, Restored
  <2>3. j.data = [y \in Vars |-> j.data[y]]
    BY <2>1
  <2>4. LoadedVars = [y \in Vars |-> Restored(y)]
    BY DEF LoadedVars
  <2> QED BY <2>2, <2>3, <2>4
<1>19. data' = WithResult
  BY <1>3, <1>12, <1>13, <1>15, <1>18 DEF WithResult
<1> QED BY <1>17, <1>19 DEF AsmLand, Land, Resume

-----------------------------------------------------------------------------
(* The specification. *)

\* Every step of the instructions is a step of Calls.
LEMMA AsmStep ==
  ASSUME IInv, ReturnsHome, [AsmNext]_vars
  PROVE  [Next]_vars
<1>1. TypeOK
  BY DEF IInv
<1>2. ASSUME NEW c \in Rotations, AsmLand(c) PROVE Land
  <2>1. c \in Nat /\ ctl = "returned"
    BY <1>2, RotationsAssumption DEF AsmLand
  <2>2. frames # << >> /\ ra = Top.site /\ fp = Base(Depth)
    BY <2>1 DEF ReturnsHome
  <2>3. Depth \in Nat \ {0} /\ Depth \in 1 .. Depth
    BY <1>1, <2>2, EmptySeq DEF TypeOK, Depth
  <2>4. /\ fp \in Nat /\ frames[Depth].sp \in 0 .. StackSize
        /\ fp = frames[Depth].sp - SaveSize
    BY <2>2, <2>3, FrameBounds DEF Base
  <2>5. fp + SaveSize <= StackSize
    BY <2>4, Constants DEF SaveSize, Assumptions
  <2>6. ra \in Sites
    <3>1. frames[Depth].site \in Sites
      BY <2>1, <2>3 DEF IInv, StackLayout
    <3> QED BY <2>2, <3>1 DEF Top, Depth
  <2> QED BY <1>1, <1>2, <2>1, <2>4, <2>5, <2>6, LandRuns
<1>3. ASSUME NEW c \in Rotations, NEW code \in Program, AsmExecute(code, c)
      PROVE  Execute(code)
  <2>1. c \in Nat
    BY RotationsAssumption
  <2>2. CASE code.op = "Assign" /\ AsmAssign(code.left, code.right, c)
    BY <1>1, <2>1, <2>2, CodeFields, AssignRuns DEF Execute
  <2>3. CASE code.op \in ArithKinds /\ AsmBinOp(code.op, code.target, code.op1, code.op2, c)
    BY <1>1, <2>1, <2>3, CodeFields, BinOpRuns DEF Execute
  <2>4. CASE code.op = "Return" /\ AsmReturn(code.ret, c)
    BY <1>1, <2>1, <2>4, CodeFields, ReturnRuns DEF Execute
  <2>5. CASE code.op = "Dec" /\ AsmDec(code.var, code.size, c)
    BY <1>1, <2>1, <2>5, CodeFields, DecRuns DEF Execute
  <2>6. CASE code.op = "Arg" /\ AsmArg(code.arg, c)
    BY <1>1, <2>1, <2>6, CodeFields, ArgRuns DEF Execute
  <2>7. CASE code.op = "Call" /\ AsmCall(code.site, c)
    BY <1>1, <2>1, <2>7, CodeFields, CallRuns DEF Execute
  <2>8. CASE code.op = "Param" /\ AsmParam(code.param, c)
    <3>1. ctl = "entry"
      BY <2>8 DEF AsmParam
    <3>2. Depth > 0 /\ sp + Len(args) = Base(Depth) /\ args # << >>
      BY <3>1 DEF IInv, StackLayout
    <3>3. args \in Seq(Int) /\ sp \in Nat /\ Depth \in Nat
      BY <1>1 DEF TypeOK, Depth
    <3>4. Len(args) \in Nat \ {0} /\ Depth \in 1 .. Depth
      BY <3>2, <3>3, EmptySeq
    <3>5. frames[Depth].sp \in 0 .. StackSize /\ Base(Depth) = frames[Depth].sp - NumVars - 2
      BY <3>4, FrameBounds
    <3>6. sp \in Addr
      BY <3>2, <3>3, <3>4, <3>5, Constants DEF Addr, Assumptions
    <3>7. code.param \in Vars
      BY <2>8, CodeFields
    <3>8. Param(code.param)
      BY <1>1, <2>1, <2>8, <3>6, <3>7, ParamRuns
    <3> QED BY <2>8, <3>8 DEF Execute
  <2>9. CASE code.op = "Read" /\ \E i \in Inputs : AsmRead(code.read, i, c)
    <3>1. code.read \in Vars
      BY <2>9, CodeFields
    <3>2. \E i \in Inputs : Read(code.read, i)
      BY <1>1, <2>1, <2>9, <3>1, ReadRuns
    <3> QED BY <2>9, <3>2 DEF Execute
  <2>10. CASE code.op = "Write" /\ AsmWrite(code.write, c)
    BY <1>1, <2>1, <2>10, CodeFields, WriteRuns DEF Execute
  <2> QED
    BY <1>3, <2>2, <2>3, <2>4, <2>5, <2>6, <2>7, <2>8, <2>9, <2>10 DEF AsmExecute
<1> QED BY <1>2, <1>3 DEF AsmNext, Next

\* The invariant of Calls holds while the instructions run.
LEMMA AsmInvariant == AsmSpec => [](IInv /\ ReturnsHome) /\ [][Next]_vars
<1>1. Init => IInv /\ ReturnsHome
  BY Initially
<1>2. (IInv /\ ReturnsHome) /\ [AsmNext]_vars => [Next]_vars /\ (IInv /\ ReturnsHome)'
  BY AsmStep, Inductive
<1> QED BY <1>1, <1>2, PTL DEF AsmSpec


-----------------------------------------------------------------------------
(* Junk. *)

\* What a code computes with is not Junk.
LEMMA ValueIsNoJunk ==
  ASSUME JunkIsFresh, IInv, NoJunk, NEW code \in Program, NEW op \in OperandsOf(code),
         op \in Operands, NEW st \in [Addr -> Int], \A a \in Addr : st[a] # Junk,
         Readable(op)
  PROVE  Value(op, data, st) # Junk
<1>1. op.kind = "Constant" => op.value # Junk
  BY DEF JunkIsFresh
<1>2. op.kind = "Deref" => data[op.var] \in Addr
  BY ReadableIsAddress DEF IInv
<1>3. op.kind # "Constant" => op.var \in Vars
  BY DEF Operands, VarOperands, DerefOperands, RefOperands, ConstOperands
<1> QED BY <1>1, <1>2, <1>3 DEF Value, NoJunk

\* The same of the values that are read in the state as it is.
LEMMA EvalIsNoJunk ==
  ASSUME JunkIsFresh, IInv, NoJunk, NEW code \in Program, NEW op \in OperandsOf(code),
         op \in Operands, Readable(op)
  PROVE  Eval(op) # Junk
<1>1. PICK st : st = stack
  OBVIOUS
<1>2. st \in [Addr -> Int] /\ \A a \in Addr : st[a] # Junk
  BY <1>1 DEF IInv, TypeOK, NoJunk
<1> QED BY <1>1, <1>2, ValueIsNoJunk DEF Eval

\* What prepare_call leaves on the stack and in the registers.
LEMMA PreparedIsNoJunk ==
  ASSUME JunkIsFresh, IInv, NoJunk, CallSp >= 0
  PROVE  /\ CallStack \in [Addr -> Int] /\ \A a \in Addr : CallStack[a] # Junk
         /\ CallSp \in 0 .. StackSize /\ CallSp # Junk /\ CallFp # Junk
<1>1. /\ data \in [Vars -> Int] /\ stack \in [Addr -> Int] /\ sp \in 0 .. StackSize
      /\ fp \in Int /\ ra \in Int /\ NumVars \in Nat /\ StackSize \in Nat
  BY Constants DEF IInv, TypeOK, Assumptions
<1>2. ASSUME NEW a \in Addr PROVE Prepared[a] \in Int /\ Prepared[a] # Junk
  <2>1. Prepared[a] = IF a \in sp - NumVars .. sp - 1 THEN data[sp - a]
                      ELSE IF a = sp - NumVars - 1 THEN ra
                      ELSE IF a = sp - SaveSize THEN fp ELSE stack[a]
    BY DEF Prepared
  <2>2. a \in sp - NumVars .. sp - 1 => sp - a \in Vars
    BY <1>1 DEF Addr, Vars
  <2> QED BY <1>1, <2>1, <2>2 DEF NoJunk
<1>3. Prepared \in [Addr -> Int]
  BY <1>2 DEF Prepared
<1>4. CallStack \in [Addr -> Int] /\ \A a \in Addr : CallStack[a] # Junk
  BY <1>1, <1>2, <1>3 DEF CallStack, NoJunk
<1>5. CallSp \in 0 .. StackSize
  BY <1>1 DEF CallSp, SaveSize
<1>6. CallSp # Junk
  BY <1>1, <1>5 DEF JunkIsFresh
<1>7. CallFp # Junk
  BY <1>6 DEF CallFp, NoJunk
<1> QED BY <1>4, <1>5, <1>6, <1>7

\* No code leaves Junk behind.
LEMMA JunkStep ==
  ASSUME JunkIsFresh, IInv, ReturnsHome, NoJunk, [Next]_vars
  PROVE  NoJunk'
<1>1. /\ data \in [Vars -> Int] /\ stack \in [Addr -> Int] /\ sp \in 0 .. StackSize
      /\ fp \in Int /\ ra \in Int /\ v0 \in Int /\ NumVars \in Nat /\ StackSize \in Nat
  BY Constants DEF IInv, TypeOK, Assumptions
<1>2. ASSUME NEW w, w \in 0 .. StackSize + NumVars PROVE w # Junk
  BY <1>2 DEF JunkIsFresh
<1>3. CASE Done \/ UNCHANGED vars
  BY <1>3 DEF Done, vars, NoJunk
<1>4. CASE Land
  <2>1. /\ ctl = "returned" /\ data' = [LoadedVars EXCEPT ![ResultOf[ra]] = v0]
        /\ sp' = fp + SaveSize /\ fp' = stack[fp] /\ ra' = stack[fp + 1]
        /\ UNCHANGED <<stack, v0>>
    BY <1>4 DEF Land, Resume, WithResult
  <2>2. Depth \in Nat /\ Depth \in 1 .. Depth /\ fp = Base(Depth)
    BY <2>1, EmptySeq DEF IInv, TypeOK, ReturnsHome, Depth
  <2>3. fp \in Nat /\ fp + NumVars + 2 <= StackSize
    <3>1. /\ Base(Depth) \in Nat /\ frames[Depth].sp \in 0 .. StackSize
          /\ Base(Depth) = frames[Depth].sp - NumVars - 2
      BY <2>2, FrameBounds
    <3> QED BY <1>1, <2>2, <3>1
  <2>4. fp \in Addr /\ fp + 1 \in Addr /\ fp + SaveSize \in 0 .. StackSize
    BY <1>1, <2>3 DEF Addr, SaveSize
  <2>5. ASSUME NEW x \in Vars PROVE Restored(x) # Junk
    <3>1. fp + SaveSize - x \in Addr
      BY <1>1, <2>3 DEF Addr, SaveSize, Vars
    <3>2. Label(x) # Junk
      <4>1. Label(x) \in 0 .. StackSize + NumVars
        BY <1>1 DEF Label, Vars
      <4> QED BY <4>1, <1>2
    <3> QED BY <3>1, <3>2 DEF Restored, NoJunk
  <2>6. \A x \in Vars : data'[x] = Restored(x) \/ data'[x] = v0
    BY <2>1 DEF LoadedVars
  <2>7. sp' # Junk
    <3>1. sp' \in 0 .. StackSize + NumVars
      BY <1>1, <2>1, <2>4
    <3> QED BY <3>1, <1>2
  <2> QED BY <2>1, <2>4, <2>5, <2>6, <2>7 DEF NoJunk
<1>5. ASSUME NEW c \in Program, Execute(c) PROVE NoJunk'
  <2>1. CASE c.op = "Assign" /\ Assign(c.left, c.right)
    <3>1. c.right \in OperandsOf(c)
      BY <2>1 DEF OperandsOf, ArithKinds
    <3>2. c.right \in Operands /\ c.left \in Targets /\ Readable(c.right) /\ Readable(c.left)
      BY <2>1, CodeFields DEF Assign
    <3>3. Eval(c.right) # Junk
      BY <3>1, <3>2, EvalIsNoJunk
    <3>4. c.left.kind = "Deref" => data[c.left.var] \in Addr
      BY <3>2, ReadableIsAddress DEF IInv
    <3> QED BY <1>1, <2>1, <3>3, <3>4 DEF Assign, NoJunk
  <2>2. CASE c.op \in ArithKinds /\ BinOp(c.op, c.target, c.op1, c.op2)
    <3>1. Arith(c.op, Eval(c.op1), Eval(c.op2)) # Junk
      BY <2>2 DEF BinOp, JunkIsFresh
    <3> QED BY <1>1, <2>2, <3>1 DEF BinOp, NoJunk
  <2>3. CASE c.op = "Return" /\ Return(c.ret)
    <3>1. c.ret \in OperandsOf(c)
      BY <2>3 DEF OperandsOf, ArithKinds
    <3>2. Eval(c.ret) # Junk
      BY <2>3, <3>1, CodeFields, EvalIsNoJunk DEF Return
    <3> QED BY <2>3, <3>2 DEF Return, NoJunk
  <2>4. CASE c.op = "Dec" /\ Dec(c.var, c.size)
    <3>1. c.size \in Nat
      BY <2>4, CodeFields
    <3>2. sp - c.size # Junk
      <4>1. sp - c.size \in 0 .. StackSize + NumVars
        BY <1>1, <2>4, <3>1 DEF Dec
      <4> QED BY <4>1, <1>2
    <3> QED BY <1>1, <2>4, <3>2 DEF Dec, NoJunk
  <2>5. CASE c.op = "Arg" /\ Arg(c.arg)
    <3>1. c.arg \in OperandsOf(c) /\ c.arg \in Operands /\ Readable(c.arg)
      BY <2>5, CodeFields DEF OperandsOf, ArithKinds, Arg
    <3>2. CallSp >= 1 /\ CallSp \in Int
      BY <1>1, <2>5 DEF Arg, CallSp, SaveSize
    <3>3. /\ CallStack \in [Addr -> Int] /\ \A a \in Addr : CallStack[a] # Junk
          /\ CallSp \in 0 .. StackSize /\ CallFp # Junk
      BY <3>2, PreparedIsNoJunk
    <3>4. PICK st : st = CallStack
      OBVIOUS
    <3>5. Value(c.arg, data, st) # Junk
      BY <3>1, <3>3, <3>4, ValueIsNoJunk
    <3>6. CallSp - 1 # Junk
      <4>1. CallSp - 1 \in 0 .. StackSize + NumVars
        BY <1>1, <3>2, <3>3
      <4> QED BY <4>1, <1>2
    <3>7. /\ stack' = [st EXCEPT ![CallSp - 1] = Value(c.arg, data, st)]
          /\ sp' = CallSp - 1 /\ fp' = CallFp /\ UNCHANGED <<data, ra, v0>>
      BY <2>5, <3>4 DEF Arg
    <3> QED BY <3>3, <3>4, <3>5, <3>6, <3>7 DEF NoJunk
  <2>6. CASE c.op = "Call" /\ Call(c.site)
    <3>1. c.site # Junk /\ CallSp >= 0
      BY <2>6, CodeFields DEF JunkIsFresh, Call
    <3>2. /\ CallStack \in [Addr -> Int] /\ \A a \in Addr : CallStack[a] # Junk
          /\ CallSp # Junk /\ CallFp # Junk
      BY <3>1, PreparedIsNoJunk
    <3> QED BY <2>6, <3>1, <3>2 DEF Call, NoJunk
  <2>7. CASE c.op = "Param" /\ Param(c.param)
    <3>1. ctl = "entry"
      BY <2>7 DEF Param
    <3>2. Depth > 0 /\ sp + Len(args) = Base(Depth) /\ args # << >>
      BY <3>1 DEF IInv, StackLayout
    <3>3. args \in Seq(Int) /\ sp \in Nat /\ Depth \in Nat
      BY DEF IInv, TypeOK, Depth
    <3>4. Len(args) \in Nat \ {0} /\ Depth \in 1 .. Depth
      BY <3>2, <3>3, EmptySeq
    <3>5. frames[Depth].sp \in 0 .. StackSize /\ Base(Depth) = frames[Depth].sp - NumVars - 2
      BY <3>4, FrameBounds
    <3>6. sp \in Addr /\ sp + 1 \in 0 .. StackSize + NumVars
      <4>1. sp < StackSize
        BY <1>1, <3>2, <3>3, <3>4, <3>5
      <4> QED BY <1>1, <3>3, <4>1 DEF Addr
    <3>7. sp + 1 # Junk
      BY <3>6, <1>2
    <3> QED BY <1>1, <2>7, <3>6, <3>7 DEF Param, NoJunk
  <2>8. CASE c.op = "Read" /\ \E i \in Inputs : Read(c.read, i)
    <3>1. PICK i \in Inputs : Read(c.read, i)
      BY <2>8
    <3>2. i # Junk
      BY DEF JunkIsFresh
    <3> QED BY <1>1, <3>1, <3>2 DEF Read, NoJunk
  <2>9. CASE c.op = "Write" /\ Write(c.write)
    <3>1. 0 # Junk
      <4>1. 0 \in 0 .. StackSize + NumVars
        BY <1>1
      <4> QED BY <4>1, <1>2
    <3> QED BY <1>1, <2>9, <3>1 DEF Write, NoJunk
  <2> QED
    BY <1>5, <2>1, <2>2, <2>3, <2>4, <2>5, <2>6, <2>7, <2>8, <2>9 DEF Execute
<1> QED BY <1>3, <1>4, <1>5 DEF Next

\* Nothing is Junk at the start.
LEMMA JunkInitially ==
  ASSUME JunkIsFresh, Init
  PROVE  NoJunk
<1>1. 0 # Junk /\ StackSize # Junk /\ Halt # Junk
  BY Constants DEF JunkIsFresh, Assumptions
<1> QED BY <1>1 DEF Init, NoJunk

-----------------------------------------------------------------------------
(* The theorems. *)

\* The instructions that rewrite_X prints for a code have the effect that Calls
\* gives the code, wherever the rotation of get_reg stands and whatever the
\* temporaries hold.
THEOREM InstructionsDoTheCodes == AsmSpec => ImplementsCalls
BY AsmInvariant, PTL DEF AsmSpec, Spec, ImplementsCalls

\* No register is used that the instructions of a code have not set.
THEOREM InstructionsLeakNothing ==
  ASSUME JunkIsFresh
  PROVE  AsmSpec => []NoJunk
<1>1. Init => NoJunk
  BY JunkInitially
<1>2. (IInv /\ ReturnsHome) /\ [Next]_vars /\ NoJunk => NoJunk'
  BY JunkStep
<1> QED BY <1>1, <1>2, AsmInvariant, PTL DEF AsmSpec

\* Only Land goes on behind a call.
LEMMA OnlyLandGoesOn ==
  ASSUME Next, ctl = "returned", ctl' = "code"
  PROVE  Land
<1>1. ASSUME NEW c \in Program PROVE ~Execute(c)
  BY DEF Execute, Assign, BinOp, Return, Dec, Arg, Call, Param, Read, Write
<1>2. ~Done
  BY DEF Done
<1> QED BY <1>1, <1>2 DEF Next

\* Whatever the number of the variables, "# load_vars" undoes "# store_vars" for
\* all but those that AddressTakesRegister names, and end_call gives the
\* registers back.
THEOREM CallsCostTheAliased == AsmSpec => CallCosts
<1> DEFINE Costs == /\ sp' = Top.sp /\ fp' = Top.fp /\ ra' = Top.ra
                    /\ \A x \in Vars \ {ResultOf[ra]} :
                         data'[x] = IF AddressTakesRegister(x) THEN Label(x)
                                    ELSE Top.env[x]
<1>1. ASSUME IInv, ReturnsHome, [Next]_vars PROVE [ctl = "returned" /\ ctl' = "code" => Costs]_vars
  <2> SUFFICES ASSUME Next, ctl = "returned", ctl' = "code" PROVE Costs
    BY <1>1
  <2>1. Land
    BY OnlyLandGoesOn
  <2> QED BY <1>1, <2>1, GivesBackTheOthers
<1>2. (IInv /\ ReturnsHome) /\ [Next]_vars => [ctl = "returned" /\ ctl' = "code" => Costs]_vars
  BY <1>1
<1> QED BY <1>2, AsmInvariant, PTL DEF CallCosts

\* In a program with fewer than TempRegs variables, "# load_vars" undoes
\* "# store_vars".
THEOREM LoadsWhatWasStored ==
  ASSUME NumVars < TempRegs
  PROVE  AsmSpec => CallPreservesVariables
<1>1. ASSUME IInv, ReturnsHome, [Next]_vars, ctl = "returned", ctl' = "code",
             NEW x \in Vars, x # ResultOf[ra]
      PROVE  data'[x] = Top.env[x]
  <2>1. Land
    <3>1. Next
      BY <1>1 DEF vars
    <3> QED BY <1>1, <3>1, OnlyLandGoesOn
  <2> QED BY <1>1, <2>1, GivesBack
<1>2. (IInv /\ ReturnsHome) /\ [Next]_vars =>
        [\A x \in Vars : ctl = "returned" /\ ctl' = "code" /\ x # ResultOf[ra]
                           => data'[x] = Top.env[x]]_vars
  BY <1>1
<1> QED BY <1>2, AsmInvariant, PTL DEF CallPreservesVariables

\* In a program with fewer than TempRegs variables, the instructions do what the
\* IR means: InstructionsDoTheCodes and CodeImplementsIr together.
THEOREM InstructionsImplementIr ==
  ASSUME NumVars < TempRegs
  PROVE  AsmSpec => ImplementsIr
<1>1. AsmSpec => Spec
  BY InstructionsDoTheCodes DEF ImplementsCalls
<1>2. Spec => ImplementsIr
  BY CodeImplementsIr
<1> QED BY <1>1, <1>2
=============================================================================
