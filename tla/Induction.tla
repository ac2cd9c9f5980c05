------------------------------ MODULE Induction ------------------------------
(***************************************************************************)
(* Induction over the natural numbers, and what it says of the recursive   *)
(* functions of SequencesExt.                                              *)
(*                                                                         *)
(* The induction theorems of the library have a predicate for a parameter. *)
(* Here the predicate is a set, the set of the numbers that satisfy it,    *)
(* so that a proof defines the set and cites the lemma.                    *)
(***************************************************************************)
EXTENDS Integers, Sequences, SequencesExt, SequenceTheorems,
        WellFoundedInduction, TLAPS

\* Every natural number is in a set that has a number whenever it has all the
\* smaller ones.
LEMMA SetInduction ==
  ASSUME NEW S, \A n \in Nat : (\A m \in Nat : m < n => m \in S) => n \in S
  PROVE  \A n \in Nat : n \in S
<1> SUFFICES ASSUME Nat \ S # {} PROVE FALSE
  OBVIOUS
<1> DEFINE R == {ss \in Nat \X Nat : ss[1] < ss[2]}
<1>1. IsWellFoundedOn(R, Nat)
  BY NatLessThanWellFounded DEF OpToRel
<1>2. PICK x \in Nat \ S : \A y \in Nat \ S : <<y, x>> \notin R
  <2> HIDE DEF R
  <2> QED BY <1>1, WFMin
<1>3. \A y \in Nat \ S : ~(y < x)
  BY <1>2
<1> QED BY <1>3

\* The equation of a function that is defined by recursion on 1 .. n, where
\* the value at i depends on the value at i - 1.
LEMMA FlattenSeqFunction ==
  ASSUME NEW seqs, NEW n \in Nat \ {0}, Len(seqs) = n
  PROVE  \E flatten :
           /\ flatten = [i \in 1 .. n |-> IF i = 1 THEN seqs[i]
                                          ELSE flatten[i - 1] \o seqs[i]]
           /\ FlattenSeq(seqs) = flatten[n]
<1> DEFINE body(f, i) == IF i = 1 THEN seqs[i] ELSE f[i - 1] \o seqs[i]
           Has == {k \in Nat : \E f : f = [i \in 1 .. k |-> body(f, i)]}
<1>1. ASSUME NEW k \in Nat, \A m \in Nat : m < k => m \in Has
      PROVE  k \in Has
  <2>1. CASE k = 0
    <3>1. << >> = [i \in 1 .. 0 |-> body(<< >>, i)]
      OBVIOUS
    <3> QED BY <3>1, <2>1
  <2>2. CASE k # 0
    <3>1. PICK g : g = [i \in 1 .. k - 1 |-> body(g, i)]
      <4>1. k - 1 \in Has
        <5> HIDE DEF Has
        <5> QED BY <1>1, <2>2
      <4> QED BY <4>1
    <3> DEFINE h == [i \in 1 .. k |-> IF i < k THEN g[i] ELSE body(g, k)]
    <3>2. ASSUME NEW i \in 1 .. k PROVE h[i] = body(h, i)
      <4>1. i # 1 => i - 1 \in 1 .. k /\ h[i - 1] = g[i - 1]
        OBVIOUS
      <4>2. CASE i = k
        BY <4>1, <4>2
      <4>3. CASE i < k
        <5>1. h[i] = g[i]
          BY <4>3
        <5>2. g[i] = body(g, i)
          <6> HIDE DEF h, body
          <6> QED BY <3>1, <4>3
        <5> QED BY <5>1, <5>2, <4>1
      <4> HIDE DEF h, body
      <4> QED BY <4>2, <4>3
    <3>3. h = [i \in 1 .. k |-> body(h, i)]
      BY <3>2
    <3> QED BY <3>3
  <2> QED BY <2>1, <2>2
<1>2. \E f : f = [i \in 1 .. n |-> body(f, i)]
  <2>1. n \in Has
    <3> HIDE DEF Has
    <3> QED BY <1>1, SetInduction
  <2> QED BY <2>1
<1> DEFINE flatten == CHOOSE f : f = [i \in 1 .. n |-> body(f, i)]
<1>3. flatten = [i \in 1 .. n |-> body(flatten, i)]
  BY <1>2
<1>4. FlattenSeq(seqs) = flatten[n]
  BY DEF FlattenSeq
<1> WITNESS flatten
<1> QED BY <1>3, <1>4

\* The elements of a concatenation.
LEMMA ConcatElements ==
  ASSUME NEW S, NEW p \in Seq(S), NEW q \in Seq(S)
  PROVE  /\ p \o q \in Seq(S)
         /\ Len(p \o q) = Len(p) + Len(q)
         /\ \A k \in 1 .. Len(p \o q) :
              \/ k \in 1 .. Len(p) /\ (p \o q)[k] = p[k]
              \/ k - Len(p) \in 1 .. Len(q) /\ (p \o q)[k] = q[k - Len(p)]
         /\ \A j \in 1 .. Len(p) : j \in 1 .. Len(p \o q) /\ (p \o q)[j] = p[j]
         /\ \A j \in 1 .. Len(q) :
              Len(p) + j \in 1 .. Len(p \o q) /\ (p \o q)[Len(p) + j] = q[j]
<1>1. Len(p) \in Nat /\ Len(q) \in Nat
  OBVIOUS
<1>2. /\ p \o q \in Seq(S)
      /\ Len(p \o q) = Len(p) + Len(q)
      /\ \A k \in 1 .. Len(p) + Len(q) :
           (p \o q)[k] = IF k <= Len(p) THEN p[k] ELSE q[k - Len(p)]
  BY ConcatProperties
<1>3. ASSUME NEW k \in 1 .. Len(p \o q)
      PROVE  \/ k \in 1 .. Len(p) /\ (p \o q)[k] = p[k]
             \/ k - Len(p) \in 1 .. Len(q) /\ (p \o q)[k] = q[k - Len(p)]
  BY <1>1, <1>2
<1>4. ASSUME NEW j \in 1 .. Len(p)
      PROVE  j \in 1 .. Len(p \o q) /\ (p \o q)[j] = p[j]
  BY <1>1, <1>2
<1>5. ASSUME NEW j \in 1 .. Len(q)
      PROVE  Len(p) + j \in 1 .. Len(p \o q) /\ (p \o q)[Len(p) + j] = q[j]
  BY <1>1, <1>2
<1> QED BY <1>2, <1>3, <1>4, <1>5

\* Sequence f is over S, and has the elements of n sequences and no others.
HasElements(f, seqs, n, S) ==
  /\ f \in Seq(S)
  /\ \A k \in 1 .. Len(f) : \E i \in 1 .. n : \E j \in 1 .. Len(seqs[i]) : f[k] = seqs[i][j]
  /\ \A i \in 1 .. n : \A j \in 1 .. Len(seqs[i]) : \E k \in 1 .. Len(f) : f[k] = seqs[i][j]

\* That is what flattening gives.
LEMMA FlattenSeqElements ==
  ASSUME NEW S, NEW n \in Nat, NEW seqs \in [1 .. n -> Seq(S)]
  PROVE  HasElements(FlattenSeq(seqs), seqs, n, S)
<1>1. seqs \in Seq(Seq(S)) /\ Len(seqs) = n
  OBVIOUS
<1>2. CASE n = 0
  <2>1. FlattenSeq(seqs) = << >>
    BY <1>1, <1>2 DEF FlattenSeq
  <2> QED BY <2>1, <1>2 DEF HasElements
<1>3. CASE n # 0
  <2>1. PICK flatten :
          /\ flatten = [i \in 1 .. n |-> IF i = 1 THEN seqs[i] ELSE flatten[i - 1] \o seqs[i]]
          /\ FlattenSeq(seqs) = flatten[n]
    BY <1>1, <1>3, FlattenSeqFunction
  <2> DEFINE Good(f, m) == HasElements(f, seqs, m, S)
             GoodOnes == {m \in Nat : m \in 1 .. n => Good(flatten[m], m)}
  <2>2. ASSUME NEW m \in Nat, \A l \in Nat : l < m => l \in GoodOnes
        PROVE  m \in GoodOnes
    <3> SUFFICES ASSUME m \in 1 .. n PROVE Good(flatten[m], m)
      OBVIOUS
    <3>1. CASE m = 1
      <4>1. flatten[1] = seqs[1]
        BY <2>1, <1>3
      <4>2. seqs[1] \in Seq(S)
        BY <1>3
      <4> QED BY <4>1, <4>2, <3>1 DEF HasElements
    <3>2. CASE m # 1
      <4>0. PICK p, q : p = flatten[m - 1] /\ q = seqs[m]
        OBVIOUS
      <4>1. flatten[m] = p \o q
        BY <2>1, <3>2, <4>0
      <4>2. Good(p, m - 1)
        <5>1. m - 1 \in GoodOnes
          <6> HIDE DEF GoodOnes
          <6> QED BY <2>2, <3>2
        <5> HIDE DEF Good
        <5> QED BY <5>1, <3>2, <4>0
      <4>3. p \in Seq(S) /\ q \in Seq(S)
        BY <4>2, <4>0 DEF HasElements
      <4>4. PICK r : r = p \o q
        OBVIOUS
      <4>5. /\ r \in Seq(S)
            /\ Len(r) = Len(p) + Len(q)
            /\ \A k \in 1 .. Len(r) :
                 \/ k \in 1 .. Len(p) /\ r[k] = p[k]
                 \/ k - Len(p) \in 1 .. Len(q) /\ r[k] = q[k - Len(p)]
            /\ \A j \in 1 .. Len(p) : j \in 1 .. Len(r) /\ r[j] = p[j]
            /\ \A j \in 1 .. Len(q) : Len(p) + j \in 1 .. Len(r) /\ r[Len(p) + j] = q[j]
        BY <4>3, <4>4, ConcatElements
      <4>6. ASSUME NEW k \in 1 .. Len(r)
            PROVE  \E i \in 1 .. m : \E j \in 1 .. Len(seqs[i]) : r[k] = seqs[i][j]
        <5>1. CASE k \in 1 .. Len(p) /\ r[k] = p[k]
          <6>1. PICK i \in 1 .. m - 1 : \E j \in 1 .. Len(seqs[i]) : p[k] = seqs[i][j]
            BY <5>1, <4>2 DEF HasElements
          <6> QED BY <5>1, <6>1
        <5>2. CASE k - Len(p) \in 1 .. Len(q) /\ r[k] = q[k - Len(p)]
          BY <5>2, <4>0
        <5> QED BY <5>1, <5>2, <4>5
      <4>7. ASSUME NEW i \in 1 .. m, NEW j \in 1 .. Len(seqs[i])
            PROVE  \E k \in 1 .. Len(r) : r[k] = seqs[i][j]
        <5>1. CASE i = m
          BY <5>1, <4>0, <4>5
        <5>2. CASE i # m
          <6>1. i \in 1 .. m - 1
            BY <5>2
          <6>2. PICK k \in 1 .. Len(p) : p[k] = seqs[i][j]
            BY <6>1, <4>2 DEF HasElements
          <6> QED BY <6>2, <4>5
        <5> QED BY <5>1, <5>2
      <4>8. Good(r, m)
        BY <4>5, <4>6, <4>7 DEF HasElements
      <4> QED
        <5> HIDE DEF Good
        <5> QED BY <4>1, <4>4, <4>8
    <3> QED BY <3>1, <3>2
  <2>3. n \in GoodOnes
    <3> HIDE DEF GoodOnes
    <3> QED BY <2>2, SetInduction
  <2>4. Good(flatten[n], n)
    BY <2>3, <1>3
  <2>5. Good(FlattenSeq(seqs), n)
    <3> HIDE DEF Good
    <3> QED BY <2>1, <2>4
  <2> QED BY <2>5
<1> QED BY <1>2, <1>3

\* Flattening takes the sequences one after the other.
LEMMA FlattenPrefixes ==
  ASSUME NEW S, NEW n \in Nat, NEW seqs \in [1 .. n -> Seq(S)]
  PROVE  \E p : /\ p[0] = << >>
                /\ \A i \in 1 .. n : p[i] = p[i - 1] \o seqs[i]
                /\ p[n] = FlattenSeq(seqs)
<1>1. seqs \in Seq(Seq(S)) /\ Len(seqs) = n
  OBVIOUS
<1>2. CASE n = 0
  <2>1. FlattenSeq(seqs) = << >>
    BY <1>1, <1>2 DEF FlattenSeq
  <2> DEFINE p == [i \in {0} |-> << >>]
  <2>2. p[0] = << >> /\ p[n] = FlattenSeq(seqs) /\ 1 .. n = {}
    BY <1>2, <2>1
  <2> QED BY <2>2
<1>3. CASE n # 0
  <2>1. PICK f : /\ f = [i \in 1 .. n |-> IF i = 1 THEN seqs[i] ELSE f[i - 1] \o seqs[i]]
                 /\ FlattenSeq(seqs) = f[n]
    BY <1>1, <1>3, FlattenSeqFunction
  <2> DEFINE p == [i \in 0 .. n |-> IF i = 0 THEN << >> ELSE f[i]]
  <2>2. ASSUME NEW i \in 1 .. n PROVE p[i] = p[i - 1] \o seqs[i]
    <3>1. CASE i = 1
      <4>1. p[i] = seqs[1] /\ p[i - 1] = << >>
        BY <3>1, <2>1
      <4>2. seqs[1] \in Seq(S)
        BY <3>1
      <4>3. << >> \o seqs[1] = seqs[1]
        BY <4>2
      <4> QED BY <3>1, <4>1, <4>3
    <3>2. CASE i # 1
      <4>1. f[i] = f[i - 1] \o seqs[i]
        BY <3>2, <2>1
      <4>2. p[i] = f[i] /\ p[i - 1] = f[i - 1]
        BY <3>2
      <4> QED BY <4>1, <4>2
    <3> QED BY <3>1, <3>2
  <2>3. p[0] = << >> /\ p[n] = FlattenSeq(seqs)
    BY <2>1, <1>3
  <2> QED BY <2>2, <2>3
<1> QED BY <1>2, <1>3
\* What B says of a function at x depends on the values of the function at
\* arguments of less depth only.
LooksDown(B, T, V, depth) ==
  \A f, g \in [T -> V] : \A x \in T :
    (\A y \in T : depth[y] < depth[x] => f[y] = g[y]) => B[<<f, x>>] = B[<<g, x>>]

\* Function f is as B says.
IsRecursive(f, B, T, V) == f \in [T -> V] /\ \A x \in T : f[x] = B[<<f, x>>]

\* Such a function exists.
LEMMA RecursiveFunction ==
  ASSUME NEW T, NEW V, NEW w \in V, NEW depth \in [T -> Nat],
         NEW B \in [[T -> V] \X T -> V], LooksDown(B, T, V, depth)
  PROVE  \E f : IsRecursive(f, B, T, V)
<1>0. \A f, g \in [T -> V] : \A x \in T :
        (\A y \in T : depth[y] < depth[x] => f[y] = g[y]) => B[<<f, x>>] = B[<<g, x>>]
  BY DEF LooksDown
<1> DEFINE Approx(n) == {f \in [T -> V] : \A x \in T : depth[x] < n => f[x] = B[<<f, x>>]}
           Has == {n \in Nat : \E f : f \in Approx(n)}
<1>1. ASSUME NEW n \in Nat, \A m \in Nat : m < n => m \in Has
      PROVE  n \in Has
  <2>1. CASE n = 0
    <3>1. [x \in T |-> w] \in Approx(0)
      OBVIOUS
    <3> HIDE DEF Approx
    <3> QED BY <3>1, <2>1
  <2>2. CASE n # 0
    <3>1. n - 1 \in Has
      <4> HIDE DEF Has
      <4> QED BY <1>1, <2>2
    <3>2. PICK g : g \in Approx(n - 1)
      <4> HIDE DEF Approx
      <4> QED BY <3>1
    <3>3. /\ g \in [T -> V]
          /\ \A x \in T : depth[x] < n - 1 => g[x] = B[<<g, x>>]
      BY <3>2
    <3>4. PICK f : f = [x \in T |-> B[<<g, x>>]]
      OBVIOUS
    <3>5. f \in [T -> V]
      BY <3>3, <3>4
    <3>6. ASSUME NEW x \in T, depth[x] < n PROVE f[x] = B[<<f, x>>]
      <4>1. \A y \in T : depth[y] < depth[x] => f[y] = g[y]
        BY <3>3, <3>4, <3>6
      <4>2. B[<<f, x>>] = B[<<g, x>>]
        BY <4>1, <3>3, <3>5, <1>0
      <4> QED BY <4>2, <3>4
    <3>7. f \in Approx(n)
      BY <3>5, <3>6
    <3> HIDE DEF Approx
    <3> QED BY <3>7
  <2> QED BY <2>1, <2>2
<1>2. \A n \in Nat : \E f : f \in Approx(n)
  <2>1. \A n \in Nat : n \in Has
    <3> HIDE DEF Has
    <3> QED BY <1>1, SetInduction
  <2> HIDE DEF Approx
  <2> QED BY <2>1
<1> DEFINE Agree(k) == \A m, n \in Nat : \A f \in Approx(m) : \A g \in Approx(n) : \A x \in T :
                         depth[x] = k /\ k < m /\ k < n => f[x] = g[x]
           Agreed == {k \in Nat : Agree(k)}
<1>3. ASSUME NEW k \in Nat, \A l \in Nat : l < k => l \in Agreed
      PROVE  k \in Agreed
  <2>1. \A l \in Nat : l < k => Agree(l)
    <3> HIDE DEF Agree
    <3> QED BY <1>3
  <2> SUFFICES ASSUME NEW m \in Nat, NEW n \in Nat, NEW f \in Approx(m), NEW g \in Approx(n),
                      NEW x \in T, depth[x] = k, k < m, k < n
               PROVE  f[x] = g[x]
    <3>1. Agree(k) => k \in Agreed
      <4> HIDE DEF Agree
      <4> QED OBVIOUS
    <3> HIDE DEF Agreed, Approx
    <3> QED BY <3>1
  <2>2. ASSUME NEW y \in T, depth[y] < depth[x] PROVE f[y] = g[y]
    <3>1. depth[y] \in Nat /\ depth[y] < k /\ depth[y] < m /\ depth[y] < n
      BY <2>2
    <3>2. Agree(depth[y])
      <4> HIDE DEF Agree
      <4> QED BY <2>1, <3>1
    <3> HIDE DEF Approx
    <3> QED BY <3>1, <3>2
  <2>3. /\ f \in [T -> V] /\ g \in [T -> V]
        /\ f[x] = B[<<f, x>>] /\ g[x] = B[<<g, x>>]
    OBVIOUS
  <2>4. B[<<f, x>>] = B[<<g, x>>]
    BY <2>2, <2>3, <1>0
  <2> QED BY <2>3, <2>4
<1>4. \A k \in Nat : Agree(k)
  <2>1. \A k \in Nat : k \in Agreed
    <3> HIDE DEF Agreed
    <3> QED BY <1>3, SetInduction
  <2> HIDE DEF Agree
  <2> QED BY <2>1
<1> DEFINE pick == [x \in T |-> CHOOSE f : f \in Approx(depth[x] + 1)]
           F == [x \in T |-> pick[x][x]]
<1>5. \A x \in T : pick[x] \in Approx(depth[x] + 1)
  <2> SUFFICES ASSUME NEW x \in T PROVE pick[x] \in Approx(depth[x] + 1)
    OBVIOUS
  <2>1. depth[x] + 1 \in Nat
    OBVIOUS
  <2>2. \E f : f \in Approx(depth[x] + 1)
    <3> HIDE DEF Approx
    <3> QED BY <2>1, <1>2
  <2> HIDE DEF Approx
  <2> QED BY <2>2
<1>6. \A x \in T : pick[x] \in [T -> V] /\ pick[x][x] = B[<<pick[x], x>>]
  <2> SUFFICES ASSUME NEW x \in T
               PROVE  pick[x] \in [T -> V] /\ pick[x][x] = B[<<pick[x], x>>]
    OBVIOUS
  <2>1. PICK p : p = pick[x]
    OBVIOUS
  <2>2. p \in Approx(depth[x] + 1)
    <3> HIDE DEF Approx, pick
    <3> QED BY <2>1, <1>5
  <2>3. p \in [T -> V] /\ p[x] = B[<<p, x>>]
    BY <2>2
  <2> HIDE DEF Approx, pick
  <2> QED BY <2>1, <2>3
<1>7. F \in [T -> V]
  <2> HIDE DEF pick, Approx
  <2> QED BY <1>6
<1>8. ASSUME NEW x \in T PROVE F[x] = B[<<F, x>>]
  <2>1. ASSUME NEW y \in T, depth[y] < depth[x] PROVE F[y] = pick[x][y]
    <3>1. /\ depth[y] \in Nat /\ depth[x] + 1 \in Nat /\ depth[y] + 1 \in Nat
          /\ depth[y] < depth[x] + 1 /\ depth[y] < depth[y] + 1
      BY <2>1
    <3>2. Agree(depth[y])
      <4> HIDE DEF Agree
      <4> QED BY <3>1, <1>4
    <3>3. pick[y] \in Approx(depth[y] + 1) /\ pick[x] \in Approx(depth[x] + 1)
      <4> HIDE DEF Approx, pick
      <4> QED BY <1>5
    <3>4. pick[y][y] = pick[x][y]
      <4> HIDE DEF Approx, pick
      <4> QED BY <3>1, <3>2, <3>3
    <3> HIDE DEF pick, Approx
    <3> QED BY <3>4
  <2>2. F[x] = B[<<pick[x], x>>]
    <3> HIDE DEF pick, Approx
    <3> QED BY <1>6
  <2>3. \A y \in T : depth[y] < depth[x] => F[y] = pick[x][y]
    <3> HIDE DEF F, pick
    <3> QED BY <2>1
  <2>4. B[<<F, x>>] = B[<<pick[x], x>>]
    <3> HIDE DEF F, pick, Approx
    <3> QED BY <2>3, <1>6, <1>7, <1>0
  <2> QED
    <3> HIDE DEF F, pick
    <3> QED BY <2>2, <2>4
<1> HIDE DEF F
<1>9. IsRecursive(F, B, T, V)
  BY <1>7, <1>8 DEF IsRecursive
<1> QED BY <1>9

\* Function f is z at 0, and at i what step makes of i and the value before;
\* and every other function that is so as long as it is an integer is f.
Accumulates(f, n, z, step) ==
  /\ f \in [0 .. n -> Int]
  /\ f[0] = z
  /\ \A i \in 1 .. n : f[i] = step[<<f[i - 1], i>>]
  /\ \A g : g[0] = z /\ (\A i \in 1 .. n : g[i - 1] \in Int => g[i] = step[<<g[i - 1], i>>])
       => \A i \in 0 .. n : g[i] = f[i]

\* There is such a function.
LEMMA Accumulation ==
  ASSUME NEW n \in Nat, NEW z \in Int, NEW step \in [Int \X (1 .. n) -> Int]
  PROVE  \E f : Accumulates(f, n, z, step)
<1> DEFINE T == 0 .. n
           depth == [i \in T |-> i]
           B == [p \in [T -> Int] \X T |->
                   IF p[2] = 0 THEN z ELSE step[<<p[1][p[2] - 1], p[2]>>]]
<1>1. depth \in [T -> Nat] /\ 0 \in Int
  OBVIOUS
<1>2. ASSUME NEW f \in [T -> Int], NEW i \in T
      PROVE  /\ B[<<f, i>>] = IF i = 0 THEN z ELSE step[<<f[i - 1], i>>]
             /\ B[<<f, i>>] \in Int
  <2>1. <<f, i>> \in [T -> Int] \X T
    OBVIOUS
  <2>2. B[<<f, i>>] = IF i = 0 THEN z ELSE step[<<f[i - 1], i>>]
    <3> HIDE DEF T
    <3> QED BY <2>1
  <2>3. i # 0 => i - 1 \in T /\ i \in 1 .. n
    OBVIOUS
  <2>4. i # 0 => <<f[i - 1], i>> \in Int \X (1 .. n)
    BY <2>3
  <2> HIDE DEF B
  <2> QED BY <2>2, <2>4
<1>3. B \in [[T -> Int] \X T -> Int]
  <2>1. \A p \in [T -> Int] \X T : B[p] \in Int
    <3> SUFFICES ASSUME NEW p \in [T -> Int] \X T PROVE B[p] \in Int
      OBVIOUS
    <3>1. p = <<p[1], p[2]>> /\ p[1] \in [T -> Int] /\ p[2] \in T
      OBVIOUS
    <3> HIDE DEF B, T
    <3> QED BY <3>1, <1>2
  <2>2. B = [p \in [T -> Int] \X T |-> B[p]]
    OBVIOUS
  <2> HIDE DEF B, T
  <2> QED BY <2>1, <2>2
<1>4. ASSUME NEW f \in [T -> Int], NEW g \in [T -> Int], NEW i \in T,
             \A j \in T : depth[j] < depth[i] => f[j] = g[j]
      PROVE  B[<<f, i>>] = B[<<g, i>>]
  <2>1. i # 0 => i - 1 \in T /\ depth[i - 1] < depth[i]
    OBVIOUS
  <2>2. i # 0 => f[i - 1] = g[i - 1]
    <3> HIDE DEF T, depth
    <3> QED BY <1>4, <2>1
  <2> HIDE DEF B, T, depth
  <2> QED BY <1>2, <2>2
<1>5. PICK f \in [T -> Int] : \A i \in T : f[i] = B[<<f, i>>]
  <2> HIDE DEF B, T, depth
  <2>1. LooksDown(B, T, Int, depth)
    BY <1>4 DEF LooksDown
  <2>2. \E f : IsRecursive(f, B, T, Int)
    BY <2>1, <1>1, <1>3, RecursiveFunction
  <2> QED BY <2>2 DEF IsRecursive
<1>6. /\ f[0] = z
      /\ \A i \in 1 .. n : f[i] = step[<<f[i - 1], i>>]
  <2>1. 0 \in T /\ \A i \in 1 .. n : i \in T /\ i # 0
    OBVIOUS
  <2>2. \A i \in T : f[i] = IF i = 0 THEN z ELSE step[<<f[i - 1], i>>]
    <3> SUFFICES ASSUME NEW i \in T PROVE f[i] = IF i = 0 THEN z ELSE step[<<f[i - 1], i>>]
      OBVIOUS
    <3> HIDE DEF B, T
    <3>1. f \in [T -> Int] /\ f[i] = B[<<f, i>>]
      BY <1>5
    <3>2. B[<<f, i>>] = IF i = 0 THEN z ELSE step[<<f[i - 1], i>>]
      BY <1>2, <3>1
    <3> QED BY <3>1, <3>2
  <2> HIDE DEF B, T
  <2> QED BY <2>1, <2>2
<1>7. ASSUME NEW g, g[0] = z,
             \A i \in 1 .. n : g[i - 1] \in Int => g[i] = step[<<g[i - 1], i>>]
      PROVE  \A i \in 0 .. n : g[i] = f[i]
  <2> DEFINE Equal1 == {i \in Nat : i \in 0 .. n => g[i] = f[i]}
  <2>1. ASSUME NEW i \in Nat, \A j \in Nat : j < i => j \in Equal1
        PROVE  i \in Equal1
    <3>1. CASE i = 0
      BY <3>1, <1>6, <1>7
    <3>2. CASE i # 0 /\ i \in 0 .. n
      <4>1. i - 1 \in Equal1 /\ i - 1 \in 0 .. n /\ i \in 1 .. n
        <5> HIDE DEF Equal1
        <5> QED BY <2>1, <3>2
      <4>2. g[i - 1] = f[i - 1] /\ f[i - 1] \in Int
        BY <4>1, <1>5
      <4> HIDE DEF B, T
      <4> QED BY <4>1, <4>2, <1>6, <1>7
    <3> QED BY <3>1, <3>2
  <2>2. \A i \in Nat : i \in Equal1
    <3> HIDE DEF Equal1
    <3> QED BY <2>1, SetInduction
  <2> QED BY <2>2
<1>8. Accumulates(f, n, z, step)
  <2> HIDE DEF B, depth
  <2> QED BY <1>5, <1>6, <1>7 DEF Accumulates
<1> QED BY <1>8

=============================================================================
