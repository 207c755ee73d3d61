---------------------------- MODULE KernelProofs ----------------------------
(* The shape of the kernel lists, the end of every wait and the wake-ups   *)
(* of Kernel, for any tasks, semaphores, programs and widths of the clock. *)
EXTENDS Kernel, SequenceTheorems, FiniteSetTheorems, WellFoundedInduction, TLAPS
-----------------------------------------------------------------------------
(* Least elements, and functions defined step by step.                     *)

\* Every set of naturals with an element has a least one.
LEMMA LeastElement ==
  ASSUME NEW S, S \subseteq Nat, S # {}
  PROVE  \E n \in S : \A m \in S : n <= m
<1> DEFINE R == OpToRel(<, Nat)
<1>1. IsWellFoundedOn(R, Nat)
  BY NatLessThanWellFounded
<1>2. R = {ss \in Nat \X Nat : ss[1] < ss[2]}
  BY DEF OpToRel
<1> HIDE DEF R
<1>3. PICK n \in S : \A m \in S : ~(<<m, n>> \in R)
  BY <1>1, WFMin
<1>4. ASSUME NEW m \in S, m < n PROVE FALSE
  <2>1. <<m, n>> \in {ss \in Nat \X Nat : ss[1] < ss[2]}
    BY <1>4
  <2>2. QED
    BY <1>2, <1>3, <2>1, Zenon
<1>5. QED
  BY <1>3, <1>4

\* N steps, each a function on X, can be taken one after the other.
LEMMA Iterate ==
  ASSUME NEW X, NEW x0 \in X, NEW N \in Nat, NEW g \in [1..N -> [X -> X]]
  PROVE  \E f \in [0..N -> X] :
           f[0] = x0 /\ \A n \in 1..N : f[n] = g[n][f[n - 1]]
<1> DEFINE Run(f, m) ==
      /\ f \in [0..m -> X]
      /\ f[0] = x0
      /\ \A n \in 1..m : f[n] = g[n][f[n - 1]]
<1> DEFINE Bad == {m \in 0..N : ~\E f : Run(f, m)}
<1>0. \A m \in 0..N : m \in Bad <=> ~\E f : Run(f, m)
  OBVIOUS
<1> HIDE DEF Bad
<1>1. Bad = {}
  <2> SUFFICES ASSUME Bad # {} PROVE FALSE
    OBVIOUS
  <2>1. Bad \subseteq 0..N /\ Bad \subseteq Nat
    BY DEF Bad
  <2>2. PICK m \in Bad : \A l \in Bad : m <= l
    BY <2>1, LeastElement
  <2>3. m \in 0..N /\ ~\E f : Run(f, m)
    BY <1>0, <2>1
  <2>4. CASE m = 0
    <3> DEFINE h == [n \in 0..0 |-> x0]
    <3>1. h \in [0..0 -> X] /\ h[0] = x0
      OBVIOUS
    <3> HIDE DEF h
    <3>2. \A n \in 1..0 : h[n] = g[n][h[n - 1]]
      OBVIOUS
    <3>3. Run(h, 0)
      BY <3>1, <3>2
    <3>4. QED
      BY <2>3, <2>4, <3>3
  <2>5. CASE m # 0
    <3> HIDE DEF Run
    <3>1. m - 1 \in 0..N /\ m \in 1..N
      BY <2>3, <2>5
    <3>2. m - 1 \notin Bad
      BY <2>2, <3>1
    <3>3. PICK f : Run(f, m - 1)
      BY <1>0, <3>1, <3>2
    <3> USE DEF Run
    <3> DEFINE h == [n \in 0..m |-> IF n = m THEN g[m][f[m - 1]] ELSE f[n]]
    <3>4. g[m][f[m - 1]] \in X
      BY <3>1, <3>3
    <3>5. h \in [0..m -> X] /\ h[0] = x0
      BY <3>1, <3>3, <3>4
    <3>6. \A n \in 1..m : h[n] = g[n][h[n - 1]]
      BY <3>1, <3>3
    <3> HIDE DEF h
    <3>7. Run(h, m)
      BY <3>5, <3>6
    <3>8. QED
      BY <2>3, <3>7
  <2>6. QED
    BY <2>4, <2>5
<1>2. PICK f : Run(f, N)
  <2> HIDE DEF Run
  <2>1. QED
    BY <1>0, <1>1
<1>3. QED
  BY <1>2
-----------------------------------------------------------------------------
(* Lists.                                                                  *)

\* Without goes through the list from its head.
LEMMA WithoutRuns ==
  ASSUME NEW S, NEW q \in Seq(S), NEW T
  PROVE  \E f \in [0..Len(q) -> Seq(S)] :
           /\ f[0] = <<>> /\ Without(q, T) = f[Len(q)]
           /\ \A n \in 1..Len(q) :
                f[n] = IF q[n] \in T THEN f[n - 1] ELSE Append(f[n - 1], q[n])
<1> DEFINE N == Len(q)
           X == Seq(S)
           x0 == <<>>
           g == [n \in 1..N |-> [r \in X |->
                   IF q[n] \in T THEN r ELSE Append(r, q[n])]]
           rhs(f) == [n \in 0..N |-> IF n = 0 THEN <<>>
                        ELSE IF q[n] \in T THEN f[n - 1] ELSE Append(f[n - 1], q[n])]
<1>1. N \in Nat /\ \A n \in 1..N : q[n] \in S
  OBVIOUS
<1>2. g \in [1..N -> [X -> X]]
  BY <1>1
<1>3. x0 \in X
  OBVIOUS
<1>4. PICK f \in [0..N -> X] : f[0] = x0 /\ \A n \in 1..N : f[n] = g[n][f[n - 1]]
  <2>1. N \in Nat
    BY <1>1
  <2> HIDE DEF N, X, x0, g, rhs
  <2>2. \A y \in X : \A K \in Nat : \A step \in [1..K -> [X -> X]] :
          \E r \in [0..K -> X] :
            r[0] = y /\ \A n \in 1..K : r[n] = step[n][r[n - 1]]
    BY SMTT(60), Iterate
  <2>3. QED
    BY <1>2, <1>3, <2>1, <2>2, Zenon
<1>5. \A n \in 1..N : g[n][f[n - 1]] = IF q[n] \in T THEN f[n - 1]
                                       ELSE Append(f[n - 1], q[n])
  BY <1>1
<1> HIDE DEF g
<1>6. f = rhs(f)
  <2>1. f[0] = x0
    BY <1>4
  <2>2. \A n \in 1..N : f[n] = IF q[n] \in T THEN f[n - 1]
                                ELSE Append(f[n - 1], q[n])
    BY <1>4, <1>5
  <2>3. \A n \in 0..N : n = 0 \/ (n \in 1..N /\ n # 0)
    BY <1>1
  <2>4. f = [n \in 0..N |-> f[n]]
    OBVIOUS
  <2>5. QED
    BY <2>1, <2>2, <2>3, <2>4
<1> DEFINE f0 == CHOOSE x : x = rhs(x)
<1>7. f0 = rhs(f0)
  BY <1>6
<1>8. Without(q, T) = f0[N]
  BY DEF Without
<1> HIDE DEF f0
<1>9. f0[0] = <<>> /\ \A n \in 1..N :
        f0[n] = IF q[n] \in T THEN f0[n - 1] ELSE Append(f0[n - 1], q[n])
  <2>1. \A n \in 0..N : f0[n] = IF n = 0 THEN <<>> ELSE
          IF q[n] \in T THEN f0[n - 1] ELSE Append(f0[n - 1], q[n])
    BY <1>7, Zenon
  <2>2. 0 \in 0..N /\ \A n \in 1..N : n \in 0..N /\ n # 0
    BY <1>1
  <2>3. QED
    BY <2>1, <2>2
<1>10. f0 \in [0..N -> Seq(S)]
  <2> DEFINE Bad == {m \in 0..N : f0[m] \notin Seq(S)}
  <2>1. Bad = {}
    <3> SUFFICES ASSUME Bad # {} PROVE FALSE
      OBVIOUS
    <3>1. Bad \subseteq Nat /\ \A m \in 0..N : m \in Bad <=> f0[m] \notin Seq(S)
      BY <1>1
    <3> HIDE DEF Bad
    <3>2. PICK m \in Bad : \A l \in Bad : m <= l
      BY <3>1, LeastElement
    <3>3. m \in 0..N
      BY DEF Bad
    <3>4. m # 0
      BY <1>3, <1>9, <3>1, <3>3
    <3>5. m \in 1..N /\ m - 1 \in 0..N
      BY <1>1, <3>3, <3>4
    <3>6. m - 1 \notin Bad
      BY <3>2, <3>5
    <3>7. f0[m - 1] \in Seq(S) /\ q[m] \in S
      BY <1>1, <3>1, <3>5, <3>6
    <3>8. f0[m] = IF q[m] \in T THEN f0[m - 1] ELSE Append(f0[m - 1], q[m])
      BY <1>9, <3>5, Zenon
    <3>9. f0[m] \in Seq(S)
      <4> HIDE DEF N
      <4>1. QED
        BY <3>7, <3>8
    <3>10. QED
      BY <3>1, <3>2, <3>3, <3>9
  <2>2. f0 = [n \in 0..N |-> f0[n]]
    BY <1>7, Zenon
  <2>3. \A n \in 0..N : f0[n] \in Seq(S)
    BY <2>1
  <2>4. QED
    BY <2>2, <2>3
<1>11. QED
  BY <1>8, <1>9, <1>10

Distinct(q) == \A i, j \in 1..Len(q) : q[i] = q[j] => i = j
Ordered(q, value) == \A i, j \in 1..Len(q) : i < j => value[q[i]] <= value[q[j]]

\* Removing tasks from a list keeps the order of the others.
LEMMA WithoutFacts ==
  ASSUME NEW S, NEW q \in Seq(S), Distinct(q), NEW T, NEW value
  PROVE  /\ Without(q, T) \in Seq(S)
         /\ Members(Without(q, T)) = Members(q) \ T
         /\ Distinct(Without(q, T))
         /\ Ordered(q, value) => Ordered(Without(q, T), value)
<1>1. PICK f \in [0..Len(q) -> Seq(S)] :
        /\ f[0] = <<>> /\ Without(q, T) = f[Len(q)]
        /\ \A n \in 1..Len(q) :
             f[n] = IF q[n] \in T THEN f[n - 1] ELSE Append(f[n - 1], q[n])
  BY SMTT(60), WithoutRuns
<1> DEFINE Has(n) == \A x : (\E j \in 1..Len(f[n]) : f[n][j] = x)
                            <=> (\E i \in 1..n : q[i] = x /\ x \notin T)
           Keeps(n) == \A i, j \in 1..Len(f[n]) : i < j =>
             \E a, b \in 1..n : a < b /\ f[n][i] = q[a] /\ f[n][j] = q[b]
           Bad == {n \in 0..Len(q) : ~(Has(n) /\ Keeps(n))}
<1>2. Len(q) \in Nat
  OBVIOUS
<1>3. Has(0) /\ Keeps(0)
  BY <1>1
<1>4. ASSUME NEW n \in 1..Len(q), Has(n - 1), Keeps(n - 1)
      PROVE  Has(n) /\ Keeps(n)
  <2>1. /\ n \in Nat /\ n - 1 \in 0..Len(q) /\ f[n - 1] \in Seq(S)
        /\ Len(f[n - 1]) \in Nat /\ q[n] \in S
    BY <1>2
  <2>2. CASE q[n] \in T
    <3>1. f[n] = f[n - 1]
      BY <1>1, <2>2
    <3>2. \A i \in 1..n : i \in 1..(n - 1) \/ i = n
      BY <1>2
    <3>3. \A i \in 1..(n - 1) : i \in 1..n
      BY <1>2
    <3>4. Has(n)
      BY <1>4, <2>2, <3>1, <3>2, <3>3
    <3>5. Keeps(n)
      BY <1>4, <3>1, <3>3
    <3>6. QED
      BY <3>4, <3>5
  <2>3. CASE q[n] \notin T
    <3>1. f[n] = Append(f[n - 1], q[n])
      BY <1>1, <2>3
    <3> DEFINE l == Len(f[n - 1])
    <3>2. /\ Len(f[n]) = l + 1 /\ f[n][l + 1] = q[n]
          /\ \A j \in 1..l : f[n][j] = f[n - 1][j]
      BY <2>1, <3>1
    <3>3. \A j \in 1..(l + 1) : j \in 1..l \/ j = l + 1
      BY <2>1
    <3>4. \A i \in 1..n : i \in 1..(n - 1) \/ i = n
      BY <1>2
    <3>5. /\ \A i \in 1..(n - 1) : i \in 1..n /\ i < n
          /\ \A j \in 1..l : j \in 1..(l + 1)
          /\ l + 1 \in 1..(l + 1) /\ n \in 1..n
      BY <1>2, <2>1
    <3> HIDE DEF l
    <3>6. Has(n)
      <4>1. ASSUME NEW x, NEW j \in 1..Len(f[n]), f[n][j] = x
            PROVE  \E i \in 1..n : q[i] = x /\ x \notin T
        <5>1. CASE j = l + 1
          BY <2>3, <3>2, <3>5, <4>1, <5>1
        <5>2. CASE j \in 1..l
          BY <1>4, <3>2, <3>5, <4>1, <5>2 DEF l
        <5>3. QED
          BY <3>2, <3>3, <5>1, <5>2
      <4>2. ASSUME NEW x, NEW i \in 1..n, q[i] = x, x \notin T
            PROVE  \E j \in 1..Len(f[n]) : f[n][j] = x
        <5>1. CASE i = n
          BY <3>2, <3>5, <4>2, <5>1
        <5>2. CASE i \in 1..(n - 1)
          BY ZenonT(60), <1>4, <3>2, <3>5, <4>2, <5>2 DEF l
        <5>3. QED
          BY <3>4, <5>1, <5>2
      <4>3. QED
        BY <4>1, <4>2
    <3>7. Keeps(n)
      <4> SUFFICES ASSUME NEW i \in 1..Len(f[n]), NEW j \in 1..Len(f[n]), i < j
                   PROVE  \E a, b \in 1..n : a < b /\ f[n][i] = q[a] /\ f[n][j] = q[b]
        OBVIOUS
      <4>1. i \in 1..l
        BY <2>1, <3>2, <3>3 DEF l
      <4>2. CASE j = l + 1
        <5>1. PICK a \in 1..(n - 1) : q[a] = f[n - 1][i]
          BY <1>4, <4>1 DEF l
        <5>2. QED
          BY <3>2, <3>5, <4>1, <4>2, <5>1
      <4>3. CASE j \in 1..l
        <5>1. PICK a \in 1..(n - 1), b \in 1..(n - 1) :
                a < b /\ f[n - 1][i] = q[a] /\ f[n - 1][j] = q[b]
          BY <1>4, <4>1, <4>3 DEF l
        <5>2. QED
          BY <3>2, <3>5, <4>1, <4>3, <5>1
      <4>4. QED
        BY <3>2, <3>3, <4>2, <4>3
    <3>8. QED
      BY <3>6, <3>7
  <2>4. QED
    BY <2>2, <2>3
<1> HIDE DEF Has, Keeps
<1>5. Bad = {}
  <2> SUFFICES ASSUME Bad # {} PROVE FALSE
    OBVIOUS
  <2>1. Bad \subseteq 0..Len(q) /\ Bad \subseteq Nat
    BY <1>2
  <2>2. \A n \in 0..Len(q) : n \in Bad <=> ~(Has(n) /\ Keeps(n))
    OBVIOUS
  <2> HIDE DEF Bad
  <2>3. PICK n \in Bad : \A l \in Bad : n <= l
    BY <2>1, LeastElement
  <2>4. n \in 0..Len(q) /\ n # 0
    BY <1>3, <2>1, <2>2, <2>3
  <2>5. n \in 1..Len(q) /\ n - 1 \in 0..Len(q)
    BY <1>2, <2>4
  <2>6. n - 1 \notin Bad
    BY <2>3, <2>5
  <2>7. QED
    BY <1>4, <2>2, <2>3, <2>5, <2>6
<1>6. Has(Len(q)) /\ Keeps(Len(q))
  BY <1>2, <1>5
<1> DEFINE r == f[Len(q)]
<1>7. /\ Len(q) \in 0..Len(q) /\ r \in Seq(S)
      /\ \A x : (\E j \in 1..Len(r) : r[j] = x)
                <=> (\E i \in 1..Len(q) : q[i] = x /\ x \notin T)
      /\ \A i, j \in 1..Len(r) : i < j =>
             \E a, b \in 1..Len(q) : a < b /\ r[i] = q[a] /\ r[j] = q[b]
  BY <1>2, <1>6 DEF Has, Keeps
<1> HIDE DEF r
<1>8. Members(r) = Members(q) \ T
  <2>1. \A x : x \in Members(r) <=> \E j \in 1..Len(r) : r[j] = x
    BY DEF Members
  <2>2. \A x : x \in Members(q) <=> \E i \in 1..Len(q) : q[i] = x
    BY DEF Members
  <2>3. \A x : x \in Members(r) <=> x \in Members(q) /\ x \notin T
    BY <1>7, <2>1, <2>2, Zenon
  <2>4. QED
    BY <2>3
<1>9. Distinct(r)
  <2> SUFFICES ASSUME NEW i \in 1..Len(r), NEW j \in 1..Len(r), i < j PROVE r[i] # r[j]
    BY <1>7 DEF Distinct
  <2>1. PICK a \in 1..Len(q), b \in 1..Len(q) : a < b /\ r[i] = q[a] /\ r[j] = q[b]
    BY <1>7
  <2>2. QED
    BY <1>2, <2>1 DEF Distinct
<1>10. ASSUME Ordered(q, value) PROVE Ordered(r, value)
  <2> SUFFICES ASSUME NEW i \in 1..Len(r), NEW j \in 1..Len(r), i < j
               PROVE  value[r[i]] <= value[r[j]]
    BY DEF Ordered
  <2>1. PICK a \in 1..Len(q), b \in 1..Len(q) : a < b /\ r[i] = q[a] /\ r[j] = q[b]
    BY <1>7
  <2>2. QED
    BY <1>10, <2>1 DEF Ordered
<1>11. Without(q, T) = r
  BY <1>1 DEF r
<1>12. QED
  BY <1>7, <1>8, <1>9, <1>10, <1>11

\* What is on a list.
LEMMA MembersFacts ==
  ASSUME NEW S, NEW q \in Seq(S)
  PROVE  /\ Members(q) \subseteq S
         /\ \A x : x \in Members(q) <=> \E i \in 1..Len(q) : q[i] = x
         /\ Members(q) = {} <=> q = <<>>
<1>1. Len(q) \in Nat /\ \A i \in 1..Len(q) : q[i] \in S
  OBVIOUS
<1>2. \A x : x \in Members(q) <=> \E i \in 1..Len(q) : q[i] = x
  BY DEF Members
<1>3. q # <<>> => q[1] \in Members(q)
  <2>1. q # <<>> => 1 \in 1..Len(q)
    OBVIOUS
  <2>2. QED
    BY <1>2, <2>1
<1>4. QED
  BY <1>1, <1>2, <1>3

\* vListInsertEnd.
LEMMA AppendFacts ==
  ASSUME NEW S, NEW q \in Seq(S), NEW t \in S
  PROVE  /\ Append(q, t) \in Seq(S)
         /\ Members(Append(q, t)) = Members(q) \cup {t}
         /\ Distinct(q) /\ t \notin Members(q) => Distinct(Append(q, t))
<1> DEFINE r == Append(q, t)
<1>1. /\ r \in Seq(S) /\ Len(q) \in Nat /\ Len(r) = Len(q) + 1
      /\ \A i \in 1..Len(q) : r[i] = q[i]
      /\ r[Len(q) + 1] = t
  OBVIOUS
<1> HIDE DEF r
<1>2. \A i \in 1..Len(r) : i \in 1..Len(q) \/ i = Len(q) + 1
  BY <1>1
<1>3. Len(q) + 1 \in 1..Len(r) /\ \A i \in 1..Len(q) : i \in 1..Len(r)
  BY <1>1
<1>4. \A x : x \in Members(r) <=> x \in Members(q) \/ x = t
  BY <1>1, <1>2, <1>3, MembersFacts
<1>5. ASSUME Distinct(q), t \notin Members(q) PROVE Distinct(r)
  <2>1. \A i \in 1..Len(q) : q[i] # t
    BY <1>5 DEF Members
  <2>2. QED
    BY <1>1, <1>2, <1>5, <2>1 DEF Distinct
<1>6. QED
  BY <1>1, <1>4, <1>5 DEF r

\* One list behind the other.
LEMMA ConcatFacts ==
  ASSUME NEW S, NEW p \in Seq(S), NEW q \in Seq(S)
  PROVE  /\ p \o q \in Seq(S)
         /\ Members(p \o q) = Members(p) \cup Members(q)
         /\ Distinct(p) /\ Distinct(q) /\ Members(p) \cap Members(q) = {}
              => Distinct(p \o q)
<1> DEFINE r == p \o q
<1>1. /\ r \in Seq(S) /\ Len(p) \in Nat /\ Len(q) \in Nat /\ Len(r) = Len(p) + Len(q)
      /\ \A i \in 1..Len(r) : r[i] = IF i <= Len(p) THEN p[i] ELSE q[i - Len(p)]
  BY ConcatProperties
<1> HIDE DEF r
<1>2. \A i \in 1..Len(r) : \/ i \in 1..Len(p) /\ r[i] = p[i]
                           \/ i - Len(p) \in 1..Len(q) /\ r[i] = q[i - Len(p)]
  BY <1>1
<1>3. /\ \A i \in 1..Len(p) : i \in 1..Len(r) /\ r[i] = p[i]
      /\ \A i \in 1..Len(q) : i + Len(p) \in 1..Len(r) /\ r[i + Len(p)] = q[i]
  <2>1. ASSUME NEW i \in 1..Len(p) PROVE i \in 1..Len(r) /\ r[i] = p[i]
    BY <1>1
  <2>2. ASSUME NEW i \in 1..Len(q)
        PROVE  i + Len(p) \in 1..Len(r) /\ r[i + Len(p)] = q[i]
    <3>1. /\ i + Len(p) \in 1..Len(r) /\ ~(i + Len(p) <= Len(p))
          /\ (i + Len(p)) - Len(p) = i
      BY <1>1
    <3>2. QED
      BY <1>1, <3>1
  <2>3. QED
    BY <2>1, <2>2
<1>4. \A x : x \in Members(r) <=> x \in Members(p) \/ x \in Members(q)
  <2>1. /\ \A x : x \in Members(r) <=> \E i \in 1..Len(r) : r[i] = x
        /\ \A x : x \in Members(p) <=> \E i \in 1..Len(p) : p[i] = x
        /\ \A x : x \in Members(q) <=> \E i \in 1..Len(q) : q[i] = x
    BY <1>1, MembersFacts
  <2>2. QED
    BY ZenonT(60), <1>2, <1>3, <2>1
<1>5. ASSUME Distinct(p), Distinct(q), Members(p) \cap Members(q) = {}
      PROVE  Distinct(r)
  <2>1. \A i \in 1..Len(p), j \in 1..Len(q) : p[i] # q[j]
    BY <1>5 DEF Members
  <2> SUFFICES ASSUME NEW i \in 1..Len(r), NEW j \in 1..Len(r), r[i] = r[j]
               PROVE  i = j
    BY DEF Distinct
  <2>2. CASE i \in 1..Len(p) /\ r[i] = p[i] /\ j \in 1..Len(p) /\ r[j] = p[j]
    BY <1>5, <2>2 DEF Distinct
  <2>3. CASE /\ i - Len(p) \in 1..Len(q) /\ r[i] = q[i - Len(p)]
             /\ j - Len(p) \in 1..Len(q) /\ r[j] = q[j - Len(p)]
    <3>1. i - Len(p) = j - Len(p)
      BY <1>5, <2>3 DEF Distinct
    <3>2. QED
      BY <1>1, <3>1
  <2>4. QED
    BY <1>2, <2>1, <2>2, <2>3
<1>6. QED
  BY <1>1, <1>4, <1>5 DEF r

\* A list cut in two.
LEMMA SplitFacts ==
  ASSUME NEW S, NEW q \in Seq(S), NEW n \in 0..Len(q), NEW value
  PROVE  LET a == SubSeq(q, 1, n)
             b == SubSeq(q, n + 1, Len(q))
         IN  /\ a \in Seq(S) /\ b \in Seq(S)
             /\ Len(a) = n /\ \A i \in 1..n : a[i] = q[i]
             /\ Members(q) = Members(a) \cup Members(b)
             /\ \A x : x \in Members(a) <=> \E i \in 1..n : q[i] = x
             /\ \A x : x \in Members(b) <=> \E i \in (n + 1)..Len(q) : q[i] = x
             /\ Distinct(q) => /\ Distinct(a) /\ Distinct(b)
                               /\ Members(a) \cap Members(b) = {}
             /\ Ordered(q, value) => Ordered(a, value) /\ Ordered(b, value)
<1> DEFINE a == SubSeq(q, 1, n)
           b == SubSeq(q, n + 1, Len(q))
<1>1. Len(q) \in Nat /\ n \in Nat /\ \A i \in 1..Len(q) : q[i] \in S
  OBVIOUS
<1>2. a \in Seq(S) /\ Len(a) = n /\ \A i \in 1..n : a[i] = q[i]
  BY <1>1, SubSeqProperties
<1>3. b \in Seq(S) /\ Len(b) = Len(q) - n /\ \A i \in 1..(Len(q) - n) : b[i] = q[n + i]
  BY <1>1, SubSeqProperties
<1> HIDE DEF a, b
<1>4. \A i \in 1..n : i \in 1..Len(q)
  BY <1>1
<1>5. \A i \in 1..(Len(q) - n) : n + i \in (n + 1)..Len(q) /\ n + i \in 1..Len(q)
  BY <1>1
<1>6. \A i \in (n + 1)..Len(q) : i - n \in 1..(Len(q) - n) /\ i \in 1..Len(q) /\ n + (i - n) = i
  BY <1>1
<1>7. \A x : x \in Members(a) <=> \E i \in 1..n : q[i] = x
  BY <1>2, MembersFacts
<1>8. \A x : x \in Members(b) <=> \E i \in (n + 1)..Len(q) : q[i] = x
  <2>1. \A x : x \in Members(b) <=> \E i \in 1..(Len(q) - n) : q[n + i] = x
    BY ZenonT(60), <1>3, MembersFacts
  <2>2. QED
    BY <1>5, <1>6, <2>1
<1>9. \A i \in 1..Len(q) : i \in 1..n \/ i \in (n + 1)..Len(q)
  BY <1>1
<1>10. Members(q) = Members(a) \cup Members(b)
  <2>1. \A x : x \in Members(q) <=> x \in Members(a) \/ x \in Members(b)
    BY <1>4, <1>6, <1>7, <1>8, <1>9, MembersFacts
  <2>2. QED
    BY <2>1
<1>11. ASSUME Distinct(q)
       PROVE  Distinct(a) /\ Distinct(b) /\ Members(a) \cap Members(b) = {}
  <2>1. Distinct(a)
    BY <1>2, <1>4, <1>11 DEF Distinct
  <2>2. ASSUME NEW i \in 1..Len(b), NEW j \in 1..Len(b), b[i] = b[j] PROVE i = j
    <3>1. n + i = n + j
      BY <1>3, <1>5, <1>11, <2>2 DEF Distinct
    <3>2. QED
      BY <1>1, <1>3, <3>1
  <2>3. ASSUME NEW x, x \in Members(a), x \in Members(b) PROVE FALSE
    <3>1. PICK i \in 1..n, j \in (n + 1)..Len(q) : q[i] = x /\ q[j] = x
      BY <1>7, <1>8, <2>3
    <3>2. i = j
      BY <1>4, <1>6, <1>11, <3>1 DEF Distinct
    <3>3. QED
      BY <1>1, <3>2
  <2>4. QED
    BY <2>1, <2>2, <2>3 DEF Distinct
<1>12. ASSUME Ordered(q, value) PROVE Ordered(a, value) /\ Ordered(b, value)
  <2>1. Ordered(a, value)
    BY <1>2, <1>4, <1>12 DEF Ordered
  <2>2. Ordered(b, value)
    BY <1>1, <1>3, <1>5, <1>12 DEF Ordered
  <2>3. QED
    BY <2>1, <2>2
<1>13. QED
  BY <1>2, <1>3, <1>7, <1>8, <1>10, <1>11, <1>12 DEF a, b

\* The head of a list and the others.
LEMMA HeadFacts ==
  ASSUME NEW S, NEW q \in Seq(S), q # <<>>
  PROVE  /\ Head(q) \in S /\ Head(q) \in Members(q) /\ Tail(q) \in Seq(S)
         /\ Members(q) = Members(Tail(q)) \cup {Head(q)}
         /\ Distinct(q) => Distinct(Tail(q)) /\ Head(q) \notin Members(Tail(q))
<1> DEFINE a == SubSeq(q, 1, 1)
           b == SubSeq(q, 2, Len(q))
<1>1. Len(q) \in Nat /\ Len(q) # 0 /\ Head(q) = q[1] /\ Head(q) \in S
  OBVIOUS
<1>2. Tail(q) = b
  BY TailIsSubSeq
<1>3. 1 \in 0..Len(q) /\ 1 + 1 = 2
  BY <1>1
<1>4. /\ a \in Seq(S) /\ b \in Seq(S)
      /\ Members(q) = Members(a) \cup Members(b)
      /\ \A x : x \in Members(a) <=> \E i \in 1..1 : q[i] = x
      /\ Distinct(q) => Distinct(b) /\ Members(a) \cap Members(b) = {}
  BY <1>3, SplitFacts
<1> HIDE DEF a, b
<1>5. \A x : x \in Members(a) <=> x = q[1]
  BY <1>4
<1>6. QED
  BY <1>1, <1>2, <1>4, <1>5

\* The round robin: the head goes to the end.
LEMMA RotateFacts ==
  ASSUME NEW S, NEW q \in Seq(S), q # <<>>, Distinct(q)
  PROVE  /\ Append(Tail(q), Head(q)) \in Seq(S)
         /\ Members(Append(Tail(q), Head(q))) = Members(q)
         /\ Distinct(Append(Tail(q), Head(q)))
<1>1. /\ Head(q) \in S /\ Tail(q) \in Seq(S)
      /\ Members(q) = Members(Tail(q)) \cup {Head(q)}
      /\ Distinct(Tail(q)) /\ Head(q) \notin Members(Tail(q))
  BY HeadFacts
<1> DEFINE l == Tail(q)
           h == Head(q)
<1>2. l \in Seq(S) /\ h \in S /\ Distinct(l) /\ h \notin Members(l)
  BY <1>1
<1> HIDE DEF l, h
<1>3. /\ Append(l, h) \in Seq(S) /\ Members(Append(l, h)) = Members(l) \cup {h}
      /\ Distinct(Append(l, h))
  BY <1>2, AppendFacts
<1>4. QED
  BY <1>1, <1>3 DEF l, h

\* The items at the head of a list that are not beyond the limit.
LEMMA UpToFacts ==
  ASSUME NEW S, NEW q \in Seq(S), NEW value \in [S -> Int], NEW limit \in Int
  PROVE  /\ UpTo(q, value, limit) \in 0..Len(q)
         /\ \A i \in 1..UpTo(q, value, limit) : value[q[i]] <= limit
         /\ UpTo(q, value, limit) < Len(q) =>
              value[q[UpTo(q, value, limit) + 1]] > limit
<1> DEFINE P(n) == /\ \A i \in 1..n : value[q[i]] <= limit
                   /\ n < Len(q) => value[q[n + 1]] > limit
           Stop == {n \in 0..Len(q) : n < Len(q) => value[q[n + 1]] > limit}
<1>1. Len(q) \in Nat /\ \A i \in 1..Len(q) : value[q[i]] \in Int
  OBVIOUS
<1>2. Len(q) \in Stop /\ Stop \subseteq Nat
  BY <1>1
<1>3. PICK n \in Stop : \A m \in Stop : n <= m
  BY <1>2, LeastElement
<1>9. /\ n \in 0..Len(q)
      /\ n < Len(q) => value[q[n + 1]] > limit
      /\ \A m \in 0..Len(q) : (m < Len(q) => value[q[m + 1]] > limit) => n <= m
  BY <1>3
<1> HIDE DEF Stop
<1>4. ASSUME NEW i \in 1..n PROVE value[q[i]] <= limit
  <2>1. n \in 0..Len(q) /\ i - 1 \in 0..Len(q) /\ i \in 1..Len(q) /\ i - 1 < n
    BY <1>1, <1>9
  <2>2. (i - 1) + 1 = i /\ ~(n <= i - 1)
    BY <2>1
  <2>3. ~(value[q[i]] > limit)
    BY <1>9, <2>1, <2>2
  <2>4. QED
    BY <1>1, <2>1, <2>3
<1>5. \E m \in 0..Len(q) : P(m)
  BY <1>4, <1>9
<1>6. UpTo(q, value, limit) = CHOOSE m \in 0..Len(q) : P(m)
  BY DEF UpTo
<1> HIDE DEF P
<1> DEFINE u == UpTo(q, value, limit)
<1>7. u \in 0..Len(q) /\ P(u)
  BY <1>5, <1>6
<1> HIDE DEF u
<1>8. /\ u \in 0..Len(q)
      /\ \A i \in 1..u : value[q[i]] <= limit
      /\ u < Len(q) => value[q[u + 1]] > limit
  BY <1>7 DEF P
<1>10. QED
  BY <1>8 DEF u

\* Two ordered lists, one behind the other.
LEMMA OrderedConcat ==
  ASSUME NEW S, NEW p \in Seq(S), NEW q \in Seq(S), NEW value,
         Ordered(p, value), Ordered(q, value),
         \A x \in Members(p), y \in Members(q) : value[x] <= value[y]
  PROVE  Ordered(p \o q, value)
<1> DEFINE r == p \o q
<1>1. /\ r \in Seq(S) /\ Len(p) \in Nat /\ Len(q) \in Nat /\ Len(r) = Len(p) + Len(q)
      /\ \A i \in 1..Len(r) : r[i] = IF i <= Len(p) THEN p[i] ELSE q[i - Len(p)]
  BY ConcatProperties
<1> HIDE DEF r
<1>2. \A i \in 1..Len(r) : \/ i \in 1..Len(p) /\ r[i] = p[i] /\ r[i] \in Members(p)
                           \/ /\ i - Len(p) \in 1..Len(q) /\ r[i] = q[i - Len(p)]
                              /\ r[i] \in Members(q) /\ i > Len(p)
  BY <1>1 DEF Members
<1> SUFFICES ASSUME NEW i \in 1..Len(r), NEW j \in 1..Len(r), i < j
             PROVE  value[r[i]] <= value[r[j]]
  BY DEF Ordered, r
<1>3. CASE i \in 1..Len(p) /\ r[i] = p[i] /\ j \in 1..Len(p) /\ r[j] = p[j]
  BY <1>3 DEF Ordered
<1>4. CASE /\ i - Len(p) \in 1..Len(q) /\ r[i] = q[i - Len(p)]
           /\ j - Len(p) \in 1..Len(q) /\ r[j] = q[j - Len(p)]
  <2>1. i - Len(p) < j - Len(p)
    BY <1>1
  <2>2. QED
    BY <1>4, <2>1 DEF Ordered
<1>5. CASE r[i] \in Members(p) /\ r[j] \in Members(q)
  BY <1>5
<1>6. CASE i > Len(p) /\ j \in 1..Len(p)
  BY <1>1, <1>6
<1>7. QED
  BY <1>2, <1>3, <1>4, <1>5, <1>6

\* vListInsert keeps a list in the order of its values.
LEMMA InsertFacts ==
  ASSUME NEW S, NEW q \in Seq(S), NEW t \in S, NEW value \in [S -> Int],
         Distinct(q), Ordered(q, value), t \notin Members(q)
  PROVE  /\ vListInsert(q, t, value) \in Seq(S)
         /\ Members(vListInsert(q, t, value)) = Members(q) \cup {t}
         /\ Distinct(vListInsert(q, t, value))
         /\ Ordered(vListInsert(q, t, value), value)
<1> DEFINE n == UpTo(q, value, value[t])
           a == SubSeq(q, 1, n)
           b == SubSeq(q, n + 1, Len(q))
           o == <<t>>
           p == a \o o
           r == p \o b
<1>0. Len(q) \in Nat /\ value[t] \in Int /\ \A i \in 1..Len(q) : value[q[i]] \in Int
  OBVIOUS
<1>1. /\ n \in 0..Len(q) /\ n \in Nat
      /\ \A i \in 1..n : value[q[i]] <= value[t]
      /\ n < Len(q) => value[q[n + 1]] > value[t]
  <2> DEFINE limit == value[t]
  <2>1. limit \in Int
    BY <1>0
  <2> HIDE DEF limit
  <2>2. /\ UpTo(q, value, limit) \in 0..Len(q)
        /\ \A i \in 1..UpTo(q, value, limit) : value[q[i]] <= limit
        /\ UpTo(q, value, limit) < Len(q) =>
             value[q[UpTo(q, value, limit) + 1]] > limit
    BY <2>1, UpToFacts
  <2>3. QED
    BY <1>0, <2>2 DEF limit
<1>2. vListInsert(q, t, value) = r
  <2>1. (n + 1) - 1 = n
    BY <1>1
  <2> HIDE DEF n
  <2>2. QED
    BY <2>1 DEF vListInsert, InsertAt, n
<1> HIDE DEF n
<1>3. /\ a \in Seq(S) /\ b \in Seq(S) /\ Members(q) = Members(a) \cup Members(b)
      /\ \A x : x \in Members(a) <=> \E i \in 1..n : q[i] = x
      /\ \A x : x \in Members(b) <=> \E i \in (n + 1)..Len(q) : q[i] = x
      /\ Distinct(a) /\ Distinct(b) /\ Members(a) \cap Members(b) = {}
      /\ Ordered(a, value) /\ Ordered(b, value)
  BY <1>1, SplitFacts
<1> HIDE DEF a, b
<1>4. o \in Seq(S) /\ Len(o) = 1 /\ o[1] = t /\ 1..1 = {1}
  OBVIOUS
<1> HIDE DEF o
<1>5. Members(o) = {t} /\ Distinct(o) /\ Ordered(o, value)
  <2>1. \A x : x \in Members(o) <=> x = t
    BY <1>4, MembersFacts
  <2>2. Distinct(o) /\ Ordered(o, value)
    BY <1>4 DEF Distinct, Ordered
  <2>3. QED
    BY <2>1, <2>2
<1>11. /\ p \in Seq(S) /\ Members(p) = Members(a) \cup {t} /\ Distinct(p)
  <2>1. Members(a) \cap Members(o) = {}
    BY <1>3, <1>5
  <2>2. QED
    BY <1>3, <1>4, <1>5, <2>1, ConcatFacts
<1>6. /\ \A x \in Members(a) : value[x] \in Int /\ value[x] <= value[t]
      /\ \A x \in Members(b) : value[x] \in Int /\ value[x] > value[t]
  <2>1. ASSUME NEW x \in Members(a) PROVE value[x] \in Int /\ value[x] <= value[t]
    <3>1. PICK i \in 1..n : q[i] = x
      BY <1>3
    <3>2. i \in 1..Len(q)
      BY <1>0, <1>1
    <3>3. QED
      BY <1>0, <1>1, <3>1, <3>2
  <2>2. ASSUME NEW x \in Members(b) PROVE value[x] \in Int /\ value[x] > value[t]
    <3>1. PICK i \in (n + 1)..Len(q) : q[i] = x
      BY <1>3
    <3>2. i \in 1..Len(q) /\ n + 1 \in 1..Len(q) /\ n < Len(q)
      BY <1>0, <1>1
    <3>3. CASE i = n + 1
      BY <1>0, <1>1, <3>1, <3>2, <3>3
    <3>4. CASE i > n + 1
      <4>1. value[q[n + 1]] <= value[q[i]]
        BY <1>1, <3>2, <3>4 DEF Ordered
      <4>2. QED
        BY <1>0, <1>1, <3>1, <3>2, <4>1
    <3>5. QED
      BY <1>1, <3>2, <3>3, <3>4
  <2>3. QED
    BY <2>1, <2>2
<1>7. Ordered(p, value)
  <2>1. \A x \in Members(a), y \in Members(o) : value[x] <= value[y]
    BY <1>5, <1>6
  <2>2. QED
    BY <1>3, <1>4, <1>5, <2>1, OrderedConcat
<1> HIDE DEF p
<1>8. r \in Seq(S) /\ Members(r) = Members(q) \cup {t} /\ Distinct(r)
  <2>1. Members(p) \cap Members(b) = {}
    BY <1>3, <1>11
  <2>2. QED
    BY <1>3, <1>11, <2>1, ConcatFacts
<1>9. Ordered(r, value)
  <2>1. \A x \in Members(p), y \in Members(b) : value[x] <= value[y]
    BY <1>0, <1>6, <1>11
  <2>2. QED
    BY <1>3, <1>7, <1>11, <2>1, OrderedConcat
<1>10. QED
  BY <1>2, <1>8, <1>9
-----------------------------------------------------------------------------
(* Kernel states, and what the operations on them do.                      *)

KernelRecord ==
  [current : Task \cup {Idle}, ready : Seq(Task), delayed : Seq(Task),
   overflow : Seq(Task), blocked : SUBSET Task, pending : Seq(Task),
   waiting : [Sem -> Seq(Task)], wake : [Task -> 0..(TickMod - 1)],
   tick : 0..(TickMod - 1), overflows : 0..(OverflowMod - 1),
   suspended : BOOLEAN, missedTicks : Int, missedYield : BOOLEAN,
   messages : [Sem -> 0..1], txLock : [Sem -> -1..1]]

ReadyOf(s) == Members(s.ready)
DelayedOf(s) == Members(s.delayed)
OverflowOf(s) == Members(s.overflow)
PendingOf(s) == Members(s.pending)
WaitingOf(s, m) == Members(s.waiting[m])

(* Every task is in exactly one list for its state; the delayed lists are  *)
(* in the order of the wake-up times.                                      *)
TaskLists(s) ==
  /\ Distinct(s.ready) /\ Distinct(s.delayed) /\ Distinct(s.overflow)
  /\ Ordered(s.delayed, s.wake) /\ Ordered(s.overflow, s.wake)
  /\ Task \subseteq ReadyOf(s) \cup DelayedOf(s) \cup OverflowOf(s) \cup s.blocked
  /\ ReadyOf(s) \cap DelayedOf(s) = {} /\ ReadyOf(s) \cap OverflowOf(s) = {}
  /\ ReadyOf(s) \cap s.blocked = {} /\ DelayedOf(s) \cap OverflowOf(s) = {}
  /\ DelayedOf(s) \cap s.blocked = {} /\ OverflowOf(s) \cap s.blocked = {}

(* The wake-up times lie ahead, those of the overflow list behind the wrap.*)
StateLists(s) ==
  /\ TaskLists(s)
  /\ \A t \in DelayedOf(s) : s.tick < s.wake[t]
  /\ \A t \in OverflowOf(s) : s.wake[t] < s.tick

(* A task is in at most one event list, or pending.                        *)
EventLists(s) ==
  /\ Distinct(s.pending) /\ \A m \in Sem : Distinct(s.waiting[m])
  /\ \A m \in Sem : WaitingOf(s, m) \cap PendingOf(s) = {}
  /\ \A m, n \in Sem : m # n => WaitingOf(s, m) \cap WaitingOf(s, n) = {}

(* What is in an event list or pending is not ready.                       *)
Apart(s) ==
  /\ PendingOf(s) \cap ReadyOf(s) = {}
  /\ \A m \in Sem : WaitingOf(s, m) \cap ReadyOf(s) = {}

SameEvents(r, s) == r.pending = s.pending /\ r.waiting = s.waiting
SameClock(r, s) == r.tick = s.tick /\ r.overflows = s.overflows
SameFlags(r, s) == /\ r.current = s.current /\ r.suspended = s.suspended
                   /\ r.missedTicks = s.missedTicks /\ r.missedYield = s.missedYield
SameSems(r, s) == r.messages = s.messages /\ r.txLock = s.txLock
SameStates(r, s) == /\ r.ready = s.ready /\ r.delayed = s.delayed /\ r.overflow = s.overflow
                    /\ r.blocked = s.blocked /\ r.wake = s.wake

\* The clocks count from zero, and only tasks are in lists.
LEMMA Constants ==
  /\ TickMod \in Nat /\ TickMod > 2 /\ OverflowMod \in Nat /\ OverflowMod > 1
  /\ Idle \notin Task /\ IsFiniteSet(Task) /\ Task # {}
  /\ MaxDelay = TickMod - 1 /\ MaxMissed \in Nat /\ MaxAge \in Nat
BY KernelAssumption DEF MaxDelay

\* The sums and differences of the 32 bit clock.
LEMMA ModSum ==
  ASSUME NEW N \in Nat, N > 1, NEW a \in Int, 0 <= a, a < 2 * N
  PROVE  a % N = IF a < N THEN a ELSE a - N
<1>1. CASE a < N
  BY <1>1
<1>2. CASE a >= N
  BY <1>2
<1>3. QED
  BY <1>1, <1>2

\* The 32 bit difference of two readings of the clock.
LEMMA ModDifference ==
  ASSUME NEW N \in Nat, N > 1, NEW a \in Int, -N <= a, a < N
  PROVE  a % N = IF a < 0 THEN a + N ELSE a
<1>1. CASE a < 0
  BY <1>1
<1>2. CASE a >= 0
  BY <1>2
<1>3. QED
  BY <1>1, <1>2

\* The fields of a kernel state, and that only tasks are in lists.
LEMMA FieldTypes ==
  ASSUME NEW s \in KernelRecord
  PROVE  /\ s.current \in Task \cup {Idle} /\ s.ready \in Seq(Task)
         /\ s.delayed \in Seq(Task) /\ s.overflow \in Seq(Task)
         /\ s.blocked \subseteq Task /\ s.pending \in Seq(Task)
         /\ s.waiting \in [Sem -> Seq(Task)] /\ s.wake \in [Task -> 0..(TickMod - 1)]
         /\ s.tick \in 0..(TickMod - 1) /\ s.overflows \in 0..(OverflowMod - 1)
         /\ s.suspended \in BOOLEAN /\ s.missedTicks \in Int /\ s.missedYield \in BOOLEAN
         /\ s.messages \in [Sem -> 0..1] /\ s.txLock \in [Sem -> -1..1]
         /\ s.wake \in [Task -> Int] /\ s.tick \in Int
         /\ ReadyOf(s) \subseteq Task /\ DelayedOf(s) \subseteq Task
         /\ OverflowOf(s) \subseteq Task /\ PendingOf(s) \subseteq Task
         /\ \A m \in Sem : s.waiting[m] \in Seq(Task) /\ WaitingOf(s, m) \subseteq Task
<1>1. /\ s.current \in Task \cup {Idle} /\ s.ready \in Seq(Task)
      /\ s.delayed \in Seq(Task) /\ s.overflow \in Seq(Task)
      /\ s.blocked \subseteq Task /\ s.pending \in Seq(Task)
      /\ s.waiting \in [Sem -> Seq(Task)] /\ s.wake \in [Task -> 0..(TickMod - 1)]
      /\ s.tick \in 0..(TickMod - 1) /\ s.overflows \in 0..(OverflowMod - 1)
      /\ s.suspended \in BOOLEAN /\ s.missedTicks \in Int /\ s.missedYield \in BOOLEAN
      /\ s.messages \in [Sem -> 0..1] /\ s.txLock \in [Sem -> -1..1]
  BY DEF KernelRecord
<1>2. s.wake \in [Task -> Int] /\ s.tick \in Int
  <2>1. 0..(TickMod - 1) \subseteq Int
    BY Constants
  <2>2. QED
    BY <1>1, <2>1
<1>3. \A m \in Sem : s.waiting[m] \in Seq(Task)
  BY <1>1
<1>4. \A q \in Seq(Task) : Members(q) \subseteq Task
  BY MembersFacts
<1>5. QED
  BY <1>1, <1>2, <1>3, <1>4 DEF ReadyOf, DelayedOf, OverflowOf, PendingOf, WaitingOf

\* vListRemove of the xGenericListItem of some tasks.
LEMMA RemoveGenericFields ==
  ASSUME NEW s \in KernelRecord, NEW T
  PROVE  LET r == RemoveGenericItems(s, T)
         IN  /\ r.ready = Without(s.ready, T) /\ r.delayed = Without(s.delayed, T)
             /\ r.overflow = Without(s.overflow, T) /\ r.blocked = s.blocked \ T
             /\ r.wake = s.wake /\ SameEvents(r, s) /\ SameClock(r, s)
             /\ SameFlags(r, s) /\ SameSems(r, s)
BY DEF RemoveGenericItems, KernelRecord, SameEvents, SameClock, SameFlags, SameSems

\* vListRemove takes tasks off the list for their state and keeps the order.
LEMMA RemoveGenericFacts ==
  ASSUME NEW s \in KernelRecord, TaskLists(s), NEW T
  PROVE  LET r == RemoveGenericItems(s, T)
         IN  /\ r \in KernelRecord
             /\ ReadyOf(r) = ReadyOf(s) \ T /\ DelayedOf(r) = DelayedOf(s) \ T
             /\ OverflowOf(r) = OverflowOf(s) \ T /\ r.blocked = s.blocked \ T
             /\ Distinct(r.ready) /\ Distinct(r.delayed) /\ Distinct(r.overflow)
             /\ Ordered(r.delayed, r.wake) /\ Ordered(r.overflow, r.wake)
             /\ r.wake = s.wake /\ SameEvents(r, s) /\ SameClock(r, s)
             /\ SameFlags(r, s) /\ SameSems(r, s)
<1> DEFINE r == RemoveGenericItems(s, T)
<1>1. /\ r.ready = Without(s.ready, T) /\ r.delayed = Without(s.delayed, T)
      /\ r.overflow = Without(s.overflow, T) /\ r.blocked = s.blocked \ T
      /\ r.wake = s.wake /\ SameEvents(r, s) /\ SameClock(r, s)
      /\ SameFlags(r, s) /\ SameSems(r, s)
  BY RemoveGenericFields
<1>2. /\ s.ready \in Seq(Task) /\ s.delayed \in Seq(Task) /\ s.overflow \in Seq(Task)
      /\ Distinct(s.ready) /\ Distinct(s.delayed) /\ Distinct(s.overflow)
      /\ Ordered(s.delayed, s.wake) /\ Ordered(s.overflow, s.wake)
  BY FieldTypes DEF StateLists, TaskLists
<1> HIDE DEF r
<1>10. \A q \in Seq(Task) : Distinct(q) =>
        /\ Without(q, T) \in Seq(Task) /\ Members(Without(q, T)) = Members(q) \ T
        /\ Distinct(Without(q, T))
        /\ Ordered(q, s.wake) => Ordered(Without(q, T), s.wake)
  BY WithoutFacts
<1>3. /\ r.ready \in Seq(Task) /\ Members(r.ready) = Members(s.ready) \ T /\ Distinct(r.ready)
  BY <1>1, <1>2, <1>10
<1>4. /\ r.delayed \in Seq(Task) /\ Members(r.delayed) = Members(s.delayed) \ T
      /\ Distinct(r.delayed) /\ Ordered(r.delayed, s.wake)
  BY <1>1, <1>2, <1>10
<1>5. /\ r.overflow \in Seq(Task) /\ Members(r.overflow) = Members(s.overflow) \ T
      /\ Distinct(r.overflow) /\ Ordered(r.overflow, s.wake)
  BY <1>1, <1>2, <1>10
<1>6. r \in KernelRecord
  BY <1>1, <1>3, <1>4, <1>5 DEF r, RemoveGenericItems, KernelRecord
<1>7. QED
  BY <1>1, <1>3, <1>4, <1>5, <1>6 DEF r, ReadyOf, DelayedOf, OverflowOf

\* The values on a list decide about its order.
LEMMA SameOrder ==
  ASSUME NEW S, NEW q \in Seq(S), NEW v, NEW w, Ordered(q, v),
         \A x \in Members(q) : v[x] = w[x]
  PROVE  Ordered(q, w)
<1>1. \A i \in 1..Len(q) : v[q[i]] = w[q[i]]
  BY DEF Members
<1>2. QED
  BY <1>1 DEF Ordered

\* A task goes to the delayed list its wake-up time belongs in.
LEMMA DelayFacts ==
  ASSUME NEW s \in KernelRecord, StateLists(s), NEW t \in Task,
         NEW wake \in 0..(TickMod - 1), wake # s.tick
  PROVE  LET r == AddToDelayedList(s, t, wake)
         IN  /\ r \in KernelRecord /\ StateLists(r)
             /\ ReadyOf(r) = ReadyOf(s) \ {t} /\ r.blocked = s.blocked \ {t}
             /\ DelayedOf(r) = (DelayedOf(s) \ {t}) \cup (IF wake < s.tick THEN {} ELSE {t})
             /\ OverflowOf(r) = (OverflowOf(s) \ {t}) \cup (IF wake < s.tick THEN {t} ELSE {})
             /\ r.wake = [s.wake EXCEPT ![t] = wake]
             /\ SameEvents(r, s) /\ SameClock(r, s) /\ SameFlags(r, s) /\ SameSems(r, s)
<1> DEFINE g == RemoveGenericItems(s, {t})
           h == [g EXCEPT !.wake[t] = wake]
           r == AddToDelayedList(s, t, wake)
<1>1. /\ g \in KernelRecord
      /\ ReadyOf(g) = ReadyOf(s) \ {t} /\ DelayedOf(g) = DelayedOf(s) \ {t}
      /\ OverflowOf(g) = OverflowOf(s) \ {t} /\ g.blocked = s.blocked \ {t}
      /\ Distinct(g.ready) /\ Distinct(g.delayed) /\ Distinct(g.overflow)
      /\ Ordered(g.delayed, g.wake) /\ Ordered(g.overflow, g.wake)
      /\ g.wake = s.wake /\ SameEvents(g, s) /\ SameClock(g, s)
      /\ SameFlags(g, s) /\ SameSems(g, s)
  BY RemoveGenericFacts DEF StateLists
<1>2. r = IF wake < s.tick THEN [h EXCEPT !.overflow = vListInsert(@, t, h.wake)]
          ELSE [h EXCEPT !.delayed = vListInsert(@, t, h.wake)]
  BY DEF AddToDelayedList
<1> HIDE DEF g, r
<1>3. /\ h \in KernelRecord /\ h.wake = [s.wake EXCEPT ![t] = wake]
      /\ h.ready = g.ready /\ h.delayed = g.delayed /\ h.overflow = g.overflow
      /\ h.blocked = g.blocked
      /\ SameEvents(h, s) /\ SameClock(h, s) /\ SameFlags(h, s) /\ SameSems(h, s)
  BY <1>1 DEF KernelRecord, SameEvents, SameClock, SameFlags, SameSems
<1> HIDE DEF h
<1>4. /\ h.delayed \in Seq(Task) /\ h.overflow \in Seq(Task) /\ h.wake \in [Task -> Int]
      /\ s.wake \in [Task -> Int] /\ s.tick \in Int /\ wake \in Int
      /\ h.wake[t] = wake /\ \A x \in Task : x # t => h.wake[x] = s.wake[x]
  BY <1>3, FieldTypes
<1>5. /\ t \notin Members(h.delayed) /\ t \notin Members(h.overflow)
      /\ Members(h.delayed) \subseteq Task /\ Members(h.overflow) \subseteq Task
      /\ Distinct(h.delayed) /\ Distinct(h.overflow)
      /\ Ordered(h.delayed, s.wake) /\ Ordered(h.overflow, s.wake)
  BY <1>1, <1>3, <1>4, MembersFacts DEF DelayedOf, OverflowOf
<1>6. Ordered(h.delayed, h.wake) /\ Ordered(h.overflow, h.wake)
  BY <1>4, <1>5, SameOrder
<1>7. CASE wake < s.tick
  <2>1. /\ vListInsert(h.overflow, t, h.wake) \in Seq(Task)
        /\ Members(vListInsert(h.overflow, t, h.wake)) = Members(h.overflow) \cup {t}
        /\ Distinct(vListInsert(h.overflow, t, h.wake))
        /\ Ordered(vListInsert(h.overflow, t, h.wake), h.wake)
    BY <1>4, <1>5, <1>6, InsertFacts
  <2>2. /\ r \in KernelRecord /\ r.overflow = vListInsert(h.overflow, t, h.wake)
        /\ r.ready = h.ready /\ r.delayed = h.delayed /\ r.blocked = h.blocked
        /\ r.wake = h.wake
        /\ SameEvents(r, h) /\ SameClock(r, h) /\ SameFlags(r, h) /\ SameSems(r, h)
    BY <1>2, <1>3, <1>7, <2>1 DEF KernelRecord, SameEvents, SameClock, SameFlags, SameSems
  <2>3. /\ ReadyOf(r) = ReadyOf(s) \ {t} /\ r.blocked = s.blocked \ {t}
        /\ DelayedOf(r) = DelayedOf(s) \ {t}
        /\ OverflowOf(r) = (OverflowOf(s) \ {t}) \cup {t}
        /\ SameEvents(r, s) /\ SameClock(r, s) /\ SameFlags(r, s) /\ SameSems(r, s)
    BY <1>1, <1>3, <2>1, <2>2
    DEF ReadyOf, DelayedOf, OverflowOf, SameEvents, SameClock, SameFlags, SameSems
  <2>4. /\ Distinct(r.ready) /\ Distinct(r.delayed) /\ Distinct(r.overflow)
        /\ Ordered(r.delayed, r.wake) /\ Ordered(r.overflow, r.wake)
    BY <1>1, <1>3, <1>5, <1>6, <2>1, <2>2
  <2>5. /\ \A x \in DelayedOf(r) : r.tick < r.wake[x]
        /\ \A x \in OverflowOf(r) : r.wake[x] < r.tick
    BY <1>3, <1>4, <1>7, <2>2, <2>3, FieldTypes DEF StateLists, TaskLists, SameClock
  <2>6. StateLists(r)
    BY <2>3, <2>4, <2>5 DEF StateLists, TaskLists
  <2>7. QED
    BY <1>3, <1>7, <2>2, <2>3, <2>6 DEF r
<1>8. CASE ~(wake < s.tick)
  <2>1. /\ vListInsert(h.delayed, t, h.wake) \in Seq(Task)
        /\ Members(vListInsert(h.delayed, t, h.wake)) = Members(h.delayed) \cup {t}
        /\ Distinct(vListInsert(h.delayed, t, h.wake))
        /\ Ordered(vListInsert(h.delayed, t, h.wake), h.wake)
    BY <1>4, <1>5, <1>6, InsertFacts
  <2>2. /\ r \in KernelRecord /\ r.delayed = vListInsert(h.delayed, t, h.wake)
        /\ r.ready = h.ready /\ r.overflow = h.overflow /\ r.blocked = h.blocked
        /\ r.wake = h.wake
        /\ SameEvents(r, h) /\ SameClock(r, h) /\ SameFlags(r, h) /\ SameSems(r, h)
    BY <1>2, <1>3, <1>8, <2>1 DEF KernelRecord, SameEvents, SameClock, SameFlags, SameSems
  <2>3. /\ ReadyOf(r) = ReadyOf(s) \ {t} /\ r.blocked = s.blocked \ {t}
        /\ OverflowOf(r) = OverflowOf(s) \ {t}
        /\ DelayedOf(r) = (DelayedOf(s) \ {t}) \cup {t}
        /\ SameEvents(r, s) /\ SameClock(r, s) /\ SameFlags(r, s) /\ SameSems(r, s)
    BY <1>1, <1>3, <2>1, <2>2
    DEF ReadyOf, DelayedOf, OverflowOf, SameEvents, SameClock, SameFlags, SameSems
  <2>4. /\ Distinct(r.ready) /\ Distinct(r.delayed) /\ Distinct(r.overflow)
        /\ Ordered(r.delayed, r.wake) /\ Ordered(r.overflow, r.wake)
    BY <1>1, <1>3, <1>5, <1>6, <2>1, <2>2
  <2>5. /\ \A x \in DelayedOf(r) : r.tick < r.wake[x]
        /\ \A x \in OverflowOf(r) : r.wake[x] < r.tick
    BY SMTT(60), <1>3, <1>4, <1>8, <2>2, <2>3, FieldTypes DEF StateLists, TaskLists, SameClock
  <2>6. StateLists(r)
    BY <2>3, <2>4, <2>5 DEF StateLists, TaskLists
  <2>7. QED
    BY <1>3, <1>8, <2>2, <2>3, <2>6 DEF r
<1>9. QED
  BY <1>7, <1>8

\* A task that waits without an end is suspended.
LEMMA BlockFacts ==
  ASSUME NEW s \in KernelRecord, StateLists(s), NEW t \in Task
  PROVE  LET g == RemoveGenericItems(s, {t})
             r == [g EXCEPT !.blocked = @ \cup {t}]
         IN  /\ r \in KernelRecord /\ StateLists(r)
             /\ ReadyOf(r) = ReadyOf(s) \ {t} /\ r.blocked = s.blocked \cup {t}
             /\ DelayedOf(r) = DelayedOf(s) \ {t} /\ OverflowOf(r) = OverflowOf(s) \ {t}
             /\ r.wake = s.wake
             /\ SameEvents(r, s) /\ SameClock(r, s) /\ SameFlags(r, s) /\ SameSems(r, s)
<1> DEFINE g == RemoveGenericItems(s, {t})
           r == [g EXCEPT !.blocked = @ \cup {t}]
<1>1. /\ g \in KernelRecord
      /\ ReadyOf(g) = ReadyOf(s) \ {t} /\ DelayedOf(g) = DelayedOf(s) \ {t}
      /\ OverflowOf(g) = OverflowOf(s) \ {t} /\ g.blocked = s.blocked \ {t}
      /\ Distinct(g.ready) /\ Distinct(g.delayed) /\ Distinct(g.overflow)
      /\ Ordered(g.delayed, g.wake) /\ Ordered(g.overflow, g.wake)
      /\ g.wake = s.wake /\ SameEvents(g, s) /\ SameClock(g, s)
      /\ SameFlags(g, s) /\ SameSems(g, s)
  BY RemoveGenericFacts DEF StateLists
<1> HIDE DEF g
<1>2. /\ r \in KernelRecord /\ r.ready = g.ready /\ r.delayed = g.delayed
      /\ r.overflow = g.overflow /\ r.blocked = g.blocked \cup {t} /\ r.wake = g.wake
      /\ SameEvents(r, g) /\ SameClock(r, g) /\ SameFlags(r, g) /\ SameSems(r, g)
  BY <1>1 DEF KernelRecord, SameEvents, SameClock, SameFlags, SameSems
<1> HIDE DEF r
<1>3. /\ ReadyOf(r) = ReadyOf(s) \ {t} /\ r.blocked = s.blocked \cup {t}
      /\ DelayedOf(r) = DelayedOf(s) \ {t} /\ OverflowOf(r) = OverflowOf(s) \ {t}
      /\ SameEvents(r, s) /\ SameClock(r, s) /\ SameFlags(r, s) /\ SameSems(r, s)
  BY <1>1, <1>2
  DEF ReadyOf, DelayedOf, OverflowOf, SameEvents, SameClock, SameFlags, SameSems
<1>4. StateLists(r)
  BY <1>1, <1>2, <1>3 DEF StateLists, TaskLists, SameClock
<1>5. QED
  BY <1>1, <1>2, <1>3, <1>4 DEF r, g

\* The next task is a ready one, unless the scheduler is suspended.
LEMMA SwitchFacts ==
  ASSUME NEW s \in KernelRecord, StateLists(s)
  PROVE  LET r == vTaskSwitchContext(s)
         IN  /\ r \in KernelRecord /\ StateLists(r)
             /\ ReadyOf(r) = ReadyOf(s) /\ DelayedOf(r) = DelayedOf(s)
             /\ OverflowOf(r) = OverflowOf(s) /\ r.blocked = s.blocked /\ r.wake = s.wake
             /\ SameEvents(r, s) /\ SameClock(r, s) /\ SameSems(r, s)
             /\ r.suspended = s.suspended /\ r.missedTicks = s.missedTicks
             /\ s.suspended => r.current = s.current /\ r.missedYield
             /\ ~s.suspended => /\ r.missedYield = s.missedYield
                                /\ r.current \in ReadyOf(s) \cup {Idle}
<1> DEFINE r == vTaskSwitchContext(s)
<1>0. s.ready \in Seq(Task) /\ s.suspended \in BOOLEAN /\ Distinct(s.ready)
  BY FieldTypes DEF StateLists, TaskLists
<1>1. CASE s.suspended
  <2>1. /\ r \in KernelRecord /\ SameStates(r, s) /\ SameEvents(r, s) /\ SameClock(r, s)
        /\ SameSems(r, s) /\ r.suspended = s.suspended /\ r.missedTicks = s.missedTicks
        /\ r.current = s.current /\ r.missedYield = TRUE
    BY <1>1 DEF vTaskSwitchContext, KernelRecord, SameEvents, SameClock, SameSems, SameStates
  <2> HIDE DEF r
  <2>2. StateLists(r)
    BY <2>1 DEF StateLists, TaskLists, SameStates, SameClock, ReadyOf, DelayedOf, OverflowOf
  <2>3. QED
    BY <1>1, <2>1, <2>2 DEF r, SameStates, ReadyOf, DelayedOf, OverflowOf
<1>2. CASE ~s.suspended /\ s.ready = <<>>
  <2>1. /\ r \in KernelRecord /\ SameStates(r, s) /\ SameEvents(r, s) /\ SameClock(r, s)
        /\ SameSems(r, s) /\ r.suspended = s.suspended /\ r.missedTicks = s.missedTicks
        /\ r.current = Idle /\ r.missedYield = s.missedYield
    BY <1>2 DEF vTaskSwitchContext, KernelRecord, SameEvents, SameClock, SameSems, SameStates
  <2> HIDE DEF r
  <2>2. StateLists(r)
    BY <2>1 DEF StateLists, TaskLists, SameStates, SameClock, ReadyOf, DelayedOf, OverflowOf
  <2>3. QED
    BY <1>2, <2>1, <2>2 DEF r, SameStates, ReadyOf, DelayedOf, OverflowOf
<1>3. CASE ~s.suspended /\ s.ready # <<>>
  <2> DEFINE q == Append(Tail(s.ready), Head(s.ready))
  <2>1. /\ Head(s.ready) \in Task /\ Head(s.ready) \in Members(s.ready)
        /\ q \in Seq(Task) /\ Members(q) = Members(s.ready) /\ Distinct(q)
    BY <1>0, <1>3, HeadFacts, RotateFacts
  <2>2. r = [s EXCEPT !.current = Head(s.ready), !.ready = q]
    BY <1>3 DEF vTaskSwitchContext
  <2> HIDE DEF q, r
  <2>3. /\ r \in KernelRecord /\ r.ready = q /\ r.delayed = s.delayed
        /\ r.overflow = s.overflow /\ r.blocked = s.blocked /\ r.wake = s.wake
        /\ SameEvents(r, s) /\ SameClock(r, s) /\ SameSems(r, s)
        /\ r.suspended = s.suspended /\ r.missedTicks = s.missedTicks
        /\ r.current = Head(s.ready) /\ r.missedYield = s.missedYield
    BY <2>1, <2>2 DEF KernelRecord, SameEvents, SameClock, SameSems
  <2>4. ReadyOf(r) = ReadyOf(s) /\ DelayedOf(r) = DelayedOf(s) /\ OverflowOf(r) = OverflowOf(s)
    BY <2>1, <2>3 DEF ReadyOf, DelayedOf, OverflowOf
  <2>5. StateLists(r)
    BY <2>1, <2>3, <2>4 DEF StateLists, TaskLists, SameClock
  <2>6. QED
    BY <1>3, <2>1, <2>3, <2>4, <2>5 DEF r, ReadyOf
<1>4. QED
  BY <1>0, <1>1, <1>2, <1>3

\* vListRemove of the xEventListItem of some tasks.
LEMMA RemoveEventFacts ==
  ASSUME NEW s \in KernelRecord, EventLists(s), NEW T
  PROVE  LET r == RemoveEventItems(s, T)
         IN  /\ r \in KernelRecord /\ EventLists(r)
             /\ PendingOf(r) = PendingOf(s) \ T
             /\ \A m \in Sem : WaitingOf(r, m) = WaitingOf(s, m) \ T
             /\ SameStates(r, s) /\ SameClock(r, s) /\ SameFlags(r, s) /\ SameSems(r, s)
<1> DEFINE r == RemoveEventItems(s, T)
           w == [m \in Sem |-> Without(s.waiting[m], T)]
<1>1. \A q \in Seq(Task) : Distinct(q) =>
        /\ Without(q, T) \in Seq(Task) /\ Members(Without(q, T)) = Members(q) \ T
        /\ Distinct(Without(q, T))
  BY WithoutFacts
<1>2. /\ s.pending \in Seq(Task) /\ Distinct(s.pending)
      /\ \A m \in Sem : s.waiting[m] \in Seq(Task) /\ Distinct(s.waiting[m])
  BY FieldTypes DEF EventLists
<1>3. /\ w \in [Sem -> Seq(Task)]
      /\ \A m \in Sem : /\ w[m] = Without(s.waiting[m], T) /\ Distinct(w[m])
                        /\ Members(w[m]) = Members(s.waiting[m]) \ T
  BY <1>1, <1>2
<1>4. r = [s EXCEPT !.pending = Without(@, T), !.waiting = w]
  <2>1. s.waiting \in [Sem -> Seq(Task)]
    BY FieldTypes
  <2>2. QED
    BY DEF RemoveEventItems
<1> HIDE DEF r, w
<1>5. /\ r \in KernelRecord /\ r.pending = Without(s.pending, T) /\ r.waiting = w
      /\ SameStates(r, s) /\ SameClock(r, s) /\ SameFlags(r, s) /\ SameSems(r, s)
  BY <1>1, <1>2, <1>3, <1>4 DEF KernelRecord, SameStates, SameClock, SameFlags, SameSems
<1>6. /\ PendingOf(r) = PendingOf(s) \ T /\ Distinct(r.pending)
      /\ \A m \in Sem : WaitingOf(r, m) = WaitingOf(s, m) \ T /\ Distinct(r.waiting[m])
  BY <1>1, <1>2, <1>3, <1>5 DEF PendingOf, WaitingOf
<1>7. EventLists(r)
  BY <1>6 DEF EventLists
<1>8. QED
  BY <1>5, <1>6, <1>7 DEF r

\* prvAddTaskToReadyQueue of tasks that have left their lists.
LEMMA AddToReadyFacts ==
  ASSUME NEW s \in KernelRecord, NEW q \in Seq(Task)
  PROVE  LET r == AddToReadyQueue(s, q)
         IN  /\ r \in KernelRecord /\ r.ready = s.ready \o q
             /\ r.delayed = s.delayed /\ r.overflow = s.overflow /\ r.blocked = s.blocked
             /\ r.wake = [t \in Task |-> IF t \in Members(q) THEN 0 ELSE s.wake[t]]
             /\ SameEvents(r, s) /\ SameClock(r, s) /\ SameFlags(r, s) /\ SameSems(r, s)
<1> DEFINE r == AddToReadyQueue(s, q)
           p == s.ready \o q
           w == [t \in Task |-> IF t \in Members(q) THEN 0 ELSE s.wake[t]]
<1>1. p \in Seq(Task)
  BY FieldTypes, ConcatFacts
<1>2. w \in [Task -> 0..(TickMod - 1)]
  BY FieldTypes, Constants
<1>3. r = [s EXCEPT !.ready = p, !.wake = w]
  BY DEF AddToReadyQueue
<1> HIDE DEF p, w, r
<1>4. /\ r \in KernelRecord /\ r.ready = p /\ r.wake = w
      /\ r.delayed = s.delayed /\ r.overflow = s.overflow /\ r.blocked = s.blocked
      /\ SameEvents(r, s) /\ SameClock(r, s) /\ SameFlags(r, s) /\ SameSems(r, s)
  BY <1>1, <1>2, <1>3 DEF KernelRecord, SameEvents, SameClock, SameFlags, SameSems
<1>5. QED
  BY <1>4 DEF p, w, r

\* The tasks whose time has come are those at the head of the delayed list.
LEMMA ExpiredFacts ==
  ASSUME NEW s \in KernelRecord, Distinct(s.delayed), Ordered(s.delayed, s.wake)
  PROVE  LET n == UpTo(s.delayed, s.wake, s.tick)
             a == SubSeq(s.delayed, 1, n)
             b == SubSeq(s.delayed, n + 1, Len(s.delayed))
         IN  /\ a \in Seq(Task) /\ b \in Seq(Task) /\ n \in Nat
             /\ Members(a) = {t \in DelayedOf(s) : s.wake[t] <= s.tick}
             /\ Members(b) = {t \in DelayedOf(s) : s.tick < s.wake[t]}
             /\ Distinct(a) /\ Distinct(b) /\ Ordered(b, s.wake)
             /\ n = 0 => Members(a) = {}
<1> DEFINE q == s.delayed
           n == UpTo(s.delayed, s.wake, s.tick)
           a == SubSeq(q, 1, n)
           b == SubSeq(q, n + 1, Len(q))
<1>1. q \in Seq(Task) /\ s.wake \in [Task -> Int] /\ s.tick \in Int
  BY FieldTypes
<1>2. Len(q) \in Nat /\ \A i \in 1..Len(q) : q[i] \in Task /\ s.wake[q[i]] \in Int
  BY <1>1
<1>3. /\ n \in 0..Len(q)
      /\ \A i \in 1..n : s.wake[q[i]] <= s.tick
      /\ n < Len(q) => s.wake[q[n + 1]] > s.tick
  <2> DEFINE value == s.wake
             limit == s.tick
  <2>1. value \in [Task -> Int] /\ limit \in Int /\ q \in Seq(Task)
    BY <1>1
  <2> HIDE DEF value, limit, q, n
  <2>2. /\ UpTo(q, value, limit) \in 0..Len(q)
        /\ \A i \in 1..UpTo(q, value, limit) : value[q[i]] <= limit
        /\ UpTo(q, value, limit) < Len(q) =>
             value[q[UpTo(q, value, limit) + 1]] > limit
    BY <2>1, UpToFacts
  <2>3. n = UpTo(q, value, limit)
    BY DEF n, q, value, limit
  <2>4. QED
    BY <2>2, <2>3 DEF value, limit
<1> HIDE DEF n
<1>4. /\ a \in Seq(Task) /\ b \in Seq(Task)
      /\ Members(q) = Members(a) \cup Members(b)
      /\ \A x : x \in Members(a) <=> \E i \in 1..n : q[i] = x
      /\ \A x : x \in Members(b) <=> \E i \in (n + 1)..Len(q) : q[i] = x
      /\ Distinct(a) /\ Distinct(b) /\ Ordered(b, s.wake)
  <2> DEFINE w == s.wake
  <2>1. q \in Seq(Task) /\ n \in 0..Len(q) /\ Distinct(q) /\ Ordered(q, w)
    BY <1>1, <1>3
  <2> HIDE DEF q, w
  <2>2. /\ a \in Seq(Task) /\ b \in Seq(Task)
        /\ Members(q) = Members(a) \cup Members(b)
        /\ \A x : x \in Members(a) <=> \E i \in 1..n : q[i] = x
        /\ \A x : x \in Members(b) <=> \E i \in (n + 1)..Len(q) : q[i] = x
        /\ Distinct(a) /\ Distinct(b) /\ Ordered(b, w)
    BY <2>1, SplitFacts
  <2>3. QED
    BY <2>2 DEF w
<1> HIDE DEF a, b
<1>5. \A x \in Members(a) : s.wake[x] <= s.tick
  BY <1>3, <1>4
<1>6. ASSUME NEW x \in Members(b) PROVE s.tick < s.wake[x]
  <2>1. PICK i \in (n + 1)..Len(q) : q[i] = x
    BY <1>4
  <2>2. i \in 1..Len(q) /\ n + 1 \in 1..Len(q) /\ n < Len(q)
    BY <1>2, <1>3
  <2>3. CASE i = n + 1
    BY <1>1, <1>2, <1>3, <2>1, <2>2, <2>3
  <2>4. CASE i > n + 1
    <3>1. s.wake[q[n + 1]] <= s.wake[q[i]]
      BY <1>3, <2>2, <2>4 DEF Ordered
    <3>2. QED
      BY SMTT(60), <1>1, <1>2, <1>3, <2>1, <2>2, <3>1
  <2>5. QED
    BY <1>3, <2>2, <2>3, <2>4
<1>7. \A x \in Members(q) : s.wake[x] \in Int
  BY <1>1, MembersFacts
<1>8. /\ Members(a) = {t \in Members(q) : s.wake[t] <= s.tick}
      /\ Members(b) = {t \in Members(q) : s.tick < s.wake[t]}
  BY <1>1, <1>4, <1>5, <1>6, <1>7
<1>9. n = 0 => Members(a) = {}
  BY <1>4
<1>10. QED
  BY <1>3, <1>4, <1>8, <1>9 DEF n, a, b, q, DelayedOf

\* The tasks whose time has come leave the delayed list and every event list
\* and become ready.
LEMMA CheckDelayedFacts ==
  ASSUME NEW s \in KernelRecord, TaskLists(s), EventLists(s),
         \A t \in OverflowOf(s) : s.wake[t] < s.tick
  PROVE  LET r == prvCheckDelayedTasks(s)
             E == {t \in DelayedOf(s) : s.wake[t] <= s.tick}
         IN  /\ r \in KernelRecord /\ StateLists(r) /\ EventLists(r)
             /\ ReadyOf(r) = ReadyOf(s) \cup E /\ DelayedOf(r) = DelayedOf(s) \ E
             /\ OverflowOf(r) = OverflowOf(s) /\ r.blocked = s.blocked
             /\ \A t \in DelayedOf(r) \cup OverflowOf(r) : r.wake[t] = s.wake[t]
             /\ PendingOf(r) = PendingOf(s) \ E
             /\ \A m \in Sem : WaitingOf(r, m) = WaitingOf(s, m) \ E
             /\ SameClock(r, s) /\ SameFlags(r, s) /\ SameSems(r, s)
<1> DEFINE r == prvCheckDelayedTasks(s)
           E == {t \in DelayedOf(s) : s.wake[t] <= s.tick}
           n == UpTo(s.delayed, s.wake, s.tick)
           a == SubSeq(s.delayed, 1, n)
           b == SubSeq(s.delayed, n + 1, Len(s.delayed))
           u == [s EXCEPT !.delayed = b]
           v == RemoveEventItems(u, Members(a))
<1>1. /\ a \in Seq(Task) /\ b \in Seq(Task) /\ n \in Nat
      /\ Members(a) = E /\ Members(b) = {t \in DelayedOf(s) : s.tick < s.wake[t]}
      /\ Distinct(a) /\ Distinct(b) /\ Ordered(b, s.wake)
      /\ n = 0 => Members(a) = {}
  BY ExpiredFacts DEF TaskLists
<1>2. \A t \in Task : s.wake[t] \in Int /\ s.tick \in Int
  BY FieldTypes
<1>3. Members(b) = DelayedOf(s) \ E /\ E \subseteq DelayedOf(s)
  BY <1>1, <1>2, FieldTypes
<1>4. u = [s EXCEPT !.delayed = b] /\ v = RemoveEventItems(u, Members(a))
  OBVIOUS
<1>5. r = IF n = 0 THEN s ELSE AddToReadyQueue(v, a)
  BY DEF prvCheckDelayedTasks
<1>6. \A t \in DelayedOf(s) \ E : s.tick < s.wake[t]
  BY <1>2, FieldTypes
<1> HIDE DEF a, b, u, v, r, E, n
<1>7. CASE n = 0
  <2>1. r = s /\ E = {}
    BY <1>1, <1>5, <1>7
  <2>2. StateLists(s)
    BY <2>1, <1>6 DEF StateLists
  <2>3. \A X : X \cup E = X /\ X \ E = X
    BY <2>1
  <2>4. QED
    BY <2>1, <2>2, <2>3 DEF r, E, SameClock, SameFlags, SameSems
<1>8. CASE n # 0
  <2>1. /\ u \in KernelRecord /\ u.delayed = b /\ u.ready = s.ready /\ u.overflow = s.overflow
        /\ u.blocked = s.blocked /\ u.wake = s.wake /\ SameEvents(u, s)
        /\ SameClock(u, s) /\ SameFlags(u, s) /\ SameSems(u, s)
    BY <1>1, <1>4 DEF KernelRecord, SameEvents, SameClock, SameFlags, SameSems
  <2>2. /\ PendingOf(u) = PendingOf(s) /\ \A m \in Sem : WaitingOf(u, m) = WaitingOf(s, m)
        /\ EventLists(u)
    BY <2>1 DEF SameEvents, PendingOf, WaitingOf, EventLists
  <2>3. /\ v \in KernelRecord /\ EventLists(v) /\ PendingOf(v) = PendingOf(s) \ E
        /\ \A m \in Sem : WaitingOf(v, m) = WaitingOf(s, m) \ E
        /\ SameStates(v, u) /\ SameClock(v, u) /\ SameFlags(v, u) /\ SameSems(v, u)
    <3>1. /\ v \in KernelRecord /\ EventLists(v) /\ PendingOf(v) = PendingOf(u) \ E
          /\ \A m \in Sem : WaitingOf(v, m) = WaitingOf(u, m) \ E
          /\ SameStates(v, u) /\ SameClock(v, u) /\ SameFlags(v, u) /\ SameSems(v, u)
      BY <1>1, <1>4, <2>1, <2>2, RemoveEventFacts
    <3>2. QED
      BY <3>1, <2>2
  <2>4. r = AddToReadyQueue(v, a)
    BY <1>5, <1>8
  <2>5. /\ r \in KernelRecord /\ r.ready = v.ready \o a
        /\ r.delayed = v.delayed /\ r.overflow = v.overflow /\ r.blocked = v.blocked
        /\ r.wake = [t \in Task |-> IF t \in Members(a) THEN 0 ELSE v.wake[t]]
        /\ SameEvents(r, v) /\ SameClock(r, v) /\ SameFlags(r, v) /\ SameSems(r, v)
    BY <1>1, <2>3, <2>4, AddToReadyFacts
  <2>6. /\ r.ready = s.ready \o a /\ r.delayed = b /\ r.overflow = s.overflow
        /\ r.blocked = s.blocked
        /\ r.wake = [t \in Task |-> IF t \in E THEN 0 ELSE s.wake[t]]
        /\ SameClock(r, s) /\ SameFlags(r, s) /\ SameSems(r, s)
    BY <1>1, <2>1, <2>3, <2>5 DEF SameStates, SameClock, SameFlags, SameSems
  <2>7. /\ EventLists(r) /\ PendingOf(r) = PendingOf(s) \ E
        /\ \A m \in Sem : WaitingOf(r, m) = WaitingOf(s, m) \ E
    BY <2>3, <2>5 DEF SameEvents, EventLists, PendingOf, WaitingOf
  <2>8. /\ ReadyOf(r) = ReadyOf(s) \cup E /\ Distinct(r.ready)
    <3>1. Members(s.ready) \cap Members(a) = {}
      BY <1>1, <1>3 DEF TaskLists, ReadyOf
    <3>2. QED
      BY <1>1, <2>6, <3>1, FieldTypes, ConcatFacts DEF TaskLists, ReadyOf
  <2>9. DelayedOf(r) = DelayedOf(s) \ E /\ OverflowOf(r) = OverflowOf(s)
    BY <1>3, <2>6 DEF DelayedOf, OverflowOf
  <2>10. \A t \in DelayedOf(r) \cup OverflowOf(r) : r.wake[t] = s.wake[t]
    <3>1. E \cap OverflowOf(s) = {}
      BY <1>3 DEF TaskLists
    <3>2. DelayedOf(s) \subseteq Task /\ OverflowOf(s) \subseteq Task
      BY FieldTypes
    <3>3. QED
      BY <2>6, <2>9, <3>1, <3>2
  <2>11. Ordered(r.delayed, r.wake) /\ Ordered(r.overflow, r.wake)
    <3>1. \A t \in Members(b) : s.wake[t] = r.wake[t]
      BY <2>6, <2>10 DEF DelayedOf
    <3>2. \A t \in Members(s.overflow) : s.wake[t] = r.wake[t]
      BY <2>6, <2>10 DEF OverflowOf
    <3>3. Ordered(b, r.wake)
      BY <1>1, <3>1, SameOrder
    <3>4. Ordered(s.overflow, r.wake)
      BY <3>2, SameOrder, FieldTypes DEF TaskLists
    <3>5. QED
      BY <2>6, <3>3, <3>4
  <2>12. TaskLists(r)
    <3>1. Distinct(r.delayed) /\ Distinct(r.overflow)
      BY <1>1, <2>6 DEF TaskLists
    <3>2. /\ Task \subseteq ReadyOf(r) \cup DelayedOf(r) \cup OverflowOf(r) \cup r.blocked
          /\ ReadyOf(r) \cap DelayedOf(r) = {} /\ ReadyOf(r) \cap OverflowOf(r) = {}
          /\ ReadyOf(r) \cap r.blocked = {} /\ DelayedOf(r) \cap OverflowOf(r) = {}
          /\ DelayedOf(r) \cap r.blocked = {} /\ OverflowOf(r) \cap r.blocked = {}
      BY <1>3, <2>6, <2>8, <2>9 DEF TaskLists
    <3>3. QED
      BY <2>8, <2>11, <3>1, <3>2 DEF TaskLists
  <2>13. StateLists(r)
    <3>1. \A t \in DelayedOf(r) : r.tick < r.wake[t]
      BY <1>6, <2>6, <2>9, <2>10 DEF SameClock
    <3>2. \A t \in OverflowOf(r) : r.wake[t] < r.tick
      BY <2>6, <2>9, <2>10 DEF SameClock
    <3>3. QED
      BY <2>12, <3>1, <3>2 DEF StateLists
  <2>14. QED
    BY <2>5, <2>6, <2>7, <2>8, <2>9, <2>10, <2>13 DEF r, E
<1>9. QED
  BY <1>7, <1>8
-----------------------------------------------------------------------------
(* Ticks.                                                                  *)

(* The tasks that wait for a time, and the ticks until it comes.           *)
Timed(s) == DelayedOf(s) \cup OverflowOf(s)
Due(s, t) == s.wake[t] + (IF t \in OverflowOf(s) THEN TickMod ELSE 0) - s.tick

(* The clock <<o2, t2>> is <<o1, t1>> n ticks later.                       *)
Later(o1, t1, n, o2, t2) ==
  IF t1 + n < TickMod THEN t2 = t1 + n /\ o2 = o1
  ELSE t2 = t1 + n - TickMod /\ o2 = (o1 + 1) % OverflowMod

(* The same for any number of ticks: c is how often the count of the       *)
(* overflows has come round.                                               *)
Turned(o1, t1, n, o2, t2) ==
  \E c \in Nat : o2 * TickMod + t2 = o1 * TickMod + t1 + n - c * (OverflowMod * TickMod)

(* r is s after n ticks: the tasks due by then have left all the lists but *)
(* the ready list, for the others there are n ticks less to go.            *)
Expired(s, n) == {t \in Timed(s) : Due(s, t) <= n}
Elapsed(s, r, n) ==
  /\ r \in KernelRecord /\ StateLists(r) /\ EventLists(r)
  /\ ReadyOf(r) = ReadyOf(s) \cup Expired(s, n) /\ Timed(r) = Timed(s) \ Expired(s, n)
  /\ r.blocked = s.blocked /\ \A t \in Timed(r) : Due(r, t) = Due(s, t) - n
  /\ PendingOf(r) = PendingOf(s) \ Expired(s, n)
  /\ \A m \in Sem : WaitingOf(r, m) = WaitingOf(s, m) \ Expired(s, n)
  /\ n < TickMod => Later(s.overflows, s.tick, n, r.overflows, r.tick)
  /\ Turned(s.overflows, s.tick, n, r.overflows, r.tick)
  /\ SameSems(r, s) /\ r.current = s.current /\ r.suspended = s.suspended
  /\ r.missedYield = s.missedYield

\* Later in ticks of the clock, counted modulo its whole range.
LEMMA LaterClock ==
  ASSUME NEW o1 \in 0..(OverflowMod - 1), NEW t1 \in 0..(TickMod - 1),
         NEW o2 \in 0..(OverflowMod - 1), NEW t2 \in 0..(TickMod - 1), NEW n \in Nat,
         n < TickMod, Later(o1, t1, n, o2, t2)
  PROVE  LET d == (o2 * TickMod + t2) - (o1 * TickMod + t1) - n
         IN  d = 0 \/ d = -(OverflowMod * TickMod)
<1>1. TickMod \in Nat /\ TickMod > 2 /\ OverflowMod \in Nat /\ OverflowMod > 1
  BY Constants
<1>2. o1 \in Int /\ t1 \in Int /\ o2 \in Int /\ t2 \in Int
  BY <1>1
<1>3. CASE t1 + n < TickMod
  <2>1. t2 = t1 + n /\ o2 = o1
    BY <1>3 DEF Later
  <2>2. o1 * TickMod \in Int
    BY <1>1, <1>2
  <2>3. QED
    BY <1>1, <1>2, <2>1, <2>2
<1>4. CASE ~(t1 + n < TickMod)
  <2>1. t2 = t1 + n - TickMod /\ o2 = (o1 + 1) % OverflowMod
    BY <1>4 DEF Later
  <2>2. o2 = IF o1 + 1 < OverflowMod THEN o1 + 1 ELSE o1 + 1 - OverflowMod
    <3> DEFINE a == o1 + 1
    <3>1. a \in Int /\ 0 <= a /\ a < 2 * OverflowMod
      BY <1>1
    <3> HIDE DEF a
    <3>2. a % OverflowMod = IF a < OverflowMod THEN a ELSE a - OverflowMod
      BY <1>1, <3>1, ModSum
    <3>3. o2 = a % OverflowMod
      BY <2>1 DEF a
    <3>4. QED
      BY <1>1, <3>1, <3>2, <3>3 DEF a
  <2>3. o2 = o1 + 1 \/ (o2 = 0 /\ o1 = OverflowMod - 1)
    BY <1>1, <2>2
  <2>4. CASE o2 = o1 + 1
    <3>1. \A a, b \in Int : (a - 1) * b = a * b - b /\ a * b \in Int
      OBVIOUS
    <3>2. o1 = o2 - 1 /\ o2 \in Int
      BY <1>2, <2>4
    <3>3. o1 * TickMod = o2 * TickMod - TickMod /\ o2 * TickMod \in Int
      BY <1>1, <3>1, <3>2
    <3>4. QED
      BY <1>1, <1>2, <2>1, <3>3
  <2>5. CASE o2 = 0 /\ o1 = OverflowMod - 1
    <3>1. \A a, b \in Int : (a - 1) * b = a * b - b /\ 0 * b = 0 /\ a * b \in Int
      OBVIOUS
    <3>2. /\ o1 * TickMod = OverflowMod * TickMod - TickMod /\ o2 * TickMod = 0
          /\ OverflowMod * TickMod \in Int
      BY <1>1, <2>5, <3>1
    <3>3. QED
      BY <1>1, <1>2, <2>1, <3>2
  <2>6. QED
    BY <2>3, <2>4, <2>5
<1>5. QED
  BY <1>3, <1>4

\* The range of the whole clock.
LEMMA ClockRange ==
  /\ OverflowMod * TickMod \in Nat /\ OverflowMod * TickMod > 1
  /\ \A d \in Int : d = 0 \/ d = -(OverflowMod * TickMod) => d % (OverflowMod * TickMod) = 0
  /\ \A d \in Int : d = 1 \/ d = 1 - OverflowMod * TickMod => d % (OverflowMod * TickMod) = 1
<1> DEFINE N == OverflowMod * TickMod
<1>1. TickMod \in Nat /\ TickMod > 2 /\ OverflowMod \in Nat /\ OverflowMod > 1
  BY Constants
<1>2. N \in Nat /\ N > 1
  <2>1. \A a, b \in Nat : (a - 1) * b = a * b - b /\ a * b \in Nat
    OBVIOUS
  <2>2. OverflowMod - 1 \in Nat
    BY <1>1
  <2>3. (OverflowMod - 1) * TickMod = N - TickMod /\ (OverflowMod - 1) * TickMod \in Nat /\ N \in Nat
    BY <1>1, <2>1, <2>2
  <2> HIDE DEF N
  <2>4. QED
    BY <1>1, <2>3
<1> HIDE DEF N
<1>3. ASSUME NEW d \in Int, -N <= d, d < N
      PROVE  d % N = IF d < 0 THEN d + N ELSE d
  BY <1>2, <1>3, ModDifference
<1>4. \A d \in Int : d = 0 \/ d = -N => d % N = 0
  BY <1>2, <1>3
<1>5. \A d \in Int : d = 1 \/ d = 1 - N => d % N = 1
  BY <1>2, <1>3
<1>6. QED
  BY <1>2, <1>4, <1>5 DEF N

\* The reading of the whole clock is a number.
LEMMA ClockReading ==
  ASSUME NEW s \in KernelRecord
  PROVE  s.overflows * TickMod + s.tick \in Int
<1>1. s.overflows \in 0..(OverflowMod - 1) /\ s.tick \in 0..(TickMod - 1)
      /\ OverflowMod \in Int /\ TickMod \in Int
  BY FieldTypes, Constants
<1>2. s.overflows \in Int /\ s.tick \in Int
  BY <1>1
<1>3. \A a, b, c \in Int : a * b + c \in Int
  OBVIOUS
<1>4. QED
  BY <1>1, <1>2, <1>3

\* The clock reads n more than before, if m of the n ticks had been missed.
LEMMA ClockMoves ==
  ASSUME NEW s \in KernelRecord, NEW r \in KernelRecord, NEW n \in Nat, n < TickMod,
         Later(s.overflows, s.tick, n, r.overflows, r.tick)
  PROVE  LET e == (r.overflows * TickMod + r.tick) - (s.overflows * TickMod + s.tick)
         IN  e \in Int /\ (e = n \/ e = n - OverflowMod * TickMod)
<1> DEFINE o1 == s.overflows
           t1 == s.tick
           o2 == r.overflows
           t2 == r.tick
           p1 == o1 * TickMod
           p2 == o2 * TickMod
           N == OverflowMod * TickMod
<1>1. /\ o1 \in 0..(OverflowMod - 1) /\ t1 \in 0..(TickMod - 1)
      /\ o2 \in 0..(OverflowMod - 1) /\ t2 \in 0..(TickMod - 1)
  BY FieldTypes
<1>2. Later(o1, t1, n, o2, t2)
  OBVIOUS
<1>3. TickMod \in Int /\ OverflowMod \in Int /\ N \in Nat
  BY Constants, ClockRange
<1> HIDE DEF o1, t1, o2, t2
<1>4. LET d == (p2 + t2) - (p1 + t1) - n IN d = 0 \/ d = -N
  BY ONLY <1>1, <1>2, n \in Nat, n < TickMod, LaterClock
<1>5. p1 \in Int /\ p2 \in Int /\ t1 \in Int /\ t2 \in Int
  <2>1. \A a, b \in Int : a * b \in Int
    OBVIOUS
  <2>2. o1 \in Int /\ o2 \in Int /\ t1 \in Int /\ t2 \in Int
    BY <1>1, <1>3
  <2>3. QED
    BY <1>3, <2>1, <2>2
<1> HIDE DEF p1, p2, N
<1>6. LET e == (p2 + t2) - (p1 + t1) IN e \in Int /\ (e = n \/ e = n - N)
  BY <1>3, <1>4, <1>5
<1>7. QED
  BY <1>6 DEF p1, p2, N, o1, t1, o2, t2

\* The whole clock stands still.
LEMMA TurnedNone ==
  ASSUME NEW s \in KernelRecord
  PROVE  Turned(s.overflows, s.tick, 0, s.overflows, s.tick)
<1> DEFINE p == s.overflows * TickMod + s.tick
           N == OverflowMod * TickMod
<1>1. p \in Int /\ N \in Nat
  BY ClockReading, ClockRange
<1> HIDE DEF p, N
<1>2. 0 \in Nat /\ p = p + 0 - 0 * N
  BY <1>1
<1>3. QED
  BY <1>2 DEF Turned, p, N

\* The whole clock one tick later.
LEMMA TurnedOne ==
  ASSUME NEW s \in KernelRecord, NEW r \in KernelRecord,
         Later(s.overflows, s.tick, 1, r.overflows, r.tick)
  PROVE  Turned(s.overflows, s.tick, 1, r.overflows, r.tick)
<1> DEFINE p1 == s.overflows * TickMod + s.tick
           p2 == r.overflows * TickMod + r.tick
           N == OverflowMod * TickMod
<1>1. p1 \in Int /\ p2 \in Int /\ N \in Nat
  BY ClockReading, ClockRange
<1>2. p2 - p1 = 1 \/ p2 - p1 = 1 - N
  <2>1. 1 \in Nat /\ 1 < TickMod
    BY Constants
  <2>2. QED
    BY <2>1, ClockMoves
<1> HIDE DEF p1, p2, N
<1>3. \E c \in Nat : p2 = p1 + 1 - c * N
  <2>1. CASE p2 - p1 = 1
    <3>1. 0 \in Nat /\ p2 = p1 + 1 - 0 * N
      BY <1>1, <2>1
    <3>2. QED
      BY <3>1
  <2>2. CASE p2 - p1 = 1 - N
    <3>1. 1 \in Nat /\ p2 = p1 + 1 - 1 * N
      BY <1>1, <2>2
    <3>2. QED
      BY <3>1
  <2>3. QED
    BY <1>2, <2>1, <2>2
<1>4. QED
  BY <1>3 DEF Turned, p1, p2, N

\* And one tick more, after any number of them.
LEMMA TurnedStep ==
  ASSUME NEW s \in KernelRecord, NEW r \in KernelRecord, NEW q \in KernelRecord, NEW n \in Nat,
         Turned(s.overflows, s.tick, n, r.overflows, r.tick),
         Turned(r.overflows, r.tick, 1, q.overflows, q.tick)
  PROVE  Turned(s.overflows, s.tick, n + 1, q.overflows, q.tick)
<1> DEFINE p1 == s.overflows * TickMod + s.tick
           p2 == r.overflows * TickMod + r.tick
           p3 == q.overflows * TickMod + q.tick
           N == OverflowMod * TickMod
<1>1. p1 \in Int /\ p2 \in Int /\ p3 \in Int /\ N \in Nat
  BY ClockReading, ClockRange
<1>2. (\E c \in Nat : p2 = p1 + n - c * N) /\ (\E c \in Nat : p3 = p2 + 1 - c * N)
  BY DEF Turned
<1> HIDE DEF p1, p2, p3, N
<1>3. PICK a \in Nat : p2 = p1 + n - a * N
  BY <1>2
<1>4. PICK b \in Nat : p3 = p2 + 1 - b * N
  BY <1>2
<1>5. a + b \in Nat /\ (a + b) * N = a * N + b * N /\ a * N \in Int /\ b * N \in Int
  BY <1>1
<1>6. p3 = p1 + (n + 1) - (a + b) * N
  BY <1>1, <1>3, <1>4, <1>5
<1>7. \E c \in Nat : p3 = p1 + (n + 1) - c * N
  BY <1>5, <1>6
<1>8. QED
  BY <1>7 DEF Turned, p1, p3, N

\* A task that waits for a time has less than a whole round of the clock to go.
LEMMA DueFacts ==
  ASSUME NEW s \in KernelRecord, StateLists(s), NEW t \in Timed(s)
  PROVE  /\ t \in Task /\ Due(s, t) \in Int /\ 0 < Due(s, t) /\ Due(s, t) < TickMod
<1>1. /\ t \in Task /\ s.wake[t] \in 0..(TickMod - 1) /\ s.tick \in 0..(TickMod - 1)
  BY FieldTypes DEF Timed
<1>2. t \in DelayedOf(s) => s.tick < s.wake[t]
  BY DEF StateLists
<1>3. t \in OverflowOf(s) => s.wake[t] < s.tick
  BY DEF StateLists
<1>4. QED
  BY <1>1, <1>2, <1>3, Constants DEF Timed, Due

\* The clock moves; at the wrap the current delayed list is empty.
LEMMA NextTickFacts ==
  ASSUME NEW s \in KernelRecord, StateLists(s), EventLists(s)
  PROVE  LET r == NextTick(s)
             E == {t \in DelayedOf(r) : r.wake[t] <= r.tick}
         IN  /\ r \in KernelRecord /\ TaskLists(r) /\ EventLists(r)
             /\ \A t \in OverflowOf(r) : r.wake[t] < r.tick
             /\ ReadyOf(r) = ReadyOf(s) /\ Timed(r) = Timed(s) /\ r.blocked = s.blocked
             /\ E = Expired(s, 1) /\ r.wake = s.wake
             /\ \A t \in Timed(r) : Due(r, t) = Due(s, t) - 1
             /\ Later(s.overflows, s.tick, 1, r.overflows, r.tick)
             /\ SameEvents(r, s) /\ SameFlags(r, s) /\ SameSems(r, s)
<1> DEFINE r == NextTick(s)
           E == {t \in DelayedOf(r) : r.wake[t] <= r.tick}
<1>1. /\ s.tick \in 0..(TickMod - 1) /\ TickMod \in Nat /\ s.overflows \in 0..(OverflowMod - 1)
      /\ \A t \in Task : s.wake[t] \in 0..(TickMod - 1)
      /\ DelayedOf(s) \subseteq Task /\ OverflowOf(s) \subseteq Task
  BY FieldTypes, Constants
<1>2. /\ \A t \in DelayedOf(s) : s.tick < s.wake[t]
      /\ \A t \in OverflowOf(s) : s.wake[t] < s.tick
      /\ DelayedOf(s) \cap OverflowOf(s) = {}
  BY DEF StateLists, TaskLists
<1>3. CASE s.tick + 1 < TickMod
  <2>1. r = [s EXCEPT !.tick = @ + 1]
    BY <1>3 DEF NextTick
  <2>2. s.tick + 1 \in 0..(TickMod - 1)
    BY <1>1, <1>3
  <2> HIDE DEF r
  <2>3. /\ r \in KernelRecord /\ r.ready = s.ready /\ r.delayed = s.delayed
        /\ r.overflow = s.overflow /\ r.blocked = s.blocked /\ r.wake = s.wake
        /\ r.tick = s.tick + 1 /\ r.overflows = s.overflows
        /\ SameEvents(r, s) /\ SameFlags(r, s) /\ SameSems(r, s)
    BY <2>1, <2>2 DEF KernelRecord, SameEvents, SameFlags, SameSems
  <2>4. /\ ReadyOf(r) = ReadyOf(s) /\ DelayedOf(r) = DelayedOf(s) /\ OverflowOf(r) = OverflowOf(s)
    BY <2>3 DEF ReadyOf, DelayedOf, OverflowOf
  <2>5. TaskLists(r)
    BY <2>3, <2>4 DEF StateLists, TaskLists
  <2>6. EventLists(r)
    BY <2>3 DEF SameEvents, EventLists, PendingOf, WaitingOf
  <2>7. \A t \in OverflowOf(r) : r.wake[t] < r.tick
    BY <1>1, <1>2, <2>3, <2>4
  <2>8. /\ Timed(r) = Timed(s)
        /\ \A t \in Timed(r) : Due(r, t) = Due(s, t) - 1
    BY <1>1, <2>3, <2>4 DEF Timed, Due
  <2>9. E = Expired(s, 1)
    <3>1. \A t \in OverflowOf(s) : ~(Due(s, t) <= 1)
      BY <1>1, <1>2, <1>3 DEF Due
    <3>2. \A t \in DelayedOf(s) : Due(s, t) <= 1 <=> r.wake[t] <= r.tick
      BY <1>1, <1>2, <2>3 DEF Due
    <3>3. QED
      BY <2>4, <3>1, <3>2 DEF Expired, Timed
  <2>10. Later(s.overflows, s.tick, 1, r.overflows, r.tick)
    BY <1>3, <2>3 DEF Later
  <2>11. QED
    BY <2>3, <2>4, <2>5, <2>6, <2>7, <2>8, <2>9, <2>10 DEF r
<1>4. CASE ~(s.tick + 1 < TickMod)
  <2>1. r = [s EXCEPT !.tick = 0, !.overflows = (@ + 1) % OverflowMod,
                      !.delayed = s.overflow, !.overflow = s.delayed]
    BY <1>4 DEF NextTick
  <2>2. s.tick = TickMod - 1 /\ 0 \in 0..(TickMod - 1)
    BY <1>1, <1>4
  <2>3. (s.overflows + 1) % OverflowMod \in 0..(OverflowMod - 1)
    BY <1>1, Constants
  <2>4. s.delayed \in Seq(Task) /\ s.overflow \in Seq(Task)
    BY FieldTypes
  <2> HIDE DEF r
  <2>5. /\ r \in KernelRecord /\ r.ready = s.ready /\ r.delayed = s.overflow
        /\ r.overflow = s.delayed /\ r.blocked = s.blocked /\ r.wake = s.wake
        /\ r.tick = 0 /\ r.overflows = (s.overflows + 1) % OverflowMod
        /\ SameEvents(r, s) /\ SameFlags(r, s) /\ SameSems(r, s)
    BY <2>1, <2>2, <2>3, <2>4 DEF KernelRecord, SameEvents, SameFlags, SameSems
  <2>6. DelayedOf(s) = {}
    BY <1>1, <1>2, <2>2
  <2>7. /\ ReadyOf(r) = ReadyOf(s) /\ DelayedOf(r) = OverflowOf(s) /\ OverflowOf(r) = {}
    BY <2>5, <2>6 DEF ReadyOf, DelayedOf, OverflowOf
  <2>8. TaskLists(r)
    BY <2>5, <2>6, <2>7 DEF StateLists, TaskLists
  <2>9. EventLists(r)
    BY <2>5 DEF SameEvents, EventLists, PendingOf, WaitingOf
  <2>10. Timed(r) = Timed(s) /\ Timed(s) = OverflowOf(s)
    BY <2>6, <2>7 DEF Timed
  <2>11. \A t \in Timed(r) : Due(r, t) = Due(s, t) - 1
    BY <1>1, <2>2, <2>5, <2>7, <2>10 DEF Due
  <2>12. E = Expired(s, 1)
    <3>1. \A t \in OverflowOf(s) : Due(s, t) <= 1 <=> r.wake[t] <= r.tick
      BY <1>1, <2>2, <2>5 DEF Due
    <3>2. QED
      BY <2>7, <2>10, <3>1 DEF Expired
  <2>13. Later(s.overflows, s.tick, 1, r.overflows, r.tick)
    BY <1>4, <2>2, <2>5, Constants DEF Later
  <2>14. QED
    BY <2>5, <2>7, <2>8, <2>9, <2>10, <2>11, <2>12, <2>13 DEF r
<1>5. QED
  BY <1>3, <1>4

\* The tick interrupt while the scheduler is not suspended.
LEMMA TickFacts ==
  ASSUME NEW s \in KernelRecord, StateLists(s), EventLists(s), ~s.suspended
  PROVE  LET r == vTaskIncrementTick(s)
         IN  Elapsed(s, r, 1) /\ r.missedTicks = s.missedTicks
<1> DEFINE u == NextTick(s)
           r == vTaskIncrementTick(s)
           E == {t \in DelayedOf(u) : u.wake[t] <= u.tick}
<1>1. r = prvCheckDelayedTasks(u)
  BY DEF vTaskIncrementTick
<1>2. /\ u \in KernelRecord /\ TaskLists(u) /\ EventLists(u)
      /\ \A t \in OverflowOf(u) : u.wake[t] < u.tick
      /\ ReadyOf(u) = ReadyOf(s) /\ Timed(u) = Timed(s) /\ u.blocked = s.blocked
      /\ E = Expired(s, 1) /\ u.wake = s.wake
      /\ \A t \in Timed(u) : Due(u, t) = Due(s, t) - 1
      /\ Later(s.overflows, s.tick, 1, u.overflows, u.tick)
      /\ SameEvents(u, s) /\ SameFlags(u, s) /\ SameSems(u, s)
  BY NextTickFacts
<1> HIDE DEF u
<1>3. /\ r \in KernelRecord /\ StateLists(r) /\ EventLists(r)
      /\ ReadyOf(r) = ReadyOf(u) \cup E /\ DelayedOf(r) = DelayedOf(u) \ E
      /\ OverflowOf(r) = OverflowOf(u) /\ r.blocked = u.blocked
      /\ \A t \in DelayedOf(r) \cup OverflowOf(r) : r.wake[t] = u.wake[t]
      /\ PendingOf(r) = PendingOf(u) \ E
      /\ \A m \in Sem : WaitingOf(r, m) = WaitingOf(u, m) \ E
      /\ SameClock(r, u) /\ SameFlags(r, u) /\ SameSems(r, u)
  BY <1>1, <1>2, CheckDelayedFacts
<1>4. E \subseteq DelayedOf(u)
  OBVIOUS
<1> HIDE DEF r, E
<1>5. Timed(r) = Timed(s) \ Expired(s, 1)
  BY <1>2, <1>3, <1>4 DEF Timed, TaskLists
<1>6. \A t \in Timed(r) : Due(r, t) = Due(s, t) - 1
  <2>1. \A t \in Timed(r) : Due(r, t) = Due(u, t)
    BY <1>3 DEF Timed, Due, SameClock
  <2>2. Timed(r) \subseteq Timed(u)
    BY <1>2, <1>5
  <2>3. QED
    BY <1>2, <2>1, <2>2
<1>7. /\ PendingOf(r) = PendingOf(s) \ E
      /\ \A m \in Sem : WaitingOf(r, m) = WaitingOf(s, m) \ E
  BY <1>2, <1>3 DEF SameEvents, PendingOf, WaitingOf
<1>8. /\ SameSems(r, s) /\ SameFlags(r, s)
      /\ r.tick = u.tick /\ r.overflows = u.overflows
  BY <1>2, <1>3 DEF SameSems, SameFlags, SameClock
<1>9. Elapsed(s, r, 1)
  <2>1. Turned(s.overflows, s.tick, 1, r.overflows, r.tick)
    BY <1>2, <1>3, <1>8, TurnedOne
  <2>2. QED
    BY <1>2, <1>3, <1>5, <1>6, <1>7, <1>8, <2>1 DEF Elapsed, SameFlags
<1>10. QED
  BY <1>8, <1>9 DEF r, SameFlags

\* No tick, and one tick more.
LEMMA ElapsedNone ==
  ASSUME NEW s \in KernelRecord, StateLists(s), EventLists(s)
  PROVE  Elapsed(s, s, 0)
<1>1. Expired(s, 0) = {}
  <2>1. \A t \in Timed(s) : Due(s, t) \in Int /\ 0 < Due(s, t)
    BY DueFacts
  <2>2. QED
    BY <2>1 DEF Expired
<1>2. \A X : X \cup {} = X /\ X \ {} = X
  OBVIOUS
<1>3. \A t \in Timed(s) : Due(s, t) = Due(s, t) - 0
  <2>1. \A t \in Timed(s) : Due(s, t) \in Int
    BY DueFacts
  <2>2. QED
    BY <2>1
<1>4. Later(s.overflows, s.tick, 0, s.overflows, s.tick)
  BY FieldTypes, Constants DEF Later
<1>5. QED
  BY <1>1, <1>2, <1>3, <1>4, TurnedNone DEF Elapsed, SameSems

\* One tick more.
LEMMA ElapsedStep ==
  ASSUME NEW s \in KernelRecord, StateLists(s), NEW n \in Nat,
         NEW r, Elapsed(s, r, n), NEW q, Elapsed(r, q, 1)
  PROVE  Elapsed(s, q, n + 1)
<1>1. \A t \in Timed(s) : Due(s, t) \in Int
  BY DueFacts
<1>2. r \in KernelRecord /\ StateLists(r) /\ q \in KernelRecord
  BY DEF Elapsed
<1>3. Timed(r) = Timed(s) \ Expired(s, n) /\ \A t \in Timed(r) : Due(r, t) = Due(s, t) - n
  BY DEF Elapsed
<1>4. \A t \in Timed(r) : Due(r, t) <= 1 <=> Due(s, t) <= n + 1
  BY <1>1, <1>3
<1>5. \A t \in Timed(s) : Due(s, t) <= n => Due(s, t) <= n + 1
  BY <1>1
<1>6. Expired(s, n + 1) = Expired(s, n) \cup Expired(r, 1)
  BY <1>3, <1>4, <1>5 DEF Expired
<1>7. \A X : /\ (X \cup Expired(s, n)) \cup Expired(r, 1) = X \cup Expired(s, n + 1)
             /\ (X \ Expired(s, n)) \ Expired(r, 1) = X \ Expired(s, n + 1)
  BY <1>6
<1>8. /\ ReadyOf(q) = ReadyOf(s) \cup Expired(s, n + 1)
      /\ Timed(q) = Timed(s) \ Expired(s, n + 1)
      /\ PendingOf(q) = PendingOf(s) \ Expired(s, n + 1)
      /\ \A m \in Sem : WaitingOf(q, m) = WaitingOf(s, m) \ Expired(s, n + 1)
  BY <1>7 DEF Elapsed
<1>9. \A t \in Timed(q) : Due(q, t) = Due(s, t) - (n + 1)
  <2>1. Timed(q) \subseteq Timed(r) /\ Timed(r) \subseteq Timed(s)
    BY <1>3 DEF Elapsed
  <2>2. \A t \in Timed(q) : Due(q, t) = Due(r, t) - 1
    BY DEF Elapsed
  <2>3. QED
    BY <1>1, <1>3, <2>1, <2>2
<1>10. ASSUME n + 1 < TickMod PROVE Later(s.overflows, s.tick, n + 1, q.overflows, q.tick)
  <2>1. n < TickMod /\ 1 < TickMod
    BY <1>10, Constants
  <2>2. /\ Later(s.overflows, s.tick, n, r.overflows, r.tick)
        /\ Later(r.overflows, r.tick, 1, q.overflows, q.tick)
    BY <2>1 DEF Elapsed
  <2>3. s.tick \in 0..(TickMod - 1) /\ r.tick \in 0..(TickMod - 1) /\ TickMod \in Nat
    BY <1>2, FieldTypes, Constants
  <2>4. QED
    BY <1>10, <2>2, <2>3 DEF Later
<1>11. /\ q.blocked = s.blocked /\ SameSems(q, s) /\ q.current = s.current
       /\ q.suspended = s.suspended /\ q.missedYield = s.missedYield
       /\ StateLists(q) /\ EventLists(q)
  BY DEF Elapsed, SameSems
<1>12. Turned(s.overflows, s.tick, n + 1, q.overflows, q.tick)
  <2>1. /\ Turned(s.overflows, s.tick, n, r.overflows, r.tick)
        /\ Turned(r.overflows, r.tick, 1, q.overflows, q.tick)
    BY DEF Elapsed
  <2>2. QED
    BY <1>2, <2>1, TurnedStep
<1>13. QED
  BY <1>2, <1>8, <1>9, <1>10, <1>11, <1>12 DEF Elapsed

\* uxMissedTicks is not a part of what a tick does to the lists.
LEMMA MissedFacts ==
  ASSUME NEW s, NEW r, NEW n, Elapsed(s, r, n)
  PROVE  LET q == [r EXCEPT !.missedTicks = @ - 1]
         IN  Elapsed(s, q, n) /\ q.missedTicks = r.missedTicks - 1
<1> DEFINE q == [r EXCEPT !.missedTicks = @ - 1]
           d == r.missedTicks - 1
<1>1. r \in KernelRecord /\ d \in Int /\ q = [r EXCEPT !.missedTicks = d]
  BY FieldTypes DEF Elapsed
<1> HIDE DEF q, d
<1>2. /\ q \in KernelRecord /\ q.missedTicks = d
      /\ SameStates(q, r) /\ SameEvents(q, r) /\ SameClock(q, r) /\ SameSems(q, r)
      /\ q.current = r.current /\ q.suspended = r.suspended /\ q.missedYield = r.missedYield
  BY <1>1 DEF KernelRecord, SameStates, SameEvents, SameClock, SameSems
<1>3. /\ ReadyOf(q) = ReadyOf(r) /\ DelayedOf(q) = DelayedOf(r) /\ OverflowOf(q) = OverflowOf(r)
      /\ PendingOf(q) = PendingOf(r) /\ \A m \in Sem : WaitingOf(q, m) = WaitingOf(r, m)
  BY <1>2 DEF SameStates, SameEvents, ReadyOf, DelayedOf, OverflowOf, PendingOf, WaitingOf
<1>4. StateLists(q)
  <2>1. StateLists(r)
    BY DEF Elapsed
  <2>2. TaskLists(q)
    BY <1>2, <1>3, <2>1 DEF StateLists, TaskLists, SameStates
  <2>3. QED
    BY <1>2, <1>3, <2>1, <2>2 DEF StateLists, SameStates, SameClock
<1>5. EventLists(q)
  BY <1>2, <1>3 DEF Elapsed, EventLists, SameEvents
<1>6. Timed(q) = Timed(r) /\ \A t \in Timed(q) : Due(q, t) = Due(r, t)
  BY <1>2, <1>3 DEF Timed, Due, SameStates, SameClock
<1>7. /\ SameSems(q, s) /\ q.blocked = s.blocked /\ q.current = s.current
      /\ q.suspended = s.suspended /\ q.missedYield = s.missedYield
      /\ q.tick = r.tick /\ q.overflows = r.overflows
  BY <1>2 DEF Elapsed, SameSems, SameStates, SameClock
<1>8. Elapsed(s, q, n)
  BY <1>2, <1>3, <1>4, <1>5, <1>6, <1>7 DEF Elapsed
<1>9. QED
  BY <1>2, <1>8 DEF q, d

\* The ticks missed while the scheduler was suspended are made up for.
LEMMA CatchUpFacts ==
  ASSUME NEW s \in KernelRecord, StateLists(s), EventLists(s), ~s.suspended,
         s.missedTicks \in Nat
  PROVE  LET r == CatchUpTicks(s)
         IN  Elapsed(s, r, s.missedTicks) /\ r.missedTicks = 0
<1> DEFINE N == s.missedTicks
           X == {r \in KernelRecord : StateLists(r) /\ EventLists(r) /\ ~r.suspended}
           step(x) == [vTaskIncrementTick(x) EXCEPT !.missedTicks = @ - 1]
           g == [n \in 1..N |-> [x \in X |-> step(x)]]
           rhs(f) == [n \in 0..N |-> IF n = 0 THEN s ELSE step(f[n - 1])]
<1>1. N \in Nat
  OBVIOUS
<1>2. ASSUME NEW x \in X
      PROVE  /\ step(x) \in X /\ Elapsed(x, step(x), 1)
             /\ step(x).missedTicks = x.missedTicks - 1
  <2>1. x \in KernelRecord /\ StateLists(x) /\ EventLists(x) /\ ~x.suspended
    OBVIOUS
  <2> DEFINE r == vTaskIncrementTick(x)
  <2>2. Elapsed(x, r, 1) /\ r.missedTicks = x.missedTicks
    BY <2>1, TickFacts
  <2> HIDE DEF r
  <2>3. /\ Elapsed(x, [r EXCEPT !.missedTicks = @ - 1], 1)
        /\ [r EXCEPT !.missedTicks = @ - 1].missedTicks = r.missedTicks - 1
    BY <2>2, MissedFacts
  <2>4. /\ Elapsed(x, step(x), 1) /\ step(x).missedTicks = x.missedTicks - 1
    BY <2>2, <2>3 DEF r
  <2> HIDE DEF step
  <2>5. step(x) \in KernelRecord /\ StateLists(step(x)) /\ EventLists(step(x)) /\ ~step(x).suspended
    BY <2>1, <2>4 DEF Elapsed
  <2>6. QED
    BY <2>4, <2>5
<1>3. s \in X
  OBVIOUS
<1> HIDE DEF step, X
<1>4. g \in [1..N -> [X -> X]]
  BY <1>2
<1>5. PICK f \in [0..N -> X] : f[0] = s /\ \A n \in 1..N : f[n] = g[n][f[n - 1]]
  <2> HIDE DEF N, g, rhs
  <2>1. \A y \in X : \A K \in Nat : \A h \in [1..K -> [X -> X]] :
          \E r \in [0..K -> X] :
            r[0] = y /\ \A n \in 1..K : r[n] = h[n][r[n - 1]]
    BY SMTT(60), Iterate
  <2>2. \A h \in [1..N -> [X -> X]] : \E r \in [0..N -> X] :
          r[0] = s /\ \A n \in 1..N : r[n] = h[n][r[n - 1]]
    BY <1>1, <1>3, <2>1
  <2>3. QED
    BY <1>4, <2>2
<1>6. \A n \in 1..N : g[n][f[n - 1]] = step(f[n - 1])
  BY <1>1
<1> HIDE DEF g
<1>7. f = rhs(f)
  <2>1. \A n \in 1..N : f[n] = step(f[n - 1])
    BY <1>5, <1>6
  <2>2. \A n \in 0..N : n = 0 \/ (n \in 1..N /\ n # 0)
    BY <1>1
  <2>3. f = [n \in 0..N |-> f[n]]
    OBVIOUS
  <2>4. QED
    BY <1>5, <2>1, <2>2, <2>3
<1> DEFINE f0 == CHOOSE x : x = rhs(x)
<1>8. f0 = rhs(f0)
  BY <1>7
<1>9. CatchUpTicks(s) = f0[N]
  BY DEF CatchUpTicks, step
<1> HIDE DEF f0
<1>10. f0[0] = s /\ \A n \in 1..N : f0[n] = step(f0[n - 1])
  <2>1. \A n \in 0..N : f0[n] = IF n = 0 THEN s ELSE step(f0[n - 1])
    BY <1>8, Zenon
  <2>2. 0 \in 0..N /\ \A n \in 1..N : n \in 0..N /\ n # 0
    BY <1>1
  <2>3. QED
    BY <2>1, <2>2
<1> DEFINE Good(n) == f0[n] \in X /\ Elapsed(s, f0[n], n) /\ f0[n].missedTicks = N - n
           Bad == {m \in 0..N : ~Good(m)}
<1>11. Good(0)
  BY <1>1, <1>3, <1>10, ElapsedNone
<1>12. ASSUME NEW n \in 1..N, Good(n - 1) PROVE Good(n)
  <2>1. n \in Nat /\ n - 1 \in Nat /\ (n - 1) + 1 = n /\ f0[n] = step(f0[n - 1])
    BY <1>1, <1>10
  <2>2. /\ f0[n] \in X /\ Elapsed(f0[n - 1], f0[n], 1)
        /\ f0[n].missedTicks = f0[n - 1].missedTicks - 1
    BY <1>2, <1>12, <2>1
  <2>3. f0[n].missedTicks = N - n
    BY <1>1, <1>12, <2>1, <2>2
  <2>4. Elapsed(s, f0[n], (n - 1) + 1)
    BY <1>12, <2>1, <2>2, ElapsedStep
  <2>5. QED
    BY <2>1, <2>2, <2>3, <2>4
<1> HIDE DEF Good
<1>13. Bad = {}
  <2> SUFFICES ASSUME Bad # {} PROVE FALSE
    OBVIOUS
  <2>1. Bad \subseteq Nat /\ \A m \in 0..N : m \in Bad <=> ~Good(m)
    BY <1>1
  <2> HIDE DEF Bad
  <2>2. PICK m \in Bad : \A l \in Bad : m <= l
    BY <2>1, LeastElement
  <2>3. m \in 0..N /\ m # 0
    BY <1>11, <2>1 DEF Bad
  <2>4. m \in 1..N /\ m - 1 \in 0..N
    BY <1>1, <2>3
  <2>5. m - 1 \notin Bad
    BY <2>2, <2>4
  <2>6. QED
    BY <1>12, <2>1, <2>2, <2>3, <2>4, <2>5
<1>14. Good(N)
  BY <1>1, <1>13
<1>15. QED
  BY <1>1, <1>9, <1>14 DEF Good
-----------------------------------------------------------------------------
(* Waking tasks.                                                           *)

\* Tasks leave the list for their state and become ready.
LEMMA ReadyFacts ==
  ASSUME NEW s \in KernelRecord, StateLists(s), NEW q \in Seq(Task), Distinct(q),
         Members(q) \cap ReadyOf(s) = {}
  PROVE  LET r == MakeReady(s, q)
         IN  /\ r \in KernelRecord /\ StateLists(r)
             /\ ReadyOf(r) = ReadyOf(s) \cup Members(q)
             /\ Timed(r) = Timed(s) \ Members(q) /\ r.blocked = s.blocked \ Members(q)
             /\ \A t \in Timed(r) : Due(r, t) = Due(s, t)
             /\ SameEvents(r, s) /\ SameClock(r, s) /\ SameFlags(r, s) /\ SameSems(r, s)
<1> DEFINE T == Members(q)
           u == RemoveGenericItems(s, T)
           r == AddToReadyQueue(u, q)
<1>1. /\ u \in KernelRecord
      /\ ReadyOf(u) = ReadyOf(s) \ T /\ DelayedOf(u) = DelayedOf(s) \ T
      /\ OverflowOf(u) = OverflowOf(s) \ T /\ u.blocked = s.blocked \ T
      /\ Distinct(u.ready) /\ Distinct(u.delayed) /\ Distinct(u.overflow)
      /\ Ordered(u.delayed, u.wake) /\ Ordered(u.overflow, u.wake)
      /\ u.wake = s.wake /\ SameEvents(u, s) /\ SameClock(u, s)
      /\ SameFlags(u, s) /\ SameSems(u, s)
  BY RemoveGenericFacts DEF StateLists
<1>2. T \subseteq Task
  BY MembersFacts
<1> HIDE DEF T, u
<1>3. /\ r \in KernelRecord /\ r.ready = u.ready \o q
      /\ r.delayed = u.delayed /\ r.overflow = u.overflow /\ r.blocked = u.blocked
      /\ r.wake = [t \in Task |-> IF t \in T THEN 0 ELSE u.wake[t]]
      /\ SameEvents(r, u) /\ SameClock(r, u) /\ SameFlags(r, u) /\ SameSems(r, u)
  BY <1>1, AddToReadyFacts DEF T
<1>4. MakeReady(s, q) = r
  BY DEF MakeReady, T, u
<1> HIDE DEF r
<1>5. ReadyOf(r) = ReadyOf(s) \cup T /\ Distinct(r.ready)
  <2>1. Members(u.ready) \cap Members(q) = {}
    BY <1>1 DEF T, ReadyOf
  <2>2. u.ready \in Seq(Task)
    BY <1>1, FieldTypes
  <2>3. Members(u.ready \o q) = Members(u.ready) \cup Members(q) /\ Distinct(u.ready \o q)
    BY <1>1, <2>1, <2>2, ConcatFacts
  <2>4. Members(r.ready) = (Members(s.ready) \ T) \cup T
    BY <1>1, <1>3, <2>3 DEF ReadyOf, T
  <2>5. QED
    BY <1>3, <2>3, <2>4 DEF ReadyOf
<1>6. DelayedOf(r) = DelayedOf(s) \ T /\ OverflowOf(r) = OverflowOf(s) \ T
  BY <1>1, <1>3 DEF DelayedOf, OverflowOf
<1>7. \A t \in DelayedOf(r) \cup OverflowOf(r) : r.wake[t] = s.wake[t]
  <2>1. DelayedOf(s) \subseteq Task /\ OverflowOf(s) \subseteq Task
    BY FieldTypes
  <2>2. QED
    BY <1>1, <1>3, <1>6, <2>1
<1>8. Ordered(r.delayed, r.wake) /\ Ordered(r.overflow, r.wake)
  <2>1. \A t \in Members(u.delayed) : u.wake[t] = r.wake[t]
    BY <1>1, <1>3, <1>7 DEF DelayedOf
  <2>2. \A t \in Members(u.overflow) : u.wake[t] = r.wake[t]
    BY <1>1, <1>3, <1>7 DEF OverflowOf
  <2>3. u.delayed \in Seq(Task) /\ u.overflow \in Seq(Task)
    BY <1>1, FieldTypes
  <2>4. Ordered(u.delayed, r.wake)
    BY <1>1, <2>1, <2>3, SameOrder
  <2>5. Ordered(u.overflow, r.wake)
    BY <1>1, <2>2, <2>3, SameOrder
  <2>6. QED
    BY <1>3, <2>4, <2>5
<1>9. r.blocked = s.blocked \ T
  BY <1>1, <1>3
<1>10. TaskLists(r)
  <2>1. Distinct(r.delayed) /\ Distinct(r.overflow)
    BY <1>1, <1>3
  <2>2. TaskLists(s)
    BY DEF StateLists
  <2>3. /\ Task \subseteq ReadyOf(r) \cup DelayedOf(r) \cup OverflowOf(r) \cup r.blocked
        /\ ReadyOf(r) \cap DelayedOf(r) = {} /\ ReadyOf(r) \cap OverflowOf(r) = {}
        /\ ReadyOf(r) \cap r.blocked = {} /\ DelayedOf(r) \cap OverflowOf(r) = {}
        /\ DelayedOf(r) \cap r.blocked = {} /\ OverflowOf(r) \cap r.blocked = {}
    BY <1>5, <1>6, <1>9, <2>2 DEF TaskLists
  <2>4. QED
    BY <1>5, <1>8, <2>1, <2>3 DEF TaskLists
<1>11. SameEvents(r, s) /\ SameClock(r, s) /\ SameFlags(r, s) /\ SameSems(r, s)
  BY <1>1, <1>3 DEF SameEvents, SameClock, SameFlags, SameSems
<1>12. StateLists(r)
  <2>1. \A t \in DelayedOf(r) : r.tick < r.wake[t]
    BY <1>6, <1>7, <1>11 DEF StateLists, SameClock
  <2>2. \A t \in OverflowOf(r) : r.wake[t] < r.tick
    BY <1>6, <1>7, <1>11 DEF StateLists, SameClock
  <2>3. QED
    BY <1>10, <2>1, <2>2 DEF StateLists
<1>13. Timed(r) = Timed(s) \ T
  BY <1>6 DEF Timed
<1>14. \A t \in Timed(r) : Due(r, t) = Due(s, t)
  BY <1>6, <1>7, <1>11 DEF Timed, Due, SameClock
<1>15. QED
  BY <1>3, <1>4, <1>5, <1>9, <1>11, <1>12, <1>13, <1>14 DEF T

\* The tasks woken while the scheduler was suspended become ready.
LEMMA PendingReadyFacts ==
  ASSUME NEW s \in KernelRecord, StateLists(s), EventLists(s), Apart(s)
  PROVE  LET r == MakePendingReady(s)
         IN  /\ r \in KernelRecord /\ StateLists(r) /\ EventLists(r)
             /\ ReadyOf(r) = ReadyOf(s) \cup PendingOf(s)
             /\ Timed(r) = Timed(s) \ PendingOf(s) /\ r.blocked = s.blocked \ PendingOf(s)
             /\ \A t \in Timed(r) : Due(r, t) = Due(s, t)
             /\ r.pending = <<>> /\ r.waiting = s.waiting
             /\ SameClock(r, s) /\ SameFlags(r, s) /\ SameSems(r, s)
<1>1. s.pending \in Seq(Task) /\ <<>> \in Seq(Task)
  BY FieldTypes
<1>2. CASE s.pending = <<>>
  <2>1. MakePendingReady(s) = s
    BY <1>2 DEF MakePendingReady
  <2>2. PendingOf(s) = {}
    BY <1>1, <1>2, MembersFacts DEF PendingOf
  <2>3. \A X : X \cup {} = X /\ X \ {} = X
    OBVIOUS
  <2>4. QED
    BY <1>2, <2>1, <2>2, <2>3 DEF SameClock, SameFlags, SameSems
<1>3. CASE s.pending # <<>>
  <2> DEFINE q == s.pending
             u == [s EXCEPT !.pending = <<>>]
             r == MakeReady(u, q)
  <2>1. MakePendingReady(s) = r
    BY <1>3 DEF MakePendingReady
  <2>2. /\ u \in KernelRecord /\ u.pending = <<>> /\ u.waiting = s.waiting
        /\ SameStates(u, s) /\ SameClock(u, s) /\ SameFlags(u, s) /\ SameSems(u, s)
    BY <1>1 DEF KernelRecord, SameStates, SameClock, SameFlags, SameSems
  <2> HIDE DEF u
  <2>3. /\ ReadyOf(u) = ReadyOf(s) /\ DelayedOf(u) = DelayedOf(s) /\ OverflowOf(u) = OverflowOf(s)
        /\ u.blocked = s.blocked /\ Timed(u) = Timed(s)
        /\ \A t \in Timed(u) : Due(u, t) = Due(s, t)
    BY <2>2 DEF SameStates, SameClock, ReadyOf, DelayedOf, OverflowOf, Timed, Due
  <2>4. StateLists(u)
    <3>1. TaskLists(u)
      BY <2>2, <2>3 DEF StateLists, TaskLists, SameStates
    <3>2. QED
      BY <2>2, <2>3, <3>1 DEF StateLists, SameStates, SameClock
  <2>5. /\ q \in Seq(Task) /\ Distinct(q) /\ Members(q) = PendingOf(s)
        /\ Members(q) \cap ReadyOf(u) = {}
    BY <1>1, <2>3 DEF EventLists, Apart, PendingOf
  <2> HIDE DEF q
  <2>6. /\ r \in KernelRecord /\ StateLists(r)
        /\ ReadyOf(r) = ReadyOf(u) \cup Members(q)
        /\ Timed(r) = Timed(u) \ Members(q) /\ r.blocked = u.blocked \ Members(q)
        /\ \A t \in Timed(r) : Due(r, t) = Due(u, t)
        /\ SameEvents(r, u) /\ SameClock(r, u) /\ SameFlags(r, u) /\ SameSems(r, u)
    BY <2>2, <2>4, <2>5, ReadyFacts
  <2> HIDE DEF r
  <2>7. /\ r.pending = <<>> /\ r.waiting = s.waiting
        /\ SameClock(r, s) /\ SameFlags(r, s) /\ SameSems(r, s)
    BY <2>2, <2>6 DEF SameEvents, SameClock, SameFlags, SameSems
  <2>8. PendingOf(r) = {} /\ Distinct(r.pending)
    BY <2>7 DEF PendingOf, Members, Distinct
  <2>9. EventLists(r)
    BY <2>7, <2>8 DEF EventLists, WaitingOf
  <2>10. \A t \in Timed(r) : Due(r, t) = Due(s, t)
    BY <2>3, <2>6
  <2>11. QED
    BY <2>1, <2>3, <2>5, <2>6, <2>7, <2>9, <2>10
<1>4. QED
  BY <1>2, <1>3

\* What the lists say does not depend on the other fields.
LEMMA SameStatesFacts ==
  ASSUME NEW s \in KernelRecord, NEW r \in KernelRecord, StateLists(s),
         SameStates(r, s), SameClock(r, s)
  PROVE  /\ StateLists(r) /\ ReadyOf(r) = ReadyOf(s) /\ DelayedOf(r) = DelayedOf(s)
         /\ OverflowOf(r) = OverflowOf(s) /\ r.blocked = s.blocked /\ Timed(r) = Timed(s)
         /\ \A t \in Timed(r) : Due(r, t) = Due(s, t)
<1>1. /\ ReadyOf(r) = ReadyOf(s) /\ DelayedOf(r) = DelayedOf(s) /\ OverflowOf(r) = OverflowOf(s)
      /\ r.blocked = s.blocked /\ Timed(r) = Timed(s)
      /\ \A t \in Timed(r) : Due(r, t) = Due(s, t)
  BY DEF SameStates, SameClock, ReadyOf, DelayedOf, OverflowOf, Timed, Due
<1>2. TaskLists(r)
  BY <1>1 DEF StateLists, TaskLists, SameStates
<1>3. StateLists(r)
  BY <1>1, <1>2 DEF StateLists, SameStates, SameClock
<1>4. QED
  BY <1>1, <1>3

\* What the event lists say does not depend on the other fields.
LEMMA SameEventsFacts ==
  ASSUME NEW s, NEW r, EventLists(s), SameEvents(r, s)
  PROVE  /\ EventLists(r) /\ PendingOf(r) = PendingOf(s)
         /\ \A m \in Sem : WaitingOf(r, m) = WaitingOf(s, m)
BY DEF SameEvents, EventLists, PendingOf, WaitingOf

\* The scheduler runs again: the pending tasks and those whose time has come
\* are ready, and the missed ticks have passed.
LEMMA ResumeFacts ==
  ASSUME NEW s \in KernelRecord, StateLists(s), EventLists(s), Apart(s),
         s.missedTicks \in Nat
  PROVE  LET r == xTaskResumeAll(s)
             n == s.missedTicks
             T == PendingOf(s) \cup Expired(s, n)
         IN  /\ r \in KernelRecord /\ StateLists(r) /\ EventLists(r)
             /\ ReadyOf(r) = ReadyOf(s) \cup T /\ Timed(r) = Timed(s) \ T
             /\ r.blocked = s.blocked \ PendingOf(s)
             /\ \A t \in Timed(r) : Due(r, t) = Due(s, t) - n
             /\ r.pending = <<>>
             /\ \A m \in Sem : WaitingOf(r, m) = WaitingOf(s, m) \ T
             /\ n < TickMod => Later(s.overflows, s.tick, n, r.overflows, r.tick)
             /\ Turned(s.overflows, s.tick, n, r.overflows, r.tick)
             /\ ~r.suspended /\ r.missedTicks = 0 /\ ~r.missedYield /\ SameSems(r, s)
             /\ IF YieldsOnResume(s) THEN r.current \in ReadyOf(r) \cup {Idle}
                ELSE r.current = s.current
<1> DEFINE n == s.missedTicks
           P == PendingOf(s)
           T == P \cup Expired(s, n)
           u == [s EXCEPT !.suspended = FALSE]
           v == MakePendingReady(u)
           w == CatchUpTicks(v)
           y == [w EXCEPT !.missedYield = FALSE]
           r == IF YieldsOnResume(s) THEN vTaskSwitchContext(y) ELSE w
<1>1. r = xTaskResumeAll(s)
  BY DEF xTaskResumeAll
<1>2. /\ u \in KernelRecord /\ SameStates(u, s) /\ SameEvents(u, s) /\ SameClock(u, s)
      /\ SameSems(u, s) /\ u.current = s.current /\ ~u.suspended /\ u.missedTicks = n
      /\ u.missedYield = s.missedYield
  BY DEF KernelRecord, SameStates, SameEvents, SameClock, SameSems
<1> HIDE DEF u
<1>3. /\ StateLists(u) /\ ReadyOf(u) = ReadyOf(s) /\ u.blocked = s.blocked
      /\ Timed(u) = Timed(s) /\ \A t \in Timed(u) : Due(u, t) = Due(s, t)
  BY <1>2, SameStatesFacts
<1>4. /\ EventLists(u) /\ PendingOf(u) = P /\ \A m \in Sem : WaitingOf(u, m) = WaitingOf(s, m)
  BY <1>2, SameEventsFacts
<1>5. Apart(u)
  BY <1>3, <1>4 DEF Apart
<1>6. /\ v \in KernelRecord /\ StateLists(v) /\ EventLists(v)
      /\ ReadyOf(v) = ReadyOf(u) \cup PendingOf(u)
      /\ Timed(v) = Timed(u) \ PendingOf(u) /\ v.blocked = u.blocked \ PendingOf(u)
      /\ \A t \in Timed(v) : Due(v, t) = Due(u, t)
      /\ v.pending = <<>> /\ v.waiting = u.waiting
      /\ SameClock(v, u) /\ SameFlags(v, u) /\ SameSems(v, u)
  BY <1>2, <1>3, <1>4, <1>5, PendingReadyFacts
<1> HIDE DEF v
<1>7. /\ v \in KernelRecord /\ StateLists(v) /\ EventLists(v)
      /\ ReadyOf(v) = ReadyOf(s) \cup P
      /\ Timed(v) = Timed(s) \ P /\ v.blocked = s.blocked \ P
      /\ \A t \in Timed(v) : Due(v, t) = Due(s, t)
      /\ PendingOf(v) = {} /\ \A m \in Sem : WaitingOf(v, m) = WaitingOf(s, m)
      /\ v.tick = s.tick /\ v.overflows = s.overflows /\ SameSems(v, s)
      /\ v.current = s.current /\ ~v.suspended /\ v.missedTicks = n
      /\ v.missedYield = s.missedYield
  <2>1. PendingOf(v) = {}
    BY <1>6 DEF PendingOf, Members
  <2>2. \A m \in Sem : WaitingOf(v, m) = WaitingOf(s, m)
    BY <1>4, <1>6 DEF WaitingOf
  <2>3. \A t \in Timed(v) : Due(v, t) = Due(s, t)
    BY <1>3, <1>6
  <2>4. QED
    BY <1>2, <1>3, <1>4, <1>6, <2>1, <2>2, <2>3 DEF SameClock, SameFlags, SameSems
<1>8. Elapsed(v, w, n) /\ w.missedTicks = 0
  BY <1>7, CatchUpFacts
<1> HIDE DEF w
<1>9. Expired(v, n) = Expired(s, n) \ P
  BY <1>7 DEF Expired
<1>10. \A m \in Sem : WaitingOf(s, m) \cap P = {}
  BY DEF EventLists
<1>11. /\ w \in KernelRecord /\ StateLists(w) /\ EventLists(w)
       /\ ReadyOf(w) = ReadyOf(s) \cup T /\ Timed(w) = Timed(s) \ T
       /\ w.blocked = s.blocked \ P /\ PendingOf(w) = {}
       /\ \A m \in Sem : WaitingOf(w, m) = WaitingOf(s, m) \ T
  <2>1. /\ w \in KernelRecord /\ StateLists(w) /\ EventLists(w)
        /\ ReadyOf(w) = ReadyOf(v) \cup Expired(v, n) /\ Timed(w) = Timed(v) \ Expired(v, n)
        /\ w.blocked = v.blocked /\ PendingOf(w) = PendingOf(v) \ Expired(v, n)
        /\ \A m \in Sem : WaitingOf(w, m) = WaitingOf(v, m) \ Expired(v, n)
    BY <1>8 DEF Elapsed
  <2>2. \A m \in Sem : WaitingOf(w, m) = WaitingOf(s, m) \ T
    BY <1>7, <1>9, <1>10, <2>1
  <2>3. QED
    BY <1>7, <1>9, <2>1, <2>2
<1>12. \A t \in Timed(w) : Due(w, t) = Due(s, t) - n
  <2>1. \A t \in Timed(w) : Due(w, t) = Due(v, t) - n /\ t \in Timed(v)
    BY <1>8 DEF Elapsed
  <2>2. QED
    BY <1>7, <2>1
<1>13. /\ n < TickMod => Later(s.overflows, s.tick, n, w.overflows, w.tick)
       /\ Turned(s.overflows, s.tick, n, w.overflows, w.tick)
       /\ SameSems(w, s) /\ w.current = s.current /\ ~w.suspended
       /\ w.missedYield = s.missedYield /\ w.missedTicks = 0
  BY <1>7, <1>8 DEF Elapsed, SameSems
<1>14. w.pending = <<>>
  BY <1>11, FieldTypes, MembersFacts DEF PendingOf
<1> HIDE DEF T, P
<1>15. CASE ~YieldsOnResume(s)
  <2>1. r = w /\ ~w.missedYield
    BY <1>13, <1>15 DEF YieldsOnResume
  <2> HIDE DEF r
  <2>2. QED
    BY <1>1, <1>11, <1>12, <1>13, <1>14, <1>15, <2>1 DEF T, P
<1>16. CASE YieldsOnResume(s)
  <2>1. /\ y \in KernelRecord /\ SameStates(y, w) /\ SameEvents(y, w) /\ SameClock(y, w)
        /\ SameSems(y, w) /\ y.missedTicks = 0 /\ ~y.suspended /\ ~y.missedYield
    BY ZenonT(60), <1>11, <1>13 DEF KernelRecord, SameStates, SameEvents, SameClock, SameSems
  <2> HIDE DEF y
  <2>2. /\ StateLists(y) /\ ReadyOf(y) = ReadyOf(w) /\ y.blocked = w.blocked
        /\ Timed(y) = Timed(w) /\ \A t \in Timed(y) : Due(y, t) = Due(w, t)
    BY <1>11, <2>1, SameStatesFacts
  <2>3. /\ EventLists(y) /\ \A m \in Sem : WaitingOf(y, m) = WaitingOf(w, m)
    BY <1>11, <2>1, SameEventsFacts
  <2>4. r = vTaskSwitchContext(y)
    BY <1>16
  <2> HIDE DEF r
  <2>5. /\ r \in KernelRecord /\ StateLists(r)
        /\ ReadyOf(r) = ReadyOf(y) /\ DelayedOf(r) = DelayedOf(y)
        /\ OverflowOf(r) = OverflowOf(y) /\ r.blocked = y.blocked /\ r.wake = y.wake
        /\ SameEvents(r, y) /\ SameClock(r, y) /\ SameSems(r, y)
        /\ r.suspended = y.suspended /\ r.missedTicks = y.missedTicks
        /\ ~y.suspended => /\ r.missedYield = y.missedYield
                           /\ r.current \in ReadyOf(y) \cup {Idle}
    BY <2>1, <2>2, <2>4, SwitchFacts
  <2>6. /\ EventLists(r) /\ \A m \in Sem : WaitingOf(r, m) = WaitingOf(y, m)
    BY <2>3, <2>5, SameEventsFacts
  <2>7. Timed(r) = Timed(y) /\ \A t \in Timed(r) : Due(r, t) = Due(y, t)
    BY <2>5 DEF Timed, Due, SameClock
  <2>8. /\ ReadyOf(r) = ReadyOf(w) /\ Timed(r) = Timed(w) /\ r.blocked = w.blocked
        /\ \A t \in Timed(r) : Due(r, t) = Due(w, t)
        /\ \A m \in Sem : WaitingOf(r, m) = WaitingOf(w, m)
    BY <2>2, <2>3, <2>5, <2>6, <2>7
  <2>9. \A t \in Timed(r) : Due(r, t) = Due(s, t) - n
    BY <1>12, <2>8
  <2>10. /\ r.pending = <<>> /\ SameSems(r, s) /\ r.tick = w.tick /\ r.overflows = w.overflows
         /\ ~r.suspended /\ r.missedTicks = 0 /\ ~r.missedYield
         /\ r.current \in ReadyOf(r) \cup {Idle}
    BY <1>13, <1>14, <2>1, <2>2, <2>5 DEF SameEvents, SameSems, SameClock
  <2>11. QED
    BY <1>1, <1>11, <1>13, <1>16, <2>5, <2>6, <2>8, <2>9, <2>10 DEF T, P
<1>17. QED
  BY <1>15, <1>16

\* The first waiter leaves the event list: it is ready, or pending while the
\* scheduler is suspended.
LEMMA WakeFacts ==
  ASSUME NEW s \in KernelRecord, StateLists(s), EventLists(s), Apart(s),
         NEW m \in Sem, s.waiting[m] # <<>>, ~s.suspended
  PROVE  LET r == xTaskRemoveFromEventList(s, m)
             t == Head(s.waiting[m])
         IN  /\ t \in WaitingOf(s, m)
             /\ r \in KernelRecord /\ StateLists(r) /\ EventLists(r)
             /\ ReadyOf(r) = ReadyOf(s) \cup {t} /\ Timed(r) = Timed(s) \ {t}
             /\ r.blocked = s.blocked \ {t}
             /\ \A x \in Timed(r) : Due(r, x) = Due(s, x)
             /\ \A i \in Sem : WaitingOf(r, i) = WaitingOf(s, i) \ {t}
             /\ r.pending = s.pending
             /\ SameClock(r, s) /\ SameFlags(r, s) /\ SameSems(r, s)
<1> DEFINE t == Head(s.waiting[m])
           p == Tail(s.waiting[m])
           W == [s.waiting EXCEPT ![m] = p]
           u == [s EXCEPT !.waiting = W]
           q == <<t>>
           r == MakeReady(u, q)
<1>1. /\ s.waiting[m] \in Seq(Task) /\ s.waiting \in [Sem -> Seq(Task)]
      /\ Distinct(s.waiting[m])
  BY FieldTypes DEF EventLists
<1>2. /\ t \in Task /\ t \in WaitingOf(s, m) /\ p \in Seq(Task)
      /\ WaitingOf(s, m) = Members(p) \cup {t}
      /\ Distinct(p) /\ t \notin Members(p)
  <2> DEFINE b == s.waiting[m]
  <2>1. b \in Seq(Task) /\ b # <<>> /\ Distinct(b)
    BY <1>1
  <2> HIDE DEF b
  <2>2. /\ Head(b) \in Task /\ Head(b) \in Members(b) /\ Tail(b) \in Seq(Task)
        /\ Members(b) = Members(Tail(b)) \cup {Head(b)}
        /\ Distinct(Tail(b)) /\ Head(b) \notin Members(Tail(b))
    BY <2>1, HeadFacts
  <2>3. QED
    BY <2>2 DEF b, WaitingOf
<1>3. xTaskRemoveFromEventList(s, m) = r
  BY DEF xTaskRemoveFromEventList
<1>4. q \in Seq(Task) /\ Members(q) = {t} /\ Distinct(q)
  <2> HIDE DEF t
  <2>1. q \in Seq(Task) /\ Len(q) = 1 /\ q[1] = t
    BY <1>2
  <2>2. \A i \in 1..Len(q) : i = 1
    BY <2>1
  <2>3. 1 \in 1..Len(q)
    BY <2>1
  <2> HIDE DEF q
  <2>4. QED
    BY <2>1, <2>2, <2>3 DEF Members, Distinct
<1> HIDE DEF t, p, q
<1>5. /\ W \in [Sem -> Seq(Task)] /\ W[m] = p /\ \A i \in Sem : i # m => W[i] = s.waiting[i]
  BY <1>1, <1>2
<1> HIDE DEF W
<1>6. /\ u \in KernelRecord /\ u.waiting = W /\ u.pending = s.pending
      /\ SameStates(u, s) /\ SameClock(u, s) /\ SameFlags(u, s) /\ SameSems(u, s)
  BY <1>5 DEF KernelRecord, SameStates, SameClock, SameFlags, SameSems
<1> HIDE DEF u
<1>7. /\ StateLists(u) /\ ReadyOf(u) = ReadyOf(s) /\ u.blocked = s.blocked
      /\ Timed(u) = Timed(s) /\ \A x \in Timed(u) : Due(u, x) = Due(s, x)
  BY <1>6, SameStatesFacts
<1>8. \A i \in Sem : WaitingOf(u, i) = WaitingOf(s, i) \ {t} /\ Distinct(u.waiting[i])
  <2>1. \A i \in Sem : i # m => t \notin WaitingOf(s, i)
    BY <1>2 DEF EventLists
  <2>2. ASSUME NEW i \in Sem, i # m
        PROVE  WaitingOf(u, i) = WaitingOf(s, i) /\ Distinct(u.waiting[i])
    BY <1>5, <1>6, <2>2 DEF WaitingOf, EventLists
  <2>3. WaitingOf(u, m) = Members(p) /\ Distinct(u.waiting[m])
    BY <1>2, <1>5, <1>6 DEF WaitingOf
  <2>4. QED
    BY <1>2, <2>1, <2>2, <2>3
<1>9. EventLists(u) /\ PendingOf(u) = PendingOf(s)
  BY <1>6, <1>8 DEF EventLists, PendingOf
<1>10. {t} \cap ReadyOf(u) = {}
  BY <1>2, <1>7 DEF Apart
<1>11. /\ r \in KernelRecord /\ StateLists(r)
       /\ ReadyOf(r) = ReadyOf(u) \cup Members(q)
       /\ Timed(r) = Timed(u) \ Members(q) /\ r.blocked = u.blocked \ Members(q)
       /\ \A x \in Timed(r) : Due(r, x) = Due(u, x)
       /\ SameEvents(r, u) /\ SameClock(r, u) /\ SameFlags(r, u) /\ SameSems(r, u)
  BY <1>4, <1>6, <1>7, <1>10, ReadyFacts
<1> HIDE DEF r
<1>12. /\ EventLists(r) /\ \A i \in Sem : WaitingOf(r, i) = WaitingOf(u, i)
  BY <1>9, <1>11, SameEventsFacts
<1>13. /\ r.pending = s.pending
       /\ SameClock(r, s) /\ SameFlags(r, s) /\ SameSems(r, s)
  BY <1>6, <1>11 DEF SameEvents, SameClock, SameFlags, SameSems
<1>14. \A x \in Timed(r) : Due(r, x) = Due(s, x)
  BY <1>7, <1>11
<1>15. \A i \in Sem : WaitingOf(r, i) = WaitingOf(s, i) \ {t}
  BY <1>8, <1>12
<1>16. QED
  BY <1>2, <1>3, <1>4, <1>7, <1>11, <1>12, <1>13, <1>14, <1>15 DEF t

\* The same, followed by the switch to the next task.
LEMMA WakeAndSwitchFacts ==
  ASSUME NEW s \in KernelRecord, StateLists(s), EventLists(s), Apart(s),
         NEW m \in Sem, s.waiting[m] # <<>>, ~s.suspended
  PROVE  LET r == vTaskSwitchContext(xTaskRemoveFromEventList(s, m))
             t == Head(s.waiting[m])
         IN  /\ t \in WaitingOf(s, m)
             /\ r \in KernelRecord /\ StateLists(r) /\ EventLists(r)
             /\ ReadyOf(r) = ReadyOf(s) \cup {t} /\ Timed(r) = Timed(s) \ {t}
             /\ r.blocked = s.blocked \ {t}
             /\ \A x \in Timed(r) : Due(r, x) = Due(s, x)
             /\ \A i \in Sem : WaitingOf(r, i) = WaitingOf(s, i) \ {t}
             /\ r.pending = s.pending
             /\ SameClock(r, s) /\ SameSems(r, s)
             /\ ~r.suspended /\ r.missedTicks = s.missedTicks /\ r.missedYield = s.missedYield
             /\ r.current \in ReadyOf(r) \cup {Idle}
<1> DEFINE t == Head(s.waiting[m])
           u == xTaskRemoveFromEventList(s, m)
           r == vTaskSwitchContext(u)
<1>1. /\ t \in WaitingOf(s, m)
      /\ u \in KernelRecord /\ StateLists(u) /\ EventLists(u)
      /\ ReadyOf(u) = ReadyOf(s) \cup {t} /\ Timed(u) = Timed(s) \ {t}
      /\ u.blocked = s.blocked \ {t}
      /\ \A x \in Timed(u) : Due(u, x) = Due(s, x)
      /\ \A i \in Sem : WaitingOf(u, i) = WaitingOf(s, i) \ {t}
      /\ u.pending = s.pending
      /\ SameClock(u, s) /\ SameFlags(u, s) /\ SameSems(u, s)
  BY WakeFacts
<1> HIDE DEF u, t
<1>2. /\ r \in KernelRecord /\ StateLists(r)
      /\ ReadyOf(r) = ReadyOf(u) /\ DelayedOf(r) = DelayedOf(u)
      /\ OverflowOf(r) = OverflowOf(u) /\ r.blocked = u.blocked /\ r.wake = u.wake
      /\ SameEvents(r, u) /\ SameClock(r, u) /\ SameSems(r, u)
      /\ r.suspended = u.suspended /\ r.missedTicks = u.missedTicks
      /\ ~u.suspended => /\ r.missedYield = u.missedYield
                         /\ r.current \in ReadyOf(u) \cup {Idle}
  BY <1>1, SwitchFacts
<1>3. /\ EventLists(r) /\ \A i \in Sem : WaitingOf(r, i) = WaitingOf(u, i)
  BY <1>1, <1>2, SameEventsFacts
<1> HIDE DEF r
<1>4. Timed(r) = Timed(u) /\ \A x \in Timed(r) : Due(r, x) = Due(u, x)
  BY <1>2 DEF Timed, Due, SameClock
<1>5. \A x \in Timed(r) : Due(r, x) = Due(s, x)
  BY <1>1, <1>4
<1>6. /\ SameClock(r, s) /\ SameSems(r, s) /\ r.pending = s.pending
      /\ ~r.suspended /\ r.missedTicks = s.missedTicks /\ r.missedYield = s.missedYield
  BY <1>1, <1>2 DEF SameClock, SameSems, SameFlags, SameEvents
<1>7. QED
  BY <1>1, <1>2, <1>3, <1>4, <1>5, <1>6 DEF r, u, t

\* The lesser of two numbers.
LEMMA MinFacts ==
  ASSUME NEW a \in Int, NEW b \in Int
  PROVE  Min({a, b}) = IF a <= b THEN a ELSE b
BY DEF Min

\* prvUnlockQueue makes one waiter pending for every give that was counted.
LEMMA UnlockFacts ==
  ASSUME NEW s \in KernelRecord, StateLists(s), EventLists(s), NEW m \in Sem,
         s.txLock[m] \in Nat
  PROVE  LET r == prvUnlockQueue(s, m)
         IN  /\ r \in KernelRecord /\ EventLists(r)
             /\ \E T \in SUBSET WaitingOf(s, m) :
                  /\ PendingOf(r) = PendingOf(s) \cup T
                  /\ \A i \in Sem : WaitingOf(r, i) = WaitingOf(s, i) \ T
                  /\ s.txLock[m] > 0 /\ WaitingOf(s, m) # {} => T # {}
             /\ r.txLock = [s.txLock EXCEPT ![m] = -1] /\ r.messages = s.messages
             /\ SameStates(r, s) /\ SameClock(r, s) /\ r.current = s.current
             /\ r.suspended = s.suspended /\ r.missedTicks = s.missedTicks
<1> DEFINE w == s.waiting[m]
           n == Min({s.txLock[m], Len(w)})
           a == SubSeq(w, 1, n)
           b == SubSeq(w, n + 1, Len(w))
           W == [s.waiting EXCEPT ![m] = b]
           P == s.pending \o a
           L == [s.txLock EXCEPT ![m] = -1]
           y == s.missedYield \/ n > 0
           r == [s EXCEPT !.txLock = L, !.waiting = W, !.pending = P, !.missedYield = y]
<1>1. /\ w \in Seq(Task) /\ s.waiting \in [Sem -> Seq(Task)] /\ Distinct(w) /\ Len(w) \in Nat
      /\ s.pending \in Seq(Task) /\ Distinct(s.pending)
      /\ s.txLock \in [Sem -> -1..1] /\ s.missedYield \in BOOLEAN
  BY FieldTypes DEF EventLists
<1>2. /\ n \in 0..Len(w) /\ (n = 0 => s.txLock[m] = 0 \/ Len(w) = 0)
  <2> DEFINE l == Len(w)
             x == s.txLock[m]
  <2>1. l \in Nat /\ x \in Nat /\ n = Min({x, l})
    BY <1>1
  <2> HIDE DEF l, x, n
  <2>2. n = IF x <= l THEN x ELSE l
    BY <2>1, MinFacts
  <2>3. n \in 0..l /\ (n = 0 => x = 0 \/ l = 0)
    BY <2>1, <2>2
  <2>4. QED
    BY <2>3 DEF l, x
<1>3. r = prvUnlockQueue(s, m)
  BY DEF prvUnlockQueue
<1> HIDE DEF n
<1>4. /\ a \in Seq(Task) /\ b \in Seq(Task)
      /\ Members(w) = Members(a) \cup Members(b)
      /\ \A x : x \in Members(a) <=> \E i \in 1..n : w[i] = x
      /\ Distinct(a) /\ Distinct(b) /\ Members(a) \cap Members(b) = {}
  <2> HIDE DEF w
  <2>1. QED
    BY ZenonT(60), <1>1, <1>2, SplitFacts
<1>5. Members(w) = WaitingOf(s, m)
  BY DEF WaitingOf
<1>6. s.txLock[m] > 0 /\ WaitingOf(s, m) # {} => Members(a) # {}
  <2>1. ASSUME s.txLock[m] > 0, Members(w) # {} PROVE Members(a) # {}
    <3>1. w # <<>>
      BY <1>1, <2>1, MembersFacts
    <3>2. Len(w) # 0
      BY <1>1, <3>1
    <3>3. n # 0
      BY <1>2, <2>1, <3>2
    <3>4. 1 \in 1..n
      BY <1>1, <1>2, <3>3
    <3>5. QED
      BY <1>4, <3>4
  <2>2. QED
    BY <1>5, <2>1
<1> HIDE DEF a, b, w
<1>7. /\ P \in Seq(Task) /\ Members(P) = PendingOf(s) \cup Members(a) /\ Distinct(P)
  <2>1. Members(s.pending) \cap Members(a) = {}
    BY <1>4, <1>5 DEF EventLists, PendingOf
  <2>2. QED
    BY <1>1, <1>4, <2>1, ConcatFacts DEF PendingOf
<1>8. /\ W \in [Sem -> Seq(Task)] /\ W[m] = b /\ \A i \in Sem : i # m => W[i] = s.waiting[i]
  BY <1>1, <1>4
<1>9. L \in [Sem -> -1..1] /\ y \in BOOLEAN
  BY <1>1, <1>2
<1> HIDE DEF P, W, L, y
<1>10. /\ r \in KernelRecord /\ r.waiting = W /\ r.pending = P /\ r.txLock = L
       /\ r.messages = s.messages /\ SameStates(r, s) /\ SameClock(r, s)
       /\ r.current = s.current /\ r.suspended = s.suspended /\ r.missedTicks = s.missedTicks
  BY <1>7, <1>8, <1>9 DEF KernelRecord, SameStates, SameClock
<1> HIDE DEF r
<1>11. \A i \in Sem : WaitingOf(r, i) = WaitingOf(s, i) \ Members(a) /\ Distinct(r.waiting[i])
  <2>1. ASSUME NEW i \in Sem, i # m
        PROVE  WaitingOf(r, i) = WaitingOf(s, i) /\ Distinct(r.waiting[i])
    BY <1>8, <1>10, <2>1 DEF WaitingOf, EventLists
  <2>2. WaitingOf(r, m) = Members(b) /\ Distinct(r.waiting[m])
    BY <1>4, <1>8, <1>10 DEF WaitingOf
  <2>3. \A i \in Sem : i # m => WaitingOf(s, i) \cap Members(a) = {}
    BY <1>4, <1>5 DEF EventLists
  <2>4. QED
    BY <1>4, <1>5, <2>1, <2>2, <2>3
<1>12. PendingOf(r) = PendingOf(s) \cup Members(a) /\ Distinct(r.pending)
  BY <1>7, <1>10 DEF PendingOf
<1>13. EventLists(r)
  <2>1. \A i \in Sem : WaitingOf(r, i) \cap PendingOf(r) = {}
    BY <1>11, <1>12 DEF EventLists
  <2>2. \A i, j \in Sem : i # j => WaitingOf(r, i) \cap WaitingOf(r, j) = {}
    BY <1>11 DEF EventLists
  <2>3. QED
    BY <1>11, <1>12, <2>1, <2>2 DEF EventLists
<1>14. Members(a) \in SUBSET WaitingOf(s, m)
  BY <1>4, <1>5
<1>15. QED
  BY <1>3, <1>6, <1>10, <1>11, <1>12, <1>13, <1>14 DEF r, L
-----------------------------------------------------------------------------
(* The inductive invariant.                                                *)

Places == {"app", "delay_until", "delay_resume", "delay_yield", "delay_return",
           "take", "take_suspend", "take_lock", "take_empty", "take_place",
           "take_unlock", "take_resume", "take_yield", "take_failed"}
Suspending == {"delay_resume", "take_lock", "take_empty", "take_place", "take_unlock",
               "take_resume"}
Locking == {"take_empty", "take_place", "take_unlock"}
Delaying == {"delay_resume", "delay_yield", "delay_return"}
Woken == {"take_resume", "take_yield", "take"}
Calls == [sem : Sem \cup {NoTask}, ticks : 0..MaxDelay, asked : 0..MaxDelay,
          timeOut : {<<>>} \cup ((0..(OverflowMod - 1)) \X (0..(TickMod - 1))),
          outcome : {"none", "block", "retry", "timeout"}]

Types ==
  /\ k \in KernelRecord /\ k.missedTicks \in Nat
  /\ pc \in [Task -> Places] /\ call \in [Task -> Calls]
  /\ age \in [Task -> Nat] /\ lastWake \in [Task -> 0..(TickMod - 1)]

ListShape == StateLists(k) /\ EventLists(k) /\ Apart(k)

(* The scheduler is suspended by the running task, and by no other.        *)
SuspendedByCurrent ==
  /\ k.suspended => k.current \in Task /\ pc[k.current] \in Suspending
  /\ \A t \in Task : pc[t] \in Suspending => k.suspended /\ k.current = t
  /\ ~k.suspended => k.pending = <<>> /\ k.missedTicks = 0 /\ ~k.missedYield

(* A queue is locked while a task is between prvLockQueue and              *)
(* prvUnlockQueue, and the lock counts at most the one message.            *)
LockedByTaker ==
  \A m \in Sem : /\ k.txLock[m] # -1 <=> \E t \in Task : pc[t] \in Locking /\ call[t].sem = m
                 /\ k.txLock[m] = 1 => k.messages[m] = 1

(* The running task is ready, but for the steps between the list work of a *)
(* wait and the switch to another task.                                    *)
LeavesCpu(t) == \/ pc[t] \in {"delay_resume", "delay_yield", "take_yield"}
                \/ pc[t] \in {"take_unlock", "take_resume"} /\ call[t].outcome = "block"
CurrentReady == \A t \in Task : k.current = t => t \in ReadyOf(k) \/ LeavesCpu(t)

(* Who is on an event list waits for that semaphore; who is pending has    *)
(* been woken.                                                             *)
WaitersWait ==
  /\ \A m \in Sem : \A t \in WaitingOf(k, m) :
       /\ call[t].sem = m /\ call[t].outcome = "block"
       /\ pc[t] \in Woken \cup {"take_unlock"}
  /\ \A t \in PendingOf(k) : call[t].outcome = "block" /\ pc[t] \in Woken

(* What the locals of a call say at each place.                            *)
CallOK(c, at) ==
  /\ at \in {"app", "delay_until"} => c = NoCall
  /\ IF at \in {"app", "delay_until"} \cup Delaying THEN c.outcome = "none"
     ELSE c.sem \in Sem
  /\ c.outcome = "timeout" => at \in {"take_unlock", "take_resume", "take_failed"}
  /\ at = "take_failed" => c.outcome = "timeout"
  /\ at \in {"take_place", "take_yield"} => c.outcome = "block"
  /\ at \in {"take_unlock", "take_resume"} => c.outcome # "none"
  /\ at \in Delaying => c.asked # MaxDelay /\ c.timeOut = <<>>
  /\ at \notin Delaying => /\ c.ticks <= c.asked
                           /\ c.timeOut = <<>> => c.ticks = c.asked
  /\ c.asked = MaxDelay => c.ticks = MaxDelay
  /\ c.asked = 0 => c.timeOut = <<>>
  /\ at \in {"take_empty", "take_place"} => c.ticks > 0
  /\ at \in (Suspending \cup {"take_suspend", "take_yield", "take_failed"}) \ Delaying
       => c.timeOut # <<>>
CallShape == \A t \in Task : CallOK(call[t], pc[t])

(* Whoever wakes up for a semaphore will ask for it again.                 *)
WillTake(t, m) ==
  /\ call[t].sem = m /\ t \notin WaitingOf(k, m)
  /\ \/ pc[t] = "take"
     \/ pc[t] \in {"take_unlock", "take_resume", "take_yield"}
        /\ call[t].outcome \in {"block", "retry"}
GivesCounted ==
  /\ \A m \in Sem : k.messages[m] > 0 /\ WaitingOf(k, m) # {} =>
       k.txLock[m] > 0 \/ \E t \in Task : WillTake(t, m)
  /\ \A t \in Task : pc[t] = "take_place" /\ k.messages[call[t].sem] > 0
       => k.txLock[call[t].sem] > 0

(* Nothing on the lists changes, and no tick passes.                       *)
SameLists(r, s) ==
  /\ r \in KernelRecord /\ StateLists(r) /\ EventLists(r) /\ ReadyOf(r) = ReadyOf(s)
  /\ Timed(r) = Timed(s) /\ \A t \in Timed(r) : Due(r, t) = Due(s, t)
  /\ r.pending = s.pending /\ PendingOf(r) = PendingOf(s)
  /\ \A m \in Sem : WaitingOf(r, m) = WaitingOf(s, m)
  /\ SameClock(r, s) /\ r.missedTicks = s.missedTicks

KernelInv == /\ Types /\ ListShape /\ SuspendedByCurrent /\ LockedByTaker /\ CurrentReady
             /\ WaitersWait /\ CallShape /\ GivesCounted

(* The time on the clock of a wait: a is the age of the wait of t, which   *)
(* is at p with the locals c in the kernel state s.                        *)
Since(c, a) == a - (c.asked - c.ticks)
TimeOK(s, t, p, c, a) ==
  /\ a + s.missedTicks <= MaxAge
  /\ p \in {"app", "delay_until"} => a = 0
  /\ c.timeOut # <<>> /\ c.asked # MaxDelay =>
       0 <= Since(c, a) /\ Later(c.timeOut[1], c.timeOut[2], Since(c, a), s.overflows, s.tick)
  /\ p \in {"take_empty", "take_place"} /\ c.asked # MaxDelay => Since(c, a) = 0
  /\ c.outcome = "timeout" => a >= c.asked
  /\ p \in Delaying /\ t \notin Timed(s) => a >= c.asked
  /\ t \in Timed(s) => c.asked \notin {0, MaxDelay} /\ Due(s, t) = c.asked - a
TimeInv == \A t \in Task : TimeOK(k, t, pc[t], call[t], age[t])

\* The switch to the next task, by a task that has not suspended the scheduler.
LEMMA SwitchStep ==
  ASSUME Types, ListShape, ~k.suspended, k' = vTaskSwitchContext(k)
  PROVE  /\ SameLists(k', k) /\ SameSems(k', k) /\ ~k'.suspended
         /\ k'.missedYield = k.missedYield /\ k'.current \in ReadyOf(k') \cup {Idle}
<1>1. k \in KernelRecord /\ StateLists(k) /\ EventLists(k)
  BY DEF Types, ListShape
<1>2. /\ k' \in KernelRecord /\ StateLists(k')
      /\ ReadyOf(k') = ReadyOf(k) /\ DelayedOf(k') = DelayedOf(k)
      /\ OverflowOf(k') = OverflowOf(k) /\ k'.blocked = k.blocked /\ k'.wake = k.wake
      /\ SameEvents(k', k) /\ SameClock(k', k) /\ SameSems(k', k)
      /\ k'.suspended = k.suspended /\ k'.missedTicks = k.missedTicks
      /\ k'.missedYield = k.missedYield /\ k'.current \in ReadyOf(k) \cup {Idle}
  BY <1>1, SwitchFacts
<1>3. /\ EventLists(k') /\ PendingOf(k') = PendingOf(k)
      /\ \A m \in Sem : WaitingOf(k', m) = WaitingOf(k, m)
  BY <1>1, <1>2, SameEventsFacts
<1>4. Timed(k') = Timed(k) /\ \A x \in Timed(k') : Due(k', x) = Due(k, x)
  BY <1>2 DEF Timed, Due, SameClock
<1>5. k'.pending = k.pending
  BY <1>2 DEF SameEvents
<1>6. QED
  BY <1>2, <1>3, <1>4, <1>5 DEF SameLists

\* Where the task that runs is, when the scheduler is not suspended.
LEMMA SwitchInv ==
  ASSUME KernelInv, ~k.suspended, k' = vTaskSwitchContext(k),
         UNCHANGED <<call, lastWake, age>>,
         \/ pc' = pc
         \/ \E t \in Task : \/ pc[t] = "delay_yield" /\ pc' = [pc EXCEPT ![t] = "delay_return"]
                            \/ pc[t] = "take_yield" /\ pc' = [pc EXCEPT ![t] = "take"]
  PROVE  KernelInv'
<1>1. /\ Types /\ ListShape /\ SuspendedByCurrent /\ LockedByTaker /\ CurrentReady
      /\ WaitersWait /\ CallShape /\ GivesCounted
  BY DEF KernelInv
<1>2. /\ SameLists(k', k) /\ SameSems(k', k) /\ ~k'.suspended
      /\ k'.missedYield = k.missedYield /\ k'.current \in ReadyOf(k') \cup {Idle}
  BY <1>1, SwitchStep
<1>3. ASSUME NEW x \in Task
      PROVE  /\ pc'[x] \in Places
             /\ \/ pc'[x] = pc[x]
                \/ pc[x] = "delay_yield" /\ pc'[x] = "delay_return"
                \/ pc[x] = "take_yield" /\ pc'[x] = "take"
  BY <1>1 DEF Types, Places
<1>4. Types'
  <2>1. pc' \in [Task -> Places]
    <3>1. pc' = [x \in Task |-> pc'[x]]
      BY <1>1 DEF Types
    <3>2. QED
      BY <1>3, <3>1
  <2>2. k' \in KernelRecord /\ k'.missedTicks \in Nat
    BY <1>1, <1>2 DEF Types, SameLists
  <2>3. QED
    BY <1>1, <2>1, <2>2 DEF Types
<1>5. ListShape'
  BY <1>1, <1>2 DEF ListShape, Apart, SameLists
<1>6. SuspendedByCurrent'
  <2>1. \A x \in Task : pc'[x] \notin Suspending
    BY <1>1, <1>3 DEF SuspendedByCurrent, Suspending
  <2>2. k'.pending = <<>> /\ k'.missedTicks = 0 /\ ~k'.missedYield
    BY <1>1, <1>2 DEF SuspendedByCurrent, SameLists
  <2>3. QED
    BY <1>2, <2>1, <2>2 DEF SuspendedByCurrent
<1>7. LockedByTaker'
  <2>1. \A x \in Task : pc'[x] \in Locking <=> pc[x] \in Locking
    BY <1>3 DEF Locking
  <2>2. QED
    BY <1>1, <1>2, <2>1 DEF LockedByTaker, SameSems
<1>8. CurrentReady'
  BY <1>2, Constants DEF CurrentReady
<1>9. WaitersWait'
  <2>1. /\ \A m \in Sem : WaitingOf(k', m) = WaitingOf(k, m)
        /\ \A m \in Sem : WaitingOf(k, m) \subseteq Task
        /\ PendingOf(k') = PendingOf(k) /\ PendingOf(k) \subseteq Task
    BY <1>1, <1>2, FieldTypes DEF SameLists, Types
  <2>2. \A x \in Task : pc[x] \in Woken \cup {"take_unlock"} => pc'[x] \in Woken \cup {"take_unlock"}
    BY <1>3 DEF Woken
  <2>3. \A x \in Task : pc[x] \in Woken => pc'[x] \in Woken
    BY <1>3 DEF Woken
  <2>4. QED
    BY <1>1, <2>1, <2>2, <2>3 DEF WaitersWait
<1>10. CallShape'
  <2>1. ASSUME NEW x \in Task PROVE CallOK(call[x], pc'[x])
    <3>1. CallOK(call[x], pc[x])
      BY <1>1 DEF CallShape
    <3>2. QED
      BY <1>3, <3>1 DEF CallOK, Delaying, Suspending
  <2>2. QED
    BY <2>1 DEF CallShape
<1>11. GivesCounted'
  <2>1. /\ k'.messages = k.messages /\ k'.txLock = k.txLock
        /\ \A m \in Sem : WaitingOf(k', m) = WaitingOf(k, m)
    BY <1>2 DEF SameLists, SameSems
  <2>2. \A x \in Task : pc'[x] = "take_place" => pc[x] = "take_place"
    BY <1>3
  <2>3. ASSUME NEW x \in Task, NEW m \in Sem, WillTake(x, m) PROVE WillTake(x, m)'
    <3>1. pc[x] = "take_yield" => call[x].outcome \in {"block", "retry"}
      BY <1>1 DEF CallShape, CallOK
    <3>2. QED
      BY <1>3, <2>1, <2>3, <3>1 DEF WillTake
  <2>4. QED
    BY <1>1, <2>1, <2>2, <2>3 DEF GivesCounted
<1>12. QED
  BY <1>4, <1>5, <1>6, <1>7, <1>8, <1>9, <1>10, <1>11 DEF KernelInv

\* The running task is on no event list and not pending while it is ready.
LEMMA ReadyApart ==
  ASSUME ListShape, NEW t \in ReadyOf(k)
  PROVE  t \notin PendingOf(k) /\ t \notin Timed(k) /\ t \notin k.blocked
         /\ \A m \in Sem : t \notin WaitingOf(k, m)
BY DEF ListShape, Apart, StateLists, TaskLists, Timed

\* A step of the running task that leaves the lists alone.
LEMMA LocalShape ==
  ASSUME KernelInv, NEW t \in Task, k.current = t, t \in ReadyOf(k),
         SameLists(k', k), k'.current = t, NEW at \in Places, NEW c \in Calls,
         pc' = [pc EXCEPT ![t] = at], call' = [call EXCEPT ![t] = c], CallOK(c, at),
         age' \in [Task -> Nat], lastWake' \in [Task -> 0..(TickMod - 1)]
  PROVE  Types' /\ ListShape' /\ CurrentReady' /\ WaitersWait' /\ CallShape'
<1>1. /\ Types /\ ListShape /\ CurrentReady /\ WaitersWait /\ CallShape
  BY DEF KernelInv
<1>2. /\ pc' \in [Task -> Places] /\ call' \in [Task -> Calls]
      /\ pc'[t] = at /\ call'[t] = c
      /\ \A x \in Task : x # t => pc'[x] = pc[x] /\ call'[x] = call[x]
  BY <1>1 DEF Types
<1>3. Types'
  BY <1>1, <1>2 DEF Types, SameLists
<1>4. ListShape'
  BY <1>1 DEF ListShape, Apart, SameLists
<1>5. CurrentReady'
  BY DEF CurrentReady, SameLists
<1>6. WaitersWait'
  <2>1. /\ \A m \in Sem : WaitingOf(k', m) = WaitingOf(k, m)
        /\ \A m \in Sem : WaitingOf(k, m) \subseteq Task
        /\ PendingOf(k') = PendingOf(k) /\ PendingOf(k) \subseteq Task
    BY <1>1, FieldTypes DEF SameLists, Types
  <2>2. t \notin PendingOf(k) /\ \A m \in Sem : t \notin WaitingOf(k, m)
    BY <1>1, ReadyApart
  <2>3. QED
    BY <1>1, <1>2, <2>1, <2>2 DEF WaitersWait
<1>7. CallShape'
  BY <1>1, <1>2 DEF CallShape
<1>8. QED
  BY <1>3, <1>4, <1>5, <1>6, <1>7

\* A step of the running task that leaves the kernel alone.
LEMMA LocalInv ==
  ASSUME KernelInv, NEW t \in Task, k.current = t, t \in ReadyOf(k),
         k' = k, NEW at \in Places, NEW c \in Calls,
         pc' = [pc EXCEPT ![t] = at], call' = [call EXCEPT ![t] = c], CallOK(c, at),
         age' \in [Task -> Nat], lastWake' \in [Task -> 0..(TickMod - 1)],
         pc[t] \in Suspending <=> at \in Suspending,
         pc[t] \in Locking <=> at \in Locking,
         at \in Locking => c.sem = call[t].sem,
         at = "take_place" => k.messages[c.sem] = 0,
         \A m \in Sem : k.messages[m] > 0 => ~WillTake(t, m)
  PROVE  KernelInv'
<1>1. /\ Types /\ ListShape /\ SuspendedByCurrent /\ LockedByTaker /\ CurrentReady
      /\ WaitersWait /\ CallShape /\ GivesCounted
  BY DEF KernelInv
<1>2. SameLists(k', k)
  BY <1>1 DEF Types, ListShape, SameLists, SameClock
<1>3. Types' /\ ListShape' /\ CurrentReady' /\ WaitersWait' /\ CallShape'
  BY <1>2, LocalShape
<1>4. /\ pc'[t] = at /\ call'[t] = c
      /\ \A x \in Task : x # t => pc'[x] = pc[x] /\ call'[x] = call[x]
  BY <1>1 DEF Types
<1>5. SuspendedByCurrent'
  BY <1>1, <1>4 DEF SuspendedByCurrent
<1>6. LockedByTaker'
  <2>1. \A x \in Task, m \in Sem : pc'[x] \in Locking /\ call'[x].sem = m
                                     <=> pc[x] \in Locking /\ call[x].sem = m
    BY <1>4
  <2>2. QED
    BY <1>1, <2>1 DEF LockedByTaker
<1>7. GivesCounted'
  <2>1. ASSUME NEW m \in Sem, k.messages[m] > 0, NEW x \in Task, WillTake(x, m)
        PROVE  WillTake(x, m)'
    <3>1. x # t
      BY <2>1
    <3>2. QED
      BY <1>4, <2>1, <3>1 DEF WillTake
  <2>2. \A m \in Sem : k.messages[m] > 0 /\ WaitingOf(k, m) # {} =>
           k.txLock[m] > 0 \/ \E x \in Task : WillTake(x, m)'
    BY <1>1, <2>1 DEF GivesCounted
  <2>3. ASSUME NEW x \in Task, pc'[x] = "take_place", k.messages[call'[x].sem] > 0
        PROVE  k.txLock[call'[x].sem] > 0
    <3>1. CASE x = t
      <4>1. k.messages[c.sem] = 0
        BY <1>4, <2>3, <3>1
      <4>2. QED
        BY <1>4, <2>3, <3>1, <4>1
    <3>2. CASE x # t
      BY <1>1, <1>4, <2>3, <3>2 DEF GivesCounted
    <3>3. QED
      BY <3>1, <3>2
  <2>4. QED
    BY <2>2, <2>3 DEF GivesCounted
<1>8. QED
  BY <1>3, <1>5, <1>6, <1>7 DEF KernelInv

\* The running task is ready, where it does not leave the processor.
LEMMA RunningReady ==
  ASSUME KernelInv, NEW t \in Task, NEW at, Running(t, at),
         at \notin {"delay_resume", "delay_yield", "take_yield", "take_unlock", "take_resume"}
  PROVE  t \in ReadyOf(k) /\ k.current = t /\ pc[t] = at
BY DEF KernelInv, CurrentReady, LeavesCpu, Running

\* The locals of a task that is in no call.
LEMMA NoCallFacts == NoCall \in Calls /\ CallOK(NoCall, "app") /\ CallOK(NoCall, "delay_until")
                     /\ CallOK(NoCall, "delay_resume")
<1>1. 0 \in 0..MaxDelay /\ MaxDelay # 0
  BY Constants
<1>2. QED
  BY <1>1 DEF NoCall, Calls, CallOK, Delaying, Suspending

\* The return of a call.
LEMMA ReturnInv ==
  ASSUME KernelInv, NEW t \in Task, k.current = t, t \in ReadyOf(k), k' = k, Return(t),
         UNCHANGED lastWake, pc[t] \notin Suspending \cup Locking \cup {"take_yield"},
         pc[t] = "take" => k.messages[call[t].sem] = 0
  PROVE  KernelInv'
<1>1. "app" \in Places /\ "app" \notin Suspending /\ "app" \notin Locking /\ "app" # "take_place"
  BY DEF Places, Suspending, Locking
<1>2. /\ pc' = [pc EXCEPT ![t] = "app"] /\ call' = [call EXCEPT ![t] = NoCall]
      /\ age' = [age EXCEPT ![t] = 0]
  BY DEF Return, Goto
<1>3. age' \in [Task -> Nat] /\ lastWake' \in [Task -> 0..(TickMod - 1)]
  BY <1>2 DEF KernelInv, Types
<1>4. \A m \in Sem : k.messages[m] > 0 => ~WillTake(t, m)
  <2>1. pc[t] \notin {"take_unlock", "take_resume", "take_yield"}
    BY DEF Suspending
  <2>2. QED
    BY <2>1 DEF WillTake
<1>5. QED
  BY <1>1, <1>2, <1>3, <1>4, NoCallFacts, LocalInv

\* The end of the loop of brick_tick_task.
LEMMA TickTaskInv ==
  ASSUME KernelInv, NEW t \in Task, brick_tick_task(t)
  PROVE  KernelInv'
<1>1. t \in ReadyOf(k) /\ k.current = t /\ pc[t] = "app"
  BY RunningReady DEF brick_tick_task
<1>2. /\ Types /\ call[t] = NoCall
  BY <1>1 DEF KernelInv, CallShape, CallOK
<1>3. lastWake' \in [Task -> 0..(TickMod - 1)]
  <2>1. k.tick \in 0..(TickMod - 1) /\ TickMod \in Nat /\ TickMod > 2
    BY <1>2, FieldTypes, Constants DEF Types
  <2>2. (k.tick - 1) % TickMod \in 0..(TickMod - 1)
    BY <2>1
  <2> DEFINE w == (k.tick - 1) % TickMod
  <2>3. w \in 0..(TickMod - 1)
    BY <2>2
  <2>4. lastWake' = [lastWake EXCEPT ![t] = w] \/ lastWake' = [lastWake EXCEPT ![t] = @]
    BY DEF brick_tick_task
  <2> HIDE DEF w
  <2>5. QED
    BY <1>2, <2>3, <2>4 DEF Types
<1>4. /\ pc' = [pc EXCEPT ![t] = "delay_until"] /\ k' = k /\ call' = call /\ age' = age
  BY DEF brick_tick_task, Goto
<1>5. call' = [call EXCEPT ![t] = NoCall] /\ age' \in [Task -> Nat]
  BY <1>2, <1>4 DEF Types
<1>6. /\ "delay_until" \in Places /\ pc[t] \notin Suspending /\ pc[t] \notin Locking
      /\ "delay_until" \notin Suspending /\ "delay_until" \notin Locking
  BY <1>1 DEF Places, Suspending, Locking
<1>7. \A m \in Sem : ~WillTake(t, m)
  BY <1>1 DEF WillTake
<1>8. QED
  BY <1>1, <1>3, <1>4, <1>5, <1>6, <1>7, NoCallFacts, LocalInv

\* The call of xSemaphoreTake.
LEMMA TakeInv ==
  ASSUME KernelInv, NEW t \in Task, NEW kind, NEW m \in Sem, NEW n \in 0..MaxDelay,
         xSemaphoreTake(t, kind, m, n)
  PROVE  KernelInv'
<1> DEFINE c == [NoCall EXCEPT !.sem = m, !.ticks = n, !.asked = n]
<1>1. t \in ReadyOf(k) /\ k.current = t /\ pc[t] = "app"
  BY RunningReady DEF xSemaphoreTake
<1>2. Types
  BY DEF KernelInv
<1>3. c \in Calls /\ CallOK(c, "take")
  <2> DEFINE d == NoCall
  <2>1. d \in Calls /\ d.timeOut = <<>> /\ d.outcome = "none"
    BY NoCallFacts DEF NoCall
  <2>2. c = [d EXCEPT !.sem = m, !.ticks = n, !.asked = n]
    OBVIOUS
  <2> HIDE DEF c, d
  <2>3. /\ c.sem = m /\ c.ticks = n /\ c.asked = n /\ c.timeOut = <<>> /\ c.outcome = "none"
        /\ c \in Calls
    BY <2>1, <2>2 DEF Calls
  <2>4. n <= n
    BY Constants
  <2>5. QED
    BY <2>3, <2>4 DEF CallOK, Delaying, Suspending
<1>4. /\ pc' = [pc EXCEPT ![t] = "take"] /\ call' = [call EXCEPT ![t] = c]
      /\ k' = k /\ lastWake' = lastWake /\ age' = age
  BY DEF xSemaphoreTake, Goto
<1>5. age' \in [Task -> Nat] /\ lastWake' \in [Task -> 0..(TickMod - 1)]
  BY <1>2, <1>4 DEF Types
<1>6. /\ "take" \in Places /\ pc[t] \notin Suspending /\ pc[t] \notin Locking
      /\ "take" \notin Suspending /\ "take" \notin Locking
  BY <1>1 DEF Places, Suspending, Locking
<1>7. \A i \in Sem : ~WillTake(t, i)
  BY <1>1 DEF WillTake
<1> HIDE DEF c
<1>8. QED
  BY <1>1, <1>3, <1>4, <1>5, <1>6, <1>7, LocalInv

\* prvIsQueueEmpty: a message that came meanwhile means another try.
LEMMA IsQueueEmptyInv ==
  ASSUME KernelInv, NEW t \in Task, prvIsQueueEmpty(t)
  PROVE  KernelInv'
<1> DEFINE empty == k.messages[call[t].sem] = 0
           at == IF empty THEN "take_place" ELSE "take_unlock"
           c == [call[t] EXCEPT !.outcome = IF empty THEN "block" ELSE "retry"]
<1>1. t \in ReadyOf(k) /\ k.current = t /\ pc[t] = "take_empty"
  BY RunningReady DEF prvIsQueueEmpty
<1>2. Types /\ call[t] \in Calls /\ CallOK(call[t], "take_empty")
  BY <1>1 DEF KernelInv, CallShape, Types
<1>3. c \in Calls /\ c.sem = call[t].sem /\ CallOK(c, at)
  BY <1>2 DEF Calls, CallOK, Delaying, Suspending
<1>4. /\ pc' = [pc EXCEPT ![t] = at] /\ call' = [call EXCEPT ![t] = c]
      /\ k' = k /\ lastWake' = lastWake /\ age' = age
  <2>1. call' = [call EXCEPT ![t] = [@ EXCEPT !.outcome = IF empty THEN "block" ELSE "retry"]]
    BY DEF prvIsQueueEmpty
  <2>2. QED
    BY <1>2, <2>1 DEF prvIsQueueEmpty, Goto, Types
<1>5. age' \in [Task -> Nat] /\ lastWake' \in [Task -> 0..(TickMod - 1)]
  BY <1>2, <1>4 DEF Types
<1>6. /\ at \in Places /\ pc[t] \in Suspending /\ pc[t] \in Locking
      /\ at \in Suspending /\ at \in Locking
  BY <1>1 DEF Places, Suspending, Locking
<1>7. \A i \in Sem : ~WillTake(t, i)
  BY <1>1 DEF WillTake
<1>8. at = "take_place" => k.messages[c.sem] = 0
  BY <1>3
<1> HIDE DEF c, at, empty
<1>9. QED
  BY <1>1, <1>3, <1>4, <1>5, <1>6, <1>7, <1>8, LocalInv

\* A step that leaves the lists and the clock alone.
LEMMA SameListsFacts ==
  ASSUME NEW s \in KernelRecord, NEW r \in KernelRecord, StateLists(s), EventLists(s),
         SameStates(r, s), SameEvents(r, s), SameClock(r, s), r.missedTicks = s.missedTicks
  PROVE  SameLists(r, s)
<1>1. /\ StateLists(r) /\ ReadyOf(r) = ReadyOf(s) /\ Timed(r) = Timed(s)
      /\ \A t \in Timed(r) : Due(r, t) = Due(s, t)
  BY SameStatesFacts
<1>2. /\ EventLists(r) /\ PendingOf(r) = PendingOf(s)
      /\ \A m \in Sem : WaitingOf(r, m) = WaitingOf(s, m)
  BY SameEventsFacts
<1>3. QED
  BY <1>1, <1>2 DEF SameLists, SameEvents

\* While a task is outside vTaskSuspendAll .. xTaskResumeAll, no queue is locked.
LEMMA NotSuspended ==
  ASSUME KernelInv, \/ k.current = Idle
                    \/ \E t \in Task : \E at : Running(t, at) /\ at \notin Suspending
  PROVE  /\ ~k.suspended /\ \A x \in Task : pc[x] \notin Suspending /\ pc[x] \notin Locking
         /\ \A m \in Sem : k.txLock[m] = -1
<1>1. /\ Types /\ SuspendedByCurrent /\ LockedByTaker
  BY DEF KernelInv
<1>2. ~k.suspended
  BY <1>1, Constants DEF SuspendedByCurrent, Running
<1>3. \A x \in Task : pc[x] \notin Suspending
  BY <1>1, <1>2 DEF SuspendedByCurrent
<1>4. \A x \in Task : pc[x] \notin Locking
  BY <1>3 DEF Suspending, Locking
<1>5. QED
  BY <1>1, <1>2, <1>3, <1>4 DEF LockedByTaker

\* The yields, and the loop of the idle task.
LEMMA YieldInv ==
  ASSUME KernelInv,
         prvIdleTask \/ \E t \in Task : Yield(t) \/ DelayYield(t) \/ TakeYield(t)
  PROVE  KernelInv'
<1>1. ~k.suspended
  BY NotSuspended DEF prvIdleTask, Yield, DelayYield, TakeYield, Suspending
<1>2. /\ k' = vTaskSwitchContext(k) /\ call' = call /\ lastWake' = lastWake /\ age' = age
      /\ \/ pc' = pc
         \/ \E t \in Task : \/ pc[t] = "delay_yield" /\ pc' = [pc EXCEPT ![t] = "delay_return"]
                            \/ pc[t] = "take_yield" /\ pc' = [pc EXCEPT ![t] = "take"]
  BY DEF prvIdleTask, Yield, DelayYield, TakeYield, Running, Goto
<1>3. QED
  BY <1>1, <1>2, SwitchInv

\* The returns of a delay and of a take that failed.
LEMMA FailedInv ==
  ASSUME KernelInv, NEW t \in Task, DelayReturn(t) \/ TakeFailed(t)
  PROVE  KernelInv'
<1>1. /\ t \in ReadyOf(k) /\ k.current = t /\ pc[t] \in {"delay_return", "take_failed"}
  BY RunningReady DEF DelayReturn, TakeFailed
<1>2. k' = k /\ lastWake' = lastWake /\ Return(t)
  BY DEF DelayReturn, TakeFailed
<1>3. pc[t] \notin Suspending \cup Locking \cup {"take_yield"} /\ pc[t] # "take"
  BY <1>1 DEF Suspending, Locking
<1>4. QED
  BY <1>1, <1>2, <1>3, ReturnInv

\* vTaskSuspendAll of a take.
LEMMA SuspendAllInv ==
  ASSUME KernelInv, NEW t \in Task, TakeSuspendAll(t)
  PROVE  KernelInv'
<1>1. t \in ReadyOf(k) /\ k.current = t /\ pc[t] = "take_suspend"
  BY RunningReady DEF TakeSuspendAll
<1>2. /\ ~k.suspended /\ \A x \in Task : pc[x] \notin Suspending /\ pc[x] \notin Locking
  BY NotSuspended DEF TakeSuspendAll, Suspending
<1>3. /\ Types /\ ListShape /\ SuspendedByCurrent /\ LockedByTaker /\ GivesCounted
      /\ k \in KernelRecord /\ StateLists(k) /\ EventLists(k) /\ call[t] \in Calls
  BY DEF KernelInv, Types, ListShape
<1>4. /\ k' = [k EXCEPT !.suspended = TRUE] /\ pc' = [pc EXCEPT ![t] = "take_lock"]
      /\ call' = call /\ age' = age /\ lastWake' = lastWake
  BY DEF TakeSuspendAll, Goto
<1>5. /\ k' \in KernelRecord /\ SameStates(k', k) /\ SameEvents(k', k) /\ SameClock(k', k)
      /\ k'.missedTicks = k.missedTicks /\ k'.current = t /\ k'.suspended /\ SameSems(k', k)
  BY <1>1, <1>3, <1>4 DEF KernelRecord, SameStates, SameEvents, SameClock, SameSems
<1>6. SameLists(k', k)
  BY <1>3, <1>5, SameListsFacts
<1>7. CallOK(call[t], "take_lock")
  BY <1>1, <1>3 DEF KernelInv, CallShape, CallOK, Delaying, Suspending, Calls
<1>8. call' = [call EXCEPT ![t] = call[t]]
  BY <1>3, <1>4 DEF Types
<1>9. Types' /\ ListShape' /\ CurrentReady' /\ WaitersWait' /\ CallShape'
  <2>1. /\ "take_lock" \in Places /\ age' \in [Task -> Nat]
        /\ lastWake' \in [Task -> 0..(TickMod - 1)]
    BY <1>3, <1>4 DEF Places, Types
  <2>2. QED
    BY <1>1, <1>3, <1>4, <1>5, <1>6, <1>7, <1>8, <2>1, LocalShape
<1>10. /\ pc'[t] = "take_lock" /\ \A x \in Task : x # t => pc'[x] = pc[x]
  BY <1>3, <1>4 DEF Types
<1>11. SuspendedByCurrent'
  BY <1>2, <1>5, <1>10 DEF SuspendedByCurrent, Suspending
<1>12. LockedByTaker'
  <2>1. \A x \in Task : pc'[x] \notin Locking
    BY <1>2, <1>10 DEF Locking
  <2>2. QED
    BY <1>2, <1>3, <1>5, <2>1 DEF LockedByTaker, SameSems
<1>13. GivesCounted'
  <2>1. ASSUME NEW m \in Sem, NEW x \in Task, WillTake(x, m) PROVE WillTake(x, m)'
    BY <1>1, <1>4, <1>6, <1>10, <2>1 DEF WillTake, SameLists
  <2>2. \A x \in Task : pc'[x] # "take_place"
    BY <1>2, <1>10 DEF Suspending
  <2>3. QED
    BY <1>3, <1>5, <1>6, <2>1, <2>2 DEF GivesCounted, SameLists, SameSems
<1>14. QED
  BY <1>9, <1>11, <1>12, <1>13 DEF KernelInv

\* The first critical section of a take.
LEMMA ReceiveInv ==
  ASSUME KernelInv, NEW t \in Task, ReceiveOrWait(t)
  PROVE  KernelInv'
<1> DEFINE m == call[t].sem
<1>1. t \in ReadyOf(k) /\ k.current = t /\ pc[t] = "take"
  BY RunningReady DEF ReceiveOrWait
<1>2. /\ ~k.suspended /\ \A x \in Task : pc[x] \notin Suspending /\ pc[x] \notin Locking
      /\ \A i \in Sem : k.txLock[i] = -1
  BY NotSuspended DEF ReceiveOrWait, Suspending
<1>3. /\ Types /\ ListShape /\ SuspendedByCurrent /\ LockedByTaker /\ GivesCounted
      /\ k \in KernelRecord /\ StateLists(k) /\ EventLists(k) /\ call[t] \in Calls
      /\ CallOK(call[t], "take")
  BY <1>1 DEF KernelInv, Types, ListShape, CallShape
<1>4. m \in Sem
  BY <1>3 DEF CallOK, Delaying
<1>5. k.messages \in [Sem -> 0..1] /\ k.messages[m] \in 0..1
  BY <1>3, <1>4, FieldTypes
<1>6. CASE /\ k.messages[m] > 0
           /\ k' = [k EXCEPT !.messages[m] = @ - 1]
           /\ Return(t)
  <2> DEFINE M == [k.messages EXCEPT ![m] = 0]
  <2>1. k.messages[m] = 1 /\ k' = [k EXCEPT !.messages = M]
    BY <1>5, <1>6
  <2>2. M \in [Sem -> 0..1] /\ M[m] = 0 /\ \A i \in Sem : i # m => M[i] = k.messages[i]
    BY <1>4, <1>5
  <2> HIDE DEF M, m
  <2>3. /\ k' \in KernelRecord /\ SameStates(k', k) /\ SameEvents(k', k) /\ SameClock(k', k)
        /\ SameFlags(k', k) /\ k'.txLock = k.txLock /\ k'.messages = M
    BY ZenonT(60), <1>3, <2>1, <2>2 DEF KernelRecord, SameStates, SameEvents, SameClock, SameFlags
  <2>4. SameLists(k', k)
    BY <1>3, <2>3, SameListsFacts DEF SameFlags
  <2>5. /\ pc' = [pc EXCEPT ![t] = "app"] /\ call' = [call EXCEPT ![t] = NoCall]
        /\ age' = [age EXCEPT ![t] = 0] /\ lastWake' = lastWake
    BY <1>6 DEF Return, Goto, ReceiveOrWait
  <2>6. Types' /\ ListShape' /\ CurrentReady' /\ WaitersWait' /\ CallShape'
    <3>1. /\ "app" \in Places /\ age' \in [Task -> Nat] /\ k'.current = t
          /\ lastWake' \in [Task -> 0..(TickMod - 1)]
      BY <1>1, <1>3, <2>3, <2>5 DEF Places, Types, SameFlags
    <3>2. QED
      BY <1>1, <1>3, <2>4, <2>5, <3>1, NoCallFacts, LocalShape
  <2>7. /\ pc'[t] = "app" /\ \A x \in Task : x # t => pc'[x] = pc[x] /\ call'[x] = call[x]
    BY <1>3, <2>5 DEF Types
  <2>8. \A x \in Task : pc'[x] \notin Suspending /\ pc'[x] \notin Locking
    BY <1>2, <2>7 DEF Suspending, Locking
  <2>9. SuspendedByCurrent'
    BY <1>2, <1>3, <2>3, <2>8 DEF SuspendedByCurrent, SameFlags, SameEvents
  <2>10. LockedByTaker'
    BY <1>2, <2>3, <2>8 DEF LockedByTaker
  <2>11. GivesCounted'
    <3>1. \A x \in Task : pc'[x] # "take_place"
      BY <2>8 DEF Locking
    <3>2. ASSUME NEW i \in Sem, M[i] > 0, NEW x \in Task, WillTake(x, i) PROVE WillTake(x, i)'
      <4>1. i # m /\ x # t
        BY <2>2, <3>2 DEF WillTake, m
      <4>2. QED
        BY <2>4, <2>7, <3>2, <4>1 DEF WillTake, SameLists
    <3>3. ASSUME NEW i \in Sem, k'.messages[i] > 0, WaitingOf(k', i) # {}
          PROVE  k'.txLock[i] > 0 \/ \E x \in Task : WillTake(x, i)'
      <4>1. k.messages[i] > 0 /\ WaitingOf(k, i) # {} /\ M[i] > 0
        BY <2>2, <2>3, <2>4, <3>3 DEF SameLists
      <4>2. QED
        BY <1>3, <2>3, <3>2, <4>1 DEF GivesCounted
    <3>4. QED
      BY <3>1, <3>3 DEF GivesCounted
  <2>12. QED
    BY <2>6, <2>9, <2>10, <2>11 DEF KernelInv
<1>7. CASE k.messages[m] = 0 /\ Return(t) /\ k' = k
  <2>1. pc[t] \notin Suspending \cup Locking \cup {"take_yield"} /\ lastWake' = lastWake
    BY <1>1 DEF Suspending, Locking, ReceiveOrWait
  <2>2. QED
    BY <1>1, <1>7, <2>1, ReturnInv
<1>8. CASE /\ k.messages[m] = 0 /\ call[t].ticks # 0 /\ k' = k
           /\ call' = IF call[t].timeOut = <<>>
                      THEN [call EXCEPT ![t].timeOut = <<k.overflows, k.tick>>] ELSE call
           /\ age' = IF call[t].timeOut = <<>> THEN [age EXCEPT ![t] = 0] ELSE age
           /\ Goto(t, "take_suspend")
  <2> DEFINE c == IF call[t].timeOut = <<>>
                  THEN [call[t] EXCEPT !.timeOut = <<k.overflows, k.tick>>] ELSE call[t]
  <2>1. call' = [call EXCEPT ![t] = c]
    BY <1>3, <1>8 DEF Types
  <2>2. k.overflows \in 0..(OverflowMod - 1) /\ k.tick \in 0..(TickMod - 1)
    BY <1>3, FieldTypes
  <2>3. call[t].ticks \in 0..MaxDelay /\ call[t].asked \in 0..MaxDelay
    BY <1>3 DEF Calls
  <2>4. call[t].asked # 0
    BY <1>3, <1>8, <2>3, Constants DEF CallOK, Delaying
  <2>5. c \in Calls /\ CallOK(c, "take_suspend")
    <3>1. CASE call[t].timeOut = <<>>
      <4> DEFINE d == <<k.overflows, k.tick>>
                 b == call[t]
      <4>1. d \in (0..(OverflowMod - 1)) \X (0..(TickMod - 1)) /\ d # <<>>
        BY <2>2
      <4>2. c = [b EXCEPT !.timeOut = d] /\ b \in Calls
        BY <1>3, <3>1
      <4>3. CallOK(b, "take") /\ b.asked # 0 /\ b.timeOut = <<>>
        BY <1>3, <2>4, <3>1
      <4> HIDE DEF c, d, b
      <4>4. /\ c \in Calls /\ c.timeOut = d /\ c.sem = b.sem /\ c.ticks = b.ticks
            /\ c.asked = b.asked /\ c.outcome = b.outcome
        BY <4>1, <4>2 DEF Calls
      <4>5. CallOK(c, "take_suspend")
        BY <4>1, <4>3, <4>4 DEF CallOK, Delaying, Suspending
      <4>6. QED
        BY <4>4, <4>5
    <3>2. CASE call[t].timeOut # <<>>
      BY <1>3, <3>2 DEF CallOK, Delaying, Suspending
    <3>3. QED
      BY <3>1, <3>2
  <2>6. age' \in [Task -> Nat] /\ lastWake' \in [Task -> 0..(TickMod - 1)]
    BY <1>3, <1>8 DEF Types, ReceiveOrWait
  <2>7. /\ pc' = [pc EXCEPT ![t] = "take_suspend"] /\ "take_suspend" \in Places
        /\ pc[t] \notin Suspending /\ pc[t] \notin Locking
        /\ "take_suspend" \notin Suspending /\ "take_suspend" \notin Locking
    BY <1>1, <1>8 DEF Goto, Places, Suspending, Locking
  <2>8. \A i \in Sem : k.messages[i] > 0 => ~WillTake(t, i)
    BY <1>8 DEF WillTake
  <2> HIDE DEF c
  <2>9. QED
    BY <1>1, <1>8, <2>1, <2>5, <2>6, <2>7, <2>8, LocalInv
<1>9. QED
  BY <1>6, <1>7, <1>8 DEF ReceiveOrWait

\* prvLockQueue and xTaskCheckForTimeOut.
LEMMA CheckForTimeOutInv ==
  ASSUME KernelInv, NEW t \in Task, xTaskCheckForTimeOut(t)
  PROVE  KernelInv'
<1> DEFINE m == call[t].sem
           elapsed == (k.tick - call[t].timeOut[2]) % TickMod
           L == [k.txLock EXCEPT ![m] = 0]
<1>1. t \in ReadyOf(k) /\ k.current = t /\ pc[t] = "take_lock"
  BY RunningReady DEF xTaskCheckForTimeOut
<1>2. /\ Types /\ ListShape /\ SuspendedByCurrent /\ LockedByTaker /\ GivesCounted
      /\ k \in KernelRecord /\ StateLists(k) /\ EventLists(k) /\ call[t] \in Calls
      /\ CallOK(call[t], "take_lock")
  BY <1>1 DEF KernelInv, Types, ListShape, CallShape
<1>3. m \in Sem /\ call[t].timeOut # <<>>
  BY <1>2 DEF CallOK, Delaying, Suspending
<1>4. k.suspended /\ \A x \in Task : x # t => pc[x] \notin Suspending
  BY <1>1, <1>2 DEF SuspendedByCurrent, Suspending
<1>5. \A x \in Task : pc[x] \notin Locking
  BY <1>1, <1>4 DEF Suspending, Locking
<1>6. /\ k.txLock \in [Sem -> -1..1] /\ \A i \in Sem : k.txLock[i] = -1
      /\ k.tick \in 0..(TickMod - 1) /\ k.overflows \in 0..(OverflowMod - 1)
  BY <1>2, <1>5, FieldTypes DEF LockedByTaker
<1>7. k' = [k EXCEPT !.txLock = L]
  BY <1>3, <1>6 DEF xTaskCheckForTimeOut, prvLockQueue
<1>8. L \in [Sem -> -1..1] /\ L[m] = 0 /\ \A i \in Sem : i # m => L[i] = -1
  BY <1>3, <1>6
<1> HIDE DEF L
<1>9. /\ k' \in KernelRecord /\ SameStates(k', k) /\ SameEvents(k', k) /\ SameClock(k', k)
      /\ SameFlags(k', k) /\ k'.messages = k.messages /\ k'.txLock = L
  BY ZenonT(60), <1>2, <1>7, <1>8 DEF KernelRecord, SameStates, SameEvents, SameClock, SameFlags
<1>10. SameLists(k', k)
  BY <1>2, <1>9, SameListsFacts DEF SameFlags
<1>11. \E at \in {"take_unlock", "take_empty"} : \E c \in Calls :
         /\ pc' = [pc EXCEPT ![t] = at] /\ call' = [call EXCEPT ![t] = c]
         /\ CallOK(c, at) /\ c.sem = m
  <2> DEFINE b == call[t]
             d == <<k.overflows, k.tick>>
             l == b.ticks - elapsed
  <2>1. /\ b \in Calls /\ CallOK(b, "take_lock") /\ b.sem = m /\ b.timeOut # <<>>
        /\ b.ticks \in 0..MaxDelay /\ b.asked \in 0..MaxDelay /\ MaxDelay \in Nat
        /\ MaxDelay > 0
    BY <1>2, <1>3, Constants DEF Calls
  <2>2. d \in (0..(OverflowMod - 1)) \X (0..(TickMod - 1)) /\ d # <<>>
    BY <1>6
  <2>3. b.asked # 0 /\ b.ticks <= b.asked
    BY <2>1 DEF CallOK, Delaying
  <2>4. CASE /\ call' = [call EXCEPT ![t].outcome = "timeout"]
             /\ Goto(t, "take_unlock")
    <3> DEFINE c == [b EXCEPT !.outcome = "timeout"]
    <3>1. call' = [call EXCEPT ![t] = c]
      BY <1>2, <2>4 DEF Types
    <3>2. c = [b EXCEPT !.outcome = "timeout"]
      OBVIOUS
    <3> HIDE DEF c, b
    <3>3. /\ c \in Calls /\ c.timeOut = b.timeOut /\ c.sem = b.sem /\ c.ticks = b.ticks
          /\ c.asked = b.asked /\ c.outcome = "timeout"
      BY <2>1, <3>2 DEF Calls
    <3>4. CallOK(c, "take_unlock")
      BY <2>1, <3>3 DEF CallOK, Delaying, Suspending
    <3>5. pc' = [pc EXCEPT ![t] = "take_unlock"]
      BY <2>4 DEF Goto
    <3>6. QED
      BY <2>1, <3>1, <3>3, <3>4, <3>5
  <2>5. CASE /\ b.ticks # MaxDelay /\ elapsed < b.ticks
             /\ call' = [call EXCEPT ![t].ticks = @ - elapsed,
                                     ![t].timeOut = <<k.overflows, k.tick>>]
             /\ Goto(t, "take_empty")
    <3> DEFINE c == [b EXCEPT !.ticks = l, !.timeOut = d]
    <3>1. call' = [call EXCEPT ![t] = c]
      BY <1>2, <2>5 DEF Types
    <3>2. elapsed \in 0..(TickMod - 1)
      <4>1. b.timeOut \in (0..(OverflowMod - 1)) \X (0..(TickMod - 1))
        BY <2>1 DEF Calls
      <4>2. b.timeOut[2] \in Int
        BY <4>1
      <4>3. QED
        BY <1>6, <4>2, Constants
    <3>3. l \in 0..MaxDelay /\ l > 0 /\ l <= b.asked /\ b.asked # MaxDelay
      <4> HIDE DEF elapsed
      <4>1. b.asked # MaxDelay
        BY <2>1, <2>5 DEF CallOK
      <4>2. QED
        BY <2>1, <2>3, <2>5, <3>2, <4>1
    <3>4. c = [b EXCEPT !.ticks = l, !.timeOut = d]
      OBVIOUS
    <3> HIDE DEF c, b, l, d
    <3>5. /\ c \in Calls /\ c.timeOut = d /\ c.sem = b.sem /\ c.ticks = l
          /\ c.asked = b.asked /\ c.outcome = b.outcome
      BY <2>1, <2>2, <3>3, <3>4 DEF Calls
    <3>6. CallOK(c, "take_empty")
      BY <2>1, <2>2, <2>3, <3>3, <3>5 DEF CallOK, Delaying, Suspending
    <3>7. pc' = [pc EXCEPT ![t] = "take_empty"]
      BY <2>5 DEF Goto
    <3>8. QED
      BY <2>1, <3>1, <3>5, <3>6, <3>7
  <2>6. CASE b.ticks = MaxDelay /\ Goto(t, "take_empty") /\ call' = call
    <3>1. call' = [call EXCEPT ![t] = b]
      BY <1>2, <2>6 DEF Types
    <3>2. CallOK(b, "take_empty")
      BY <2>1, <2>3, <2>6 DEF CallOK, Delaying, Suspending
    <3>3. pc' = [pc EXCEPT ![t] = "take_empty"]
      BY <2>6 DEF Goto
    <3>4. QED
      BY <2>1, <3>1, <3>2, <3>3
  <2>7. QED
    BY <2>4, <2>5, <2>6 DEF xTaskCheckForTimeOut
<1>12. PICK at \in {"take_unlock", "take_empty"}, c \in Calls :
         /\ pc' = [pc EXCEPT ![t] = at] /\ call' = [call EXCEPT ![t] = c]
         /\ CallOK(c, at) /\ c.sem = m
  BY <1>11
<1>13. /\ pc'[t] = at /\ call'[t] = c
       /\ \A x \in Task : x # t => pc'[x] = pc[x] /\ call'[x] = call[x]
  BY <1>2, <1>12 DEF Types
<1>14. Types' /\ ListShape' /\ CurrentReady' /\ WaitersWait' /\ CallShape'
  <2>1. /\ at \in Places /\ age' \in [Task -> Nat] /\ k'.current = t
        /\ lastWake' \in [Task -> 0..(TickMod - 1)]
    BY <1>1, <1>2, <1>9 DEF Places, Types, SameFlags, xTaskCheckForTimeOut
  <2>2. QED
    BY <1>1, <1>10, <1>12, <2>1, LocalShape
<1>15. SuspendedByCurrent'
  BY <1>1, <1>4, <1>9, <1>13 DEF SuspendedByCurrent, SameFlags, Suspending
<1>16. LockedByTaker'
  <2>1. \A x \in Task : pc'[x] \in Locking <=> x = t
    BY <1>5, <1>13 DEF Locking
  <2>2. ASSUME NEW i \in Sem
        PROVE  /\ k'.txLock[i] # -1 <=> \E x \in Task : pc'[x] \in Locking /\ call'[x].sem = i
               /\ k'.txLock[i] = 1 => k'.messages[i] = 1
    <3>1. k'.txLock[i] # -1 <=> i = m
      BY <1>3, <1>8, <1>9
    <3>2. k'.txLock[i] # 1
      BY <1>3, <1>8, <1>9
    <3>3. (\E x \in Task : pc'[x] \in Locking /\ call'[x].sem = i) <=> i = m
      BY <1>12, <1>13, <2>1
    <3>4. QED
      BY <3>1, <3>2, <3>3
  <2>3. QED
    BY <2>2 DEF LockedByTaker
<1>17. GivesCounted'
  <2>1. ASSUME NEW i \in Sem, NEW x \in Task, WillTake(x, i) PROVE WillTake(x, i)'
    BY <1>1, <1>10, <1>13, <2>1 DEF WillTake, SameLists
  <2>2. \A x \in Task : pc'[x] # "take_place"
    BY <1>5, <1>13 DEF Locking
  <2>3. \A i \in Sem : k.messages[i] > 0 /\ WaitingOf(k, i) # {} => \E x \in Task : WillTake(x, i)
    BY <1>2, <1>6 DEF GivesCounted
  <2>4. QED
    BY <1>9, <1>10, <2>1, <2>2, <2>3 DEF GivesCounted, SameLists
<1>18. QED
  BY <1>14, <1>15, <1>16, <1>17 DEF KernelInv

\* The list work of a delay, with the scheduler suspended.
LEMMA DelayStep ==
  ASSUME KernelInv, NEW t \in Task, k.current = t, t \in ReadyOf(k),
         pc[t] \in {"app", "delay_until"},
         LET s == [k EXCEPT !.suspended = TRUE]
         IN  \/ k' = s
             \/ \E wake \in 0..(TickMod - 1) : wake # k.tick /\ k' = AddToDelayedList(s, t, wake),
         NEW c \in Calls, CallOK(c, "delay_resume"), pc' = [pc EXCEPT ![t] = "delay_resume"],
         call' = [call EXCEPT ![t] = c], age' = age, lastWake' \in [Task -> 0..(TickMod - 1)]
  PROVE  KernelInv'
<1> DEFINE s == [k EXCEPT !.suspended = TRUE]
<1>1. /\ Types /\ ListShape /\ SuspendedByCurrent /\ LockedByTaker /\ GivesCounted
      /\ WaitersWait /\ CallShape /\ k \in KernelRecord /\ StateLists(k) /\ EventLists(k)
  BY DEF KernelInv, Types, ListShape
<1>2. /\ ~k.suspended /\ \A x \in Task : pc[x] \notin Suspending /\ pc[x] \notin Locking
      /\ \A i \in Sem : k.txLock[i] = -1
  BY NotSuspended DEF Running, Suspending
<1>3. /\ s \in KernelRecord /\ SameStates(s, k) /\ SameEvents(s, k) /\ SameClock(s, k)
      /\ SameSems(s, k) /\ s.current = t /\ s.suspended /\ s.missedTicks = k.missedTicks
  BY <1>1 DEF KernelRecord, SameStates, SameEvents, SameClock, SameSems
<1>4. SameLists(s, k)
  BY <1>1, <1>3, SameListsFacts
<1> HIDE DEF s
<1>5. /\ k' \in KernelRecord /\ StateLists(k') /\ SameEvents(k', s) /\ SameClock(k', s)
      /\ SameSems(k', s) /\ SameFlags(k', s) /\ ReadyOf(k') \subseteq ReadyOf(s)
  <2>1. CASE k' = s
    BY <1>3, <1>4, <2>1 DEF SameLists, SameEvents, SameClock, SameSems, SameFlags
  <2>2. CASE \E wake \in 0..(TickMod - 1) : wake # k.tick /\ k' = AddToDelayedList(s, t, wake)
    <3>1. PICK wake \in 0..(TickMod - 1) : wake # k.tick /\ k' = AddToDelayedList(s, t, wake)
      BY <2>2
    <3>2. wake # s.tick /\ StateLists(s)
      BY <1>3, <1>4, <3>1 DEF SameClock, SameLists
    <3>3. /\ k' \in KernelRecord /\ StateLists(k') /\ ReadyOf(k') = ReadyOf(s) \ {t}
          /\ SameEvents(k', s) /\ SameClock(k', s) /\ SameFlags(k', s) /\ SameSems(k', s)
      BY <1>3, <3>1, <3>2, DelayFacts
    <3>4. QED
      BY <3>3
  <2>3. QED
    BY <2>1, <2>2 DEF s
<1>6. /\ EventLists(k') /\ PendingOf(k') = PendingOf(k)
      /\ \A m \in Sem : WaitingOf(k', m) = WaitingOf(k, m)
  <2>1. SameEvents(k', k)
    BY <1>3, <1>5 DEF SameEvents
  <2>2. QED
    BY <1>1, <2>1, SameEventsFacts
<1>7. /\ k'.current = t /\ k'.suspended /\ k'.missedTicks = k.missedTicks /\ SameSems(k', k)
      /\ ReadyOf(k') \subseteq ReadyOf(k)
  BY <1>3, <1>4, <1>5 DEF SameFlags, SameSems, SameLists
<1>8. /\ pc'[t] = "delay_resume" /\ call'[t] = c
      /\ \A x \in Task : x # t => pc'[x] = pc[x] /\ call'[x] = call[x]
      /\ pc' \in [Task -> Places] /\ call' \in [Task -> Calls]
  BY <1>1 DEF Types, Places
<1>9. Types'
  BY <1>1, <1>5, <1>7, <1>8 DEF Types
<1>10. ListShape'
  BY <1>1, <1>5, <1>6, <1>7 DEF ListShape, Apart
<1>11. SuspendedByCurrent'
  BY <1>2, <1>7, <1>8 DEF SuspendedByCurrent, Suspending
<1>12. LockedByTaker'
  <2>1. \A x \in Task : pc'[x] \notin Locking
    BY <1>2, <1>8 DEF Locking
  <2>2. QED
    BY <1>2, <1>7, <2>1 DEF LockedByTaker, SameSems
<1>13. CurrentReady'
  BY <1>7, <1>8 DEF CurrentReady, LeavesCpu
<1>14. WaitersWait'
  <2>1. t \notin PendingOf(k) /\ \A m \in Sem : t \notin WaitingOf(k, m)
    BY <1>1, ReadyApart
  <2>2. PendingOf(k) \subseteq Task /\ \A m \in Sem : WaitingOf(k, m) \subseteq Task
    BY <1>1, FieldTypes
  <2>3. QED
    BY <1>1, <1>6, <1>8, <2>1, <2>2 DEF WaitersWait
<1>15. CallShape'
  BY <1>1, <1>8 DEF CallShape
<1>16. GivesCounted'
  <2>1. ASSUME NEW m \in Sem, NEW x \in Task, WillTake(x, m) PROVE WillTake(x, m)'
    <3>1. x # t
      BY <2>1 DEF WillTake
    <3>2. QED
      BY <1>6, <1>8, <2>1, <3>1 DEF WillTake
  <2>2. \A x \in Task : pc'[x] # "take_place"
    BY <1>2, <1>8 DEF Suspending
  <2>3. \A i \in Sem : k.messages[i] > 0 /\ WaitingOf(k, i) # {} => \E x \in Task : WillTake(x, i)
    BY <1>1, <1>2 DEF GivesCounted
  <2>4. QED
    BY <1>6, <1>7, <2>1, <2>2, <2>3 DEF GivesCounted, SameSems
<1>17. QED
  BY <1>9, <1>10, <1>11, <1>12, <1>13, <1>14, <1>15, <1>16 DEF KernelInv

\* A wake-up time less than a round ahead is not the present time.
LEMMA WakeTime ==
  ASSUME NEW tick \in 0..(TickMod - 1), NEW n \in 1..(TickMod - 1)
  PROVE  LET wake == (tick + n) % TickMod
         IN  /\ wake \in 0..(TickMod - 1) /\ wake # tick
             /\ wake = IF tick + n < TickMod THEN tick + n ELSE tick + n - TickMod
<1>1. TickMod \in Nat /\ TickMod > 1 /\ tick + n \in Int /\ 0 <= tick + n /\ tick + n < 2 * TickMod
  BY Constants
<1>2. (tick + n) % TickMod = IF tick + n < TickMod THEN tick + n ELSE tick + n - TickMod
  <2> DEFINE a == tick + n
  <2> HIDE DEF a
  <2>1. a \in Int /\ 0 <= a /\ a < 2 * TickMod
    BY <1>1 DEF a
  <2>2. a % TickMod = IF a < TickMod THEN a ELSE a - TickMod
    BY <1>1, <2>1, ModSum
  <2>3. QED
    BY <1>1, <2>2 DEF a
<1>3. QED
  BY <1>1, <1>2

\* vTaskDelay.
LEMMA DelayInv ==
  ASSUME KernelInv, NEW t \in Task, NEW n, vTaskDelay(t, n)
  PROVE  KernelInv'
<1> DEFINE c == [NoCall EXCEPT !.asked = n]
           wake == (k.tick + n) % TickMod
<1>1. t \in ReadyOf(k) /\ k.current = t /\ pc[t] = "app"
  BY RunningReady DEF vTaskDelay
<1>2. Types /\ n \in 1..(MaxDelay - 1) /\ k.tick \in 0..(TickMod - 1)
  BY FieldTypes DEF KernelInv, Types, vTaskDelay
<1>3. n \in 1..(TickMod - 1) /\ n \in 0..MaxDelay /\ n # MaxDelay
  BY <1>2, Constants
<1>4. wake \in 0..(TickMod - 1) /\ wake # k.tick
  BY <1>2, <1>3, WakeTime
<1>5. c \in Calls /\ CallOK(c, "delay_resume")
  <2> DEFINE d == NoCall
  <2>1. d \in Calls /\ CallOK(d, "delay_resume") /\ d.timeOut = <<>>
    BY NoCallFacts DEF NoCall
  <2>2. c = [d EXCEPT !.asked = n]
    OBVIOUS
  <2> HIDE DEF c, d
  <2>3. /\ c \in Calls /\ c.sem = d.sem /\ c.ticks = d.ticks /\ c.asked = n
        /\ c.timeOut = <<>> /\ c.outcome = d.outcome
    BY <1>3, <2>1, <2>2 DEF Calls
  <2>4. QED
    BY <1>3, <2>1, <2>3 DEF CallOK, Delaying, Suspending
<1>6. /\ k' = AddToDelayedList([k EXCEPT !.suspended = TRUE], t, wake)
      /\ pc' = [pc EXCEPT ![t] = "delay_resume"]
      /\ call' = [call EXCEPT ![t] = c] /\ age' = age /\ lastWake' = lastWake
  BY DEF vTaskDelay, Goto
<1>7. lastWake' \in [Task -> 0..(TickMod - 1)]
  BY <1>2, <1>6 DEF Types
<1> HIDE DEF c, wake
<1>8. QED
  BY <1>1, <1>4, <1>5, <1>6, <1>7, DelayStep

\* The tick task only ever asks for one tick.
LEMMA DelayUntilFacts ==
  ASSUME NEW tick \in 0..(TickMod - 1), NEW prev \in 0..(TickMod - 1)
  PROVE  LET wake == (prev + 1) % TickMod
         IN  /\ wake \in 0..(TickMod - 1)
             /\ (IF tick < prev THEN wake < prev /\ wake > tick
                 ELSE wake < prev \/ wake > tick)
                  => wake # tick /\ (wake - tick) % TickMod = 1 /\ wake = (tick + 1) % TickMod
<1> DEFINE wake == (prev + 1) % TickMod
           next == (tick + 1) % TickMod
<1>1. TickMod \in Nat /\ TickMod > 2 /\ tick \in Int /\ prev \in Int
      /\ 0 <= tick /\ tick < TickMod /\ 0 <= prev /\ prev < TickMod
  BY Constants
<1>2. wake = IF prev + 1 < TickMod THEN prev + 1 ELSE prev + 1 - TickMod
  <2>1. 1 \in 1..(TickMod - 1)
    BY <1>1
  <2>2. QED
    BY <2>1, WakeTime
<1>3. next = IF tick + 1 < TickMod THEN tick + 1 ELSE tick + 1 - TickMod
  <2>1. 1 \in 1..(TickMod - 1)
    BY <1>1
  <2>2. QED
    BY <2>1, WakeTime
<1> HIDE DEF wake, next
<1>4. wake \in 0..(TickMod - 1)
  BY <1>1, <1>2
<1>5. ASSUME IF tick < prev THEN wake < prev /\ wake > tick ELSE wake < prev \/ wake > tick
      PROVE  wake # tick /\ (wake - tick) % TickMod = 1 /\ wake = next
  <2>1. tick = prev
    BY <1>1, <1>2, <1>5
  <2>2. wake # tick /\ wake = next
    BY <1>1, <1>2, <1>3, <2>1
  <2>3. (wake - tick) % TickMod = IF wake - tick < 0 THEN wake - tick + TickMod ELSE wake - tick
    <3>1. wake - tick \in Int /\ -TickMod <= wake - tick /\ wake - tick < TickMod
      BY <1>1, <1>4
    <3>2. QED
      BY <1>1, <3>1, ModDifference
  <2>4. QED
    BY <1>1, <1>2, <2>1, <2>2, <2>3
<1>6. QED
  BY <1>4, <1>5 DEF wake, next

\* vTaskDelayUntil.
LEMMA DelayUntilInv ==
  ASSUME KernelInv, NEW t \in Task, vTaskDelayUntil(t)
  PROVE  KernelInv'
<1> DEFINE prev == lastWake[t]
           wake == (prev + 1) % TickMod
           should == IF k.tick < prev THEN wake < prev /\ wake > k.tick
                     ELSE wake < prev \/ wake > k.tick
           asked == (wake - k.tick) % TickMod
           d == NoCall
           c == IF should THEN [d EXCEPT !.asked = asked] ELSE d
           s == [k EXCEPT !.suspended = TRUE]
<1>1. t \in ReadyOf(k) /\ k.current = t /\ pc[t] = "delay_until"
  BY RunningReady DEF vTaskDelayUntil
<1>2. /\ Types /\ prev \in 0..(TickMod - 1) /\ k.tick \in 0..(TickMod - 1) /\ call[t] = NoCall
  BY <1>1, FieldTypes DEF KernelInv, Types, CallShape, CallOK
<1>3. wake \in 0..(TickMod - 1) /\ (should => wake # k.tick /\ asked = 1)
  BY <1>2, DelayUntilFacts
<1>4. /\ lastWake' = [lastWake EXCEPT ![t] = wake]
      /\ k' = IF should THEN AddToDelayedList(s, t, wake) ELSE s
      /\ call' = IF should THEN [call EXCEPT ![t] = [NoCall EXCEPT !.asked = asked]] ELSE call
      /\ pc' = [pc EXCEPT ![t] = "delay_resume"] /\ age' = age
  BY DEF vTaskDelayUntil, Goto
<1> HIDE DEF wake, should, asked
<1>5. call' = [call EXCEPT ![t] = c]
  BY <1>2, <1>4 DEF Types
<1>6. c \in Calls /\ CallOK(c, "delay_resume")
  <2>1. d \in Calls /\ CallOK(d, "delay_resume") /\ d.timeOut = <<>>
    BY NoCallFacts DEF NoCall
  <2>2. 1 \in 0..MaxDelay /\ 1 # MaxDelay
    BY Constants
  <2>3. CASE should
    <3>1. c = [d EXCEPT !.asked = 1]
      BY <1>3, <2>3
    <3> HIDE DEF c, d
    <3>2. /\ c \in Calls /\ c.sem = d.sem /\ c.ticks = d.ticks /\ c.asked = 1
          /\ c.timeOut = <<>> /\ c.outcome = d.outcome
      BY <2>1, <2>2, <3>1 DEF Calls
    <3>3. QED
      BY <2>1, <2>2, <3>2 DEF CallOK, Delaying, Suspending
  <2>4. CASE ~should
    BY <2>1, <2>4
  <2>5. QED
    BY <2>3, <2>4
<1>7. lastWake' \in [Task -> 0..(TickMod - 1)]
  BY <1>2, <1>3, <1>4 DEF Types
<1>8. \/ k' = [k EXCEPT !.suspended = TRUE]
      \/ \E w \in 0..(TickMod - 1) : w # k.tick /\ k' = AddToDelayedList([k EXCEPT !.suspended = TRUE], t, w)
  BY <1>3, <1>4
<1> HIDE DEF c, d
<1>9. QED
  BY <1>1, <1>4, <1>5, <1>6, <1>7, <1>8, DelayStep

\* The task goes to the event list and to its list for the wait.
LEMMA PlaceInv ==
  ASSUME KernelInv, NEW t \in Task, vTaskPlaceOnEventList(t)
  PROVE  KernelInv'
<1> DEFINE c == call[t]
           m == c.sem
           q == Append(k.waiting[m], t)
           W == [k.waiting EXCEPT ![m] = q]
           s == [k EXCEPT !.waiting = W]
           g == RemoveGenericItems(s, {t})
           wake == (k.tick + c.ticks) % TickMod
<1>1. t \in ReadyOf(k) /\ k.current = t /\ pc[t] = "take_place"
  BY RunningReady DEF vTaskPlaceOnEventList
<1>2. /\ Types /\ ListShape /\ SuspendedByCurrent /\ LockedByTaker /\ GivesCounted
      /\ WaitersWait /\ k \in KernelRecord /\ StateLists(k) /\ EventLists(k)
      /\ c \in Calls /\ CallOK(c, "take_place") /\ CallShape
  BY <1>1 DEF KernelInv, Types, ListShape, CallShape
<1>3. m \in Sem /\ c.outcome = "block" /\ c.ticks > 0 /\ c.ticks \in 0..MaxDelay
  BY <1>2 DEF CallOK, Delaying, Calls
<1>4. k.suspended /\ \A x \in Task : x # t => pc[x] \notin Suspending
  BY <1>1, <1>2 DEF SuspendedByCurrent, Suspending
<1>5. /\ t \notin PendingOf(k) /\ \A i \in Sem : t \notin WaitingOf(k, i)
  BY <1>1, <1>2, ReadyApart
<1>6. /\ k.waiting \in [Sem -> Seq(Task)] /\ k.waiting[m] \in Seq(Task)
      /\ Distinct(k.waiting[m]) /\ k.tick \in 0..(TickMod - 1)
  BY <1>2, <1>3, FieldTypes DEF EventLists
<1>7. q \in Seq(Task) /\ Members(q) = WaitingOf(k, m) \cup {t} /\ Distinct(q)
  <2> DEFINE b == k.waiting[m]
  <2>1. b \in Seq(Task) /\ Distinct(b) /\ t \notin Members(b)
    BY <1>3, <1>5, <1>6 DEF WaitingOf
  <2> HIDE DEF b
  <2>2. /\ Append(b, t) \in Seq(Task) /\ Members(Append(b, t)) = Members(b) \cup {t}
        /\ Distinct(Append(b, t))
    BY <2>1, AppendFacts
  <2>3. QED
    BY <2>2 DEF b, WaitingOf
<1> HIDE DEF q
<1>8. W \in [Sem -> Seq(Task)] /\ W[m] = q /\ \A i \in Sem : i # m => W[i] = k.waiting[i]
  BY <1>3, <1>6, <1>7
<1>9. k' = IF c.ticks = MaxDelay THEN [g EXCEPT !.blocked = @ \cup {t}]
           ELSE AddToDelayedList(s, t, wake)
  BY DEF vTaskPlaceOnEventList, q
<1> HIDE DEF W
<1>10. /\ s \in KernelRecord /\ s.waiting = W /\ s.pending = k.pending
       /\ SameStates(s, k) /\ SameClock(s, k) /\ SameFlags(s, k) /\ SameSems(s, k)
  BY <1>2, <1>8 DEF KernelRecord, SameStates, SameClock, SameFlags, SameSems
<1>11. StateLists(s) /\ ReadyOf(s) = ReadyOf(k)
  BY <1>2, <1>10, SameStatesFacts
<1> HIDE DEF s
<1>12. /\ k' \in KernelRecord /\ StateLists(k') /\ ReadyOf(k') = ReadyOf(s) \ {t}
       /\ SameEvents(k', s) /\ SameClock(k', s) /\ SameFlags(k', s) /\ SameSems(k', s)
  <2>1. CASE c.ticks = MaxDelay
    BY <1>9, <1>10, <1>11, <2>1, BlockFacts
  <2>2. CASE c.ticks # MaxDelay
    <3>1. c.ticks \in 1..(TickMod - 1)
      BY <1>3, Constants
    <3>2. wake \in 0..(TickMod - 1) /\ wake # k.tick /\ k.tick = s.tick
      BY <1>6, <1>10, <3>1, WakeTime DEF SameClock
    <3>3. k' = AddToDelayedList(s, t, wake)
      BY <1>9, <2>2
    <3> HIDE DEF wake
    <3>4. QED
      BY <1>10, <1>11, <3>2, <3>3, DelayFacts
  <2>3. QED
    BY <2>1, <2>2
<1>13. /\ PendingOf(k') = PendingOf(k) /\ Distinct(k'.pending)
       /\ WaitingOf(k', m) = WaitingOf(k, m) \cup {t} /\ Distinct(k'.waiting[m])
       /\ \A i \in Sem : i # m => WaitingOf(k', i) = WaitingOf(k, i) /\ Distinct(k'.waiting[i])
  <2>1. k'.pending = k.pending /\ k'.waiting = W
    BY <1>10, <1>12 DEF SameEvents
  <2>2. QED
    BY <1>2, <1>7, <1>8, <2>1 DEF PendingOf, WaitingOf, EventLists
<1>14. EventLists(k')
  <2>1. \A i \in Sem : WaitingOf(k', i) \cap PendingOf(k') = {}
    BY <1>2, <1>5, <1>13 DEF EventLists
  <2>2. \A i, j \in Sem : i # j => WaitingOf(k', i) \cap WaitingOf(k', j) = {}
    BY <1>2, <1>5, <1>13 DEF EventLists
  <2>3. \A i \in Sem : Distinct(k'.waiting[i])
    BY <1>13
  <2>4. QED
    BY <1>13, <2>1, <2>2, <2>3 DEF EventLists
<1>15. /\ k'.current = t /\ k'.suspended /\ k'.missedTicks = k.missedTicks /\ SameSems(k', k)
       /\ ReadyOf(k') = ReadyOf(k) \ {t}
  BY <1>1, <1>4, <1>10, <1>11, <1>12 DEF SameFlags, SameSems
<1>16. /\ pc'[t] = "take_unlock" /\ \A x \in Task : x # t => pc'[x] = pc[x]
       /\ pc' \in [Task -> Places] /\ call' = call /\ age' = age /\ lastWake' = lastWake
  BY <1>2 DEF vTaskPlaceOnEventList, Goto, Types, Places
<1>17. Types'
  BY <1>2, <1>12, <1>15, <1>16 DEF Types
<1>18. ListShape'
  <2>1. \A i \in Sem : WaitingOf(k', i) \cap ReadyOf(k') = {}
    BY <1>2, <1>13, <1>15 DEF ListShape, Apart
  <2>2. PendingOf(k') \cap ReadyOf(k') = {}
    BY <1>2, <1>13, <1>15 DEF ListShape, Apart
  <2>3. QED
    BY <1>12, <1>14, <2>1, <2>2 DEF ListShape, Apart
<1>19. SuspendedByCurrent'
  BY <1>4, <1>15, <1>16 DEF SuspendedByCurrent, Suspending
<1>20. LockedByTaker'
  <2>1. \A x \in Task : pc'[x] \in Locking <=> pc[x] \in Locking
    BY <1>1, <1>16 DEF Locking
  <2>2. QED
    BY <1>2, <1>15, <1>16, <2>1 DEF LockedByTaker, SameSems
<1>21. CurrentReady'
  BY <1>3, <1>15, <1>16 DEF CurrentReady, LeavesCpu
<1>22. WaitersWait'
  <2>1. PendingOf(k) \subseteq Task /\ \A i \in Sem : WaitingOf(k, i) \subseteq Task
    BY <1>2, FieldTypes
  <2>2. ASSUME NEW i \in Sem, NEW x \in WaitingOf(k', i)
        PROVE  call[x].sem = i /\ call[x].outcome = "block" /\ pc'[x] \in Woken \cup {"take_unlock"}
    <3>1. CASE x = t
      <4>1. i = m
        BY <1>5, <1>13, <2>2, <3>1
      <4>2. QED
        BY <1>3, <1>16, <3>1, <4>1
    <3>2. CASE x # t
      <4>1. x \in WaitingOf(k, i) /\ x \in Task
        BY <1>13, <2>1, <2>2, <3>2
      <4>2. QED
        BY <1>2, <1>16, <3>2, <4>1 DEF WaitersWait
    <3>3. QED
      BY <3>1, <3>2
  <2>3. \A x \in PendingOf(k') : call[x].outcome = "block" /\ pc'[x] \in Woken
    BY <1>2, <1>5, <1>13, <1>16, <2>1 DEF WaitersWait
  <2>4. QED
    BY <1>16, <2>2, <2>3 DEF WaitersWait
<1>23. CallShape'
  <2>1. CallOK(c, "take_unlock")
    BY <1>2, <1>3 DEF CallOK, Delaying, Suspending
  <2>2. QED
    BY <1>2, <1>16, <2>1 DEF CallShape
<1>24. GivesCounted'
  <2>1. \A x \in Task : pc'[x] # "take_place"
    BY <1>4, <1>16 DEF Suspending
  <2>2. ASSUME NEW i \in Sem, NEW x \in Task, i # m, WillTake(x, i) PROVE WillTake(x, i)'
    <3>1. x # t
      BY <2>2 DEF WillTake
    <3>2. QED
      BY <1>13, <1>16, <2>2, <3>1 DEF WillTake
  <2>3. k.messages[m] > 0 => k.txLock[m] > 0
    BY <1>1, <1>2 DEF GivesCounted
  <2>4. ASSUME NEW i \in Sem, k'.messages[i] > 0, WaitingOf(k', i) # {}
        PROVE  k'.txLock[i] > 0 \/ \E x \in Task : WillTake(x, i)'
    <3>1. CASE i = m
      BY <1>15, <2>3, <2>4, <3>1 DEF SameSems
    <3>2. CASE i # m
      <4>1. k.txLock[i] > 0 \/ \E x \in Task : WillTake(x, i)
        BY <1>2, <1>13, <1>15, <2>4, <3>2 DEF GivesCounted, SameSems
      <4>2. QED
        BY <1>15, <2>2, <3>2, <4>1 DEF SameSems
    <3>3. QED
      BY <3>1, <3>2
  <2>5. QED
    BY <2>1, <2>4 DEF GivesCounted
<1>25. QED
  BY <1>17, <1>18, <1>19, <1>20, <1>21, <1>22, <1>23, <1>24 DEF KernelInv

\* prvUnlockQueue: a give that found the queue locked is not forgotten.
LEMMA UnlockInv ==
  ASSUME KernelInv, NEW t \in Task, TakeUnlockQueue(t)
  PROVE  KernelInv'
<1> DEFINE c == call[t]
           m == c.sem
<1>1. /\ Types /\ ListShape /\ SuspendedByCurrent /\ LockedByTaker /\ GivesCounted /\ CurrentReady
      /\ WaitersWait /\ CallShape /\ k \in KernelRecord /\ StateLists(k) /\ EventLists(k)
      /\ k.current = t /\ pc[t] = "take_unlock" /\ CallOK(c, "take_unlock") /\ c \in Calls
  BY DEF KernelInv, Types, ListShape, TakeUnlockQueue, Running, CallShape
<1>2. m \in Sem /\ c.outcome \in {"block", "retry", "timeout"}
  BY <1>1 DEF CallOK, Delaying, Calls
<1>3. k.suspended /\ \A x \in Task : x # t => pc[x] \notin Suspending
  BY <1>1 DEF SuspendedByCurrent, Suspending
<1>4. k.txLock[m] \in Nat
  <2>1. k.txLock[m] \in -1..1 /\ k.txLock[m] # -1
    BY <1>1, <1>2, FieldTypes DEF LockedByTaker, Locking
  <2>2. QED
    BY <2>1
<1>5. k' = prvUnlockQueue(k, m)
  BY DEF TakeUnlockQueue
<1>6. /\ k' \in KernelRecord /\ EventLists(k')
      /\ \E T \in SUBSET WaitingOf(k, m) :
           /\ PendingOf(k') = PendingOf(k) \cup T
           /\ \A i \in Sem : WaitingOf(k', i) = WaitingOf(k, i) \ T
           /\ k.txLock[m] > 0 /\ WaitingOf(k, m) # {} => T # {}
      /\ k'.txLock = [k.txLock EXCEPT ![m] = -1] /\ k'.messages = k.messages
      /\ SameStates(k', k) /\ SameClock(k', k) /\ k'.current = k.current
      /\ k'.suspended = k.suspended /\ k'.missedTicks = k.missedTicks
  BY <1>1, <1>2, <1>4, <1>5, UnlockFacts
<1>7. PICK T \in SUBSET WaitingOf(k, m) :
        /\ PendingOf(k') = PendingOf(k) \cup T
        /\ \A i \in Sem : WaitingOf(k', i) = WaitingOf(k, i) \ T
        /\ k.txLock[m] > 0 /\ WaitingOf(k, m) # {} => T # {}
  BY <1>6
<1>8. StateLists(k') /\ ReadyOf(k') = ReadyOf(k)
  BY <1>1, <1>6, SameStatesFacts
<1>9. /\ k'.txLock[m] = -1 /\ \A i \in Sem : i # m => k'.txLock[i] = k.txLock[i]
  <2>1. k.txLock \in [Sem -> -1..1]
    BY <1>1, FieldTypes
  <2>2. QED
    BY <1>2, <1>6, <2>1
<1>10. /\ pc'[t] = "take_resume" /\ \A x \in Task : x # t => pc'[x] = pc[x]
       /\ pc' \in [Task -> Places] /\ call' = call /\ age' = age /\ lastWake' = lastWake
  BY <1>1 DEF TakeUnlockQueue, Goto, Types, Places
<1> HIDE DEF m, c
<1>11. Types'
  BY <1>1, <1>6, <1>10 DEF Types
<1>12. ListShape'
  <2>1. \A i \in Sem : WaitingOf(k', i) \cap ReadyOf(k') = {}
    BY <1>1, <1>7, <1>8 DEF ListShape, Apart
  <2>2. PendingOf(k') \cap ReadyOf(k') = {}
    BY <1>1, <1>2, <1>7, <1>8 DEF ListShape, Apart
  <2>3. QED
    BY <1>6, <1>8, <2>1, <2>2 DEF ListShape, Apart
<1>13. SuspendedByCurrent'
  BY <1>1, <1>3, <1>6, <1>10 DEF SuspendedByCurrent, Suspending
<1>14. LockedByTaker'
  <2>1. \A x \in Task : pc'[x] \notin Locking
    BY <1>3, <1>10 DEF Suspending, Locking
  <2>2. \A i \in Sem : i # m => k.txLock[i] = -1
    <3>1. \A x \in Task : pc[x] \in Locking => x = t
      BY <1>3 DEF Suspending, Locking
    <3>2. QED
      BY <1>1, <3>1 DEF LockedByTaker, m, c
  <2>3. \A i \in Sem : k'.txLock[i] = -1
    BY <1>9, <2>2
  <2>4. QED
    BY <2>1, <2>3 DEF LockedByTaker
<1>15. CurrentReady'
  BY <1>1, <1>6, <1>8, <1>10 DEF CurrentReady, LeavesCpu
<1>16. WaitersWait'
  <2>1. PendingOf(k) \subseteq Task /\ \A i \in Sem : WaitingOf(k, i) \subseteq Task
    BY <1>1, FieldTypes
  <2>2. ASSUME NEW i \in Sem, NEW x \in WaitingOf(k, i)
        PROVE  call[x].sem = i /\ call[x].outcome = "block" /\ pc'[x] \in Woken
    <3>1. x \in Task /\ call[x].sem = i /\ call[x].outcome = "block"
          /\ pc[x] \in Woken \cup {"take_unlock"}
      BY <1>1, <2>1, <2>2 DEF WaitersWait
    <3>2. CASE x = t
      BY <1>10, <3>1, <3>2 DEF Woken
    <3>3. CASE x # t
      BY <1>3, <1>10, <3>1, <3>3 DEF Woken, Suspending
    <3>4. QED
      BY <3>2, <3>3
  <2>3. t \notin PendingOf(k)
    BY <1>1 DEF WaitersWait, Woken
  <2>4. \A x \in PendingOf(k) : call[x].outcome = "block" /\ pc'[x] \in Woken
    BY <1>1, <1>10, <2>1, <2>3 DEF WaitersWait
  <2>5. /\ \A i \in Sem : \A x \in WaitingOf(k', i) :
             call[x].sem = i /\ call[x].outcome = "block" /\ pc'[x] \in Woken \cup {"take_unlock"}
        /\ \A x \in PendingOf(k') : call[x].outcome = "block" /\ pc'[x] \in Woken
    BY <1>2, <1>7, <2>2, <2>4
  <2>6. QED
    BY <1>10, <2>5 DEF WaitersWait
<1>17. CallShape'
  <2>1. CallOK(c, "take_resume")
    BY <1>1 DEF CallOK, Delaying, Suspending
  <2>2. QED
    BY <1>1, <1>10, <2>1 DEF CallShape, c
<1>18. GivesCounted'
  <2>1. \A x \in Task : pc'[x] # "take_place"
    BY <1>3, <1>10 DEF Suspending
  <2>2. ASSUME NEW i \in Sem, NEW x \in Task, WillTake(x, i) PROVE WillTake(x, i)'
    BY <1>1, <1>7, <1>10, <2>2 DEF WillTake
  <2>3. ASSUME NEW i \in Sem, k'.messages[i] > 0, WaitingOf(k', i) # {}
        PROVE  k'.txLock[i] > 0 \/ \E x \in Task : WillTake(x, i)'
    <3>1. k.messages[i] > 0 /\ WaitingOf(k, i) # {}
      BY <1>6, <1>7, <2>3
    <3>2. CASE k.txLock[i] > 0 /\ i = m
      <4>1. PICK x \in T : TRUE
        BY <1>7, <3>1, <3>2
      <4>2. x \in WaitingOf(k, m) /\ x \in Task /\ x \notin WaitingOf(k', m)
        <5>1. WaitingOf(k, m) \subseteq Task
          BY <1>1, <1>2, FieldTypes
        <5>2. QED
          BY <1>2, <1>7, <4>1, <5>1
      <4>3. /\ call[x].sem = m /\ call[x].outcome = "block"
            /\ pc[x] \in Woken \cup {"take_unlock"}
        <5>1. WaitersWait
          BY <1>1
        <5>2. QED
          BY <1>2, <4>2, <5>1 DEF WaitersWait
      <4>4. pc'[x] \in {"take", "take_unlock", "take_resume", "take_yield"}
        <5>1. CASE x = t
          BY <1>10, <5>1
        <5>2. CASE x # t
          BY <1>10, <4>2, <4>3, <5>2 DEF Woken
        <5>3. QED
          BY <5>1, <5>2
      <4>5. call[x].sem = i /\ x \notin WaitingOf(k', i)
        BY <3>2, <4>2, <4>3
      <4>6. WillTake(x, i)'
        BY <1>10, <4>3, <4>4, <4>5 DEF WillTake
      <4>7. QED
        BY <4>2, <4>6
    <3>3. CASE k.txLock[i] > 0 /\ i # m
      BY <1>9, <3>3
    <3>4. CASE \E x \in Task : WillTake(x, i)
      BY <2>2, <3>4
    <3>5. QED
      BY <1>1, <3>1, <3>2, <3>3, <3>4 DEF GivesCounted
  <2>4. QED
    BY <2>1, <2>3 DEF GivesCounted
<1>19. QED
  BY <1>11, <1>12, <1>13, <1>14, <1>15, <1>16, <1>17, <1>18 DEF KernelInv

\* xTaskResumeAll, at the end of a delay or of a wait.
LEMMA ResumeStep ==
  ASSUME KernelInv, NEW t \in Task, k.current = t, pc[t] \in {"delay_resume", "take_resume"},
         k' = xTaskResumeAll(k), NEW at \in Places \ Suspending, at \notin Locking,
         pc' = [pc EXCEPT ![t] = at], call' = call, CallOK(call[t], at),
         pc[t] = "take_resume" /\ call[t].outcome \in {"block", "retry"}
           => at \in {"take", "take_yield"},
         ~YieldsOnResume(k) /\ LeavesCpu(t) => at \in {"delay_yield", "take_yield"},
         age' \in [Task -> Nat], lastWake' = lastWake
  PROVE  KernelInv'
<1> DEFINE T == PendingOf(k) \cup Expired(k, k.missedTicks)
<1>1. /\ Types /\ ListShape /\ SuspendedByCurrent /\ LockedByTaker /\ GivesCounted /\ CurrentReady
      /\ WaitersWait /\ CallShape /\ k \in KernelRecord /\ StateLists(k) /\ EventLists(k)
      /\ Apart(k) /\ k.missedTicks \in Nat /\ pc \in [Task -> Places]
  BY DEF KernelInv, Types, ListShape
<1>2. /\ k' \in KernelRecord /\ StateLists(k') /\ EventLists(k')
      /\ ReadyOf(k') = ReadyOf(k) \cup T /\ k'.pending = <<>>
      /\ \A m \in Sem : WaitingOf(k', m) = WaitingOf(k, m) \ T
      /\ ~k'.suspended /\ k'.missedTicks = 0 /\ ~k'.missedYield /\ SameSems(k', k)
      /\ IF YieldsOnResume(k) THEN k'.current \in ReadyOf(k') \cup {Idle}
         ELSE k'.current = k.current
  BY <1>1, ResumeFacts
<1> HIDE DEF T
<1>3. /\ pc'[t] = at /\ \A x \in Task : x # t => pc'[x] = pc[x]
      /\ pc' \in [Task -> Places]
  BY <1>1
<1>4. \A x \in Task : x # t => pc[x] \notin Suspending
  BY <1>1 DEF SuspendedByCurrent
<1>5. PendingOf(k') = {}
  BY <1>2 DEF Members, PendingOf
<1>6. Types'
  BY <1>1, <1>2, <1>3 DEF Types
<1>7. ListShape'
  BY <1>1, <1>2, <1>5 DEF ListShape, Apart
<1>8. SuspendedByCurrent'
  BY <1>2, <1>3, <1>4 DEF SuspendedByCurrent
<1>9. LockedByTaker'
  <2>1. \A x \in Task : pc[x] \notin Locking /\ pc'[x] \notin Locking
    BY <1>3, <1>4 DEF Suspending, Locking
  <2>2. k'.messages = k.messages /\ k'.txLock = k.txLock
    BY <1>2 DEF SameSems
  <2>3. QED
    BY <1>1, <2>1, <2>2 DEF LockedByTaker
<1>10. CurrentReady'
  <2>1. CASE YieldsOnResume(k)
    BY <1>2, <2>1, Constants DEF CurrentReady
  <2>2. CASE ~YieldsOnResume(k)
    <3>1. k'.current = t
      BY <1>2, <2>2
    <3>2. CASE LeavesCpu(t)
      BY <1>3, <2>2, <3>1, <3>2 DEF CurrentReady, LeavesCpu
    <3>3. CASE t \in ReadyOf(k)
      BY <1>2, <3>1, <3>3 DEF CurrentReady
    <3>4. QED
      BY <1>1, <3>2, <3>3 DEF CurrentReady
  <2>3. QED
    BY <2>1, <2>2
<1>11. WaitersWait'
  <2>1. ASSUME NEW m \in Sem, NEW x \in WaitingOf(k', m)
        PROVE  call'[x].sem = m /\ call'[x].outcome = "block" /\ pc'[x] \in Woken \cup {"take_unlock"}
    <3>1. x \in WaitingOf(k, m) /\ WaitingOf(k, m) \subseteq Task
      BY <1>1, <1>2, FieldTypes
    <3>2. /\ call[x].sem = m /\ call[x].outcome = "block"
          /\ pc[x] \in Woken \cup {"take_unlock"}
      BY <1>1, <3>1 DEF WaitersWait
    <3>3. CASE x = t
      BY <1>3, <3>2, <3>3 DEF Woken
    <3>4. CASE x # t
      BY <1>3, <3>1, <3>2, <3>4
    <3>5. QED
      BY <3>3, <3>4
  <2>2. QED
    BY <1>5, <2>1 DEF WaitersWait
<1>12. CallShape'
  BY <1>1, <1>3 DEF CallShape
<1>13. GivesCounted'
  <2>1. \A x \in Task : pc'[x] # "take_place"
    BY <1>3, <1>4 DEF Suspending
  <2>2. ASSUME NEW i \in Sem, NEW x \in Task, WillTake(x, i) PROVE WillTake(x, i)'
    <3>1. x \notin WaitingOf(k', i)
      BY <1>2, <2>2 DEF WillTake
    <3>2. CASE x = t
      BY <1>3, <2>2, <3>1, <3>2 DEF WillTake
    <3>3. CASE x # t
      BY <1>3, <2>2, <3>1, <3>3 DEF WillTake
    <3>4. QED
      BY <3>2, <3>3
  <2>3. \A i \in Sem : WaitingOf(k', i) # {} => WaitingOf(k, i) # {}
    BY <1>2
  <2>4. k'.messages = k.messages /\ k'.txLock = k.txLock
    BY <1>2 DEF SameSems
  <2>5. QED
    BY <1>1, <2>1, <2>2, <2>3, <2>4 DEF GivesCounted
<1>14. QED
  BY <1>6, <1>7, <1>8, <1>9, <1>10, <1>11, <1>12, <1>13 DEF KernelInv

\* The ages after a step are numbers.
LEMMA AgedNat ==
  ASSUME Types, NEW n \in Nat
  PROVE  Aged(n) \in [Task -> Nat]
  BY DEF Types, Aged

\* The ticks a step lets happen are a number.
LEMMA TicksNat ==
  ASSUME NEW s \in KernelRecord, NEW r \in KernelRecord
  PROVE  Ticks(s, r) \in Nat
<1>1. s.tick \in Int /\ r.tick \in Int
  BY FieldTypes
<1>2. QED
  BY <1>1, Constants DEF Ticks

\* xTaskResumeAll of a delay and of a take.
LEMMA ResumeInv ==
  ASSUME KernelInv, NEW t \in Task, DelayResume(t) \/ TakeResume(t)
  PROVE  KernelInv'
<1>1. /\ Types /\ k \in KernelRecord /\ StateLists(k) /\ EventLists(k) /\ Apart(k)
      /\ k.missedTicks \in Nat /\ pc \in [Task -> Places] /\ CallOK(call[t], pc[t])
      /\ k' = xTaskResumeAll(k) /\ call' = call /\ lastWake' = lastWake /\ k.current = t
      /\ age' = Aged(Ticks(k, k')) /\ pc[t] \in {"delay_resume", "take_resume"}
  BY DEF KernelInv, Types, ListShape, CallShape, DelayResume, TakeResume, Running
<1>2. k' \in KernelRecord
  BY <1>1, ResumeFacts
<1>3. age' \in [Task -> Nat]
  BY <1>1, <1>2, AgedNat, TicksNat
<1>4. CASE DelayResume(t)
  <2> DEFINE at == IF YieldsOnResume(k) THEN "delay_return" ELSE "delay_yield"
  <2>1. /\ pc[t] = "delay_resume" /\ pc' = [pc EXCEPT ![t] = at]
    BY <1>4 DEF DelayResume, Running, Goto
  <2>2. /\ at \in Places \ Suspending /\ at \notin Locking /\ CallOK(call[t], at)
        /\ ~YieldsOnResume(k) => at = "delay_yield"
    BY <1>1, <2>1 DEF Places, Suspending, Locking, CallOK, Delaying
  <2> HIDE DEF at
  <2>3. QED
    BY <1>1, <1>3, <2>1, <2>2, ResumeStep
<1>5. CASE TakeResume(t)
  <2>1. /\ pc[t] = "take_resume"
        /\ \/ call[t].outcome = "timeout" /\ pc' = [pc EXCEPT ![t] = "take_failed"]
           \/ call[t].outcome = "block" /\ pc' = [pc EXCEPT ![t] = "take_yield"]
           \/ /\ call[t].outcome = "retry" \/ (call[t].outcome = "block" /\ YieldsOnResume(k))
              /\ pc' = [pc EXCEPT ![t] = "take"]
    BY <1>5 DEF TakeResume, Running, Goto
  <2>2. PICK at \in {"take_failed", "take_yield", "take"} :
          /\ pc' = [pc EXCEPT ![t] = at]
          /\ at = "take_failed" <=> call[t].outcome = "timeout"
          /\ at = "take_yield" => call[t].outcome = "block"
          /\ at = "take" => \/ call[t].outcome = "retry"
                            \/ call[t].outcome = "block" /\ YieldsOnResume(k)
    BY <2>1
  <2>3. /\ at \in Places \ Suspending /\ at \notin Locking /\ CallOK(call[t], at)
    BY <1>1, <2>1, <2>2 DEF Places, Suspending, Locking, CallOK, Delaying
  <2>4. ~YieldsOnResume(k) /\ LeavesCpu(t) => at = "take_yield"
    BY <2>1, <2>2 DEF LeavesCpu
  <2>5. call[t].outcome \in {"block", "retry"} => at \in {"take", "take_yield"}
    BY <2>2
  <2>6. QED
    BY <1>1, <1>3, <2>1, <2>2, <2>3, <2>4, <2>5, ResumeStep
<1>6. QED
  BY <1>4, <1>5

\* The same while the scheduler is suspended: the waiter is pending.
LEMMA PendFacts ==
  ASSUME NEW s \in KernelRecord, StateLists(s), EventLists(s),
         NEW m \in Sem, s.waiting[m] # <<>>, s.suspended
  PROVE  LET r == vTaskSwitchContext(xTaskRemoveFromEventList(s, m))
             t == Head(s.waiting[m])
         IN  /\ t \in WaitingOf(s, m)
             /\ r \in KernelRecord /\ EventLists(r)
             /\ SameStates(r, s) /\ SameClock(r, s) /\ SameSems(r, s)
             /\ \A i \in Sem : WaitingOf(r, i) = WaitingOf(s, i) \ {t}
             /\ PendingOf(r) = PendingOf(s) \cup {t}
             /\ r.suspended /\ r.missedTicks = s.missedTicks /\ r.current = s.current
<1> DEFINE t == Head(s.waiting[m])
           p == Tail(s.waiting[m])
           W == [s.waiting EXCEPT ![m] = p]
           P == Append(s.pending, t)
           u == [s EXCEPT !.waiting = W, !.pending = P, !.missedYield = TRUE]
<1>1. /\ s.waiting[m] \in Seq(Task) /\ s.waiting \in [Sem -> Seq(Task)]
      /\ Distinct(s.waiting[m]) /\ s.pending \in Seq(Task) /\ Distinct(s.pending)
  BY FieldTypes DEF EventLists
<1>2. /\ t \in Task /\ t \in WaitingOf(s, m) /\ p \in Seq(Task)
      /\ WaitingOf(s, m) = Members(p) \cup {t}
      /\ Distinct(p) /\ t \notin Members(p)
  <2> DEFINE b == s.waiting[m]
  <2>1. b \in Seq(Task) /\ b # <<>> /\ Distinct(b)
    BY <1>1
  <2> HIDE DEF b
  <2>2. /\ Head(b) \in Task /\ Head(b) \in Members(b) /\ Tail(b) \in Seq(Task)
        /\ Members(b) = Members(Tail(b)) \cup {Head(b)}
        /\ Distinct(Tail(b)) /\ Head(b) \notin Members(Tail(b))
    BY <2>1, HeadFacts
  <2>3. QED
    BY <2>2 DEF b, WaitingOf
<1>3. vTaskSwitchContext(xTaskRemoveFromEventList(s, m)) = u
  <2>1. xTaskRemoveFromEventList(s, m)
          = [[s EXCEPT !.waiting = W] EXCEPT !.pending = Append(@, t)]
    BY DEF xTaskRemoveFromEventList
  <2>2. xTaskRemoveFromEventList(s, m) = [s EXCEPT !.waiting = W, !.pending = P]
    <3> HIDE DEF t, W
    <3>1. QED
      BY <2>1 DEF KernelRecord, P
  <2> HIDE DEF t, W, P
  <2>3. QED
    BY <2>2 DEF vTaskSwitchContext, KernelRecord
<1> HIDE DEF t, p
<1>4. /\ W \in [Sem -> Seq(Task)] /\ W[m] = p /\ \A i \in Sem : i # m => W[i] = s.waiting[i]
  BY <1>1, <1>2
<1>5. t \notin Members(s.pending)
  BY <1>2 DEF EventLists, PendingOf
<1>6. P \in Seq(Task) /\ Members(P) = PendingOf(s) \cup {t} /\ Distinct(P)
  BY <1>1, <1>2, <1>5, AppendFacts DEF PendingOf
<1> HIDE DEF W, P
<1>7. /\ u \in KernelRecord /\ u.waiting = W /\ u.pending = P /\ u.suspended
      /\ u.missedTicks = s.missedTicks /\ u.current = s.current
      /\ SameStates(u, s) /\ SameClock(u, s) /\ SameSems(u, s)
  BY <1>4, <1>6 DEF KernelRecord, SameStates, SameClock, SameSems
<1> HIDE DEF u
<1>8. \A i \in Sem : WaitingOf(u, i) = WaitingOf(s, i) \ {t} /\ Distinct(u.waiting[i])
  <2>1. \A i \in Sem : i # m => t \notin WaitingOf(s, i)
    BY <1>2 DEF EventLists
  <2>2. ASSUME NEW i \in Sem, i # m
        PROVE  WaitingOf(u, i) = WaitingOf(s, i) /\ Distinct(u.waiting[i])
    BY <1>4, <1>7, <2>2 DEF WaitingOf, EventLists
  <2>3. WaitingOf(u, m) = Members(p) /\ Distinct(u.waiting[m])
    BY <1>2, <1>4, <1>7 DEF WaitingOf
  <2>4. QED
    BY <1>2, <2>1, <2>2, <2>3
<1>9. PendingOf(u) = PendingOf(s) \cup {t} /\ Distinct(u.pending)
  BY <1>6, <1>7 DEF PendingOf
<1>10. EventLists(u)
  <2>1. \A i \in Sem : WaitingOf(u, i) \cap PendingOf(u) = {}
    BY <1>8, <1>9 DEF EventLists
  <2>2. \A i, j \in Sem : i # j => WaitingOf(u, i) \cap WaitingOf(u, j) = {}
    BY <1>8 DEF EventLists
  <2>3. QED
    BY <1>8, <1>9, <2>1, <2>2 DEF EventLists
<1> HIDE DEF u
<1>11. vTaskSwitchContext(xTaskRemoveFromEventList(s, m)) = u
  BY <1>3
<1>12. t = Head(s.waiting[m])
  BY DEF t
<1>13. QED
  BY <1>2, <1>7, <1>8, <1>9, <1>10, <1>11, <1>12

(* r is s after a give of m that found the queue unlocked: nobody waited,  *)
(* or the first waiter is woken.                                           *)
Given(r, s, m) ==
  /\ r \in KernelRecord /\ StateLists(r) /\ EventLists(r)
  /\ r.messages = [s.messages EXCEPT ![m] = 1] /\ r.txLock = s.txLock
  /\ r.suspended = s.suspended /\ r.missedTicks = s.missedTicks
  /\ \E W \in SUBSET WaitingOf(s, m) :
       /\ W = {} => WaitingOf(s, m) = {}
       /\ \A i \in Sem : WaitingOf(r, i) = WaitingOf(s, i) \ W
       /\ IF s.suspended THEN ReadyOf(r) = ReadyOf(s) /\ PendingOf(r) = PendingOf(s) \cup W
          ELSE ReadyOf(r) = ReadyOf(s) \cup W /\ r.pending = s.pending
  /\ Timed(r) \subseteq Timed(s) /\ \A x \in Timed(r) : Due(r, x) = Due(s, x)
  /\ Timed(s) \ Timed(r) \subseteq WaitingOf(s, m)
  /\ SameClock(r, s)
  /\ \/ r.current = s.current
     \/ ~s.suspended /\ r.current \in ReadyOf(r) \cup {Idle}
  /\ ~s.suspended => r.missedYield = s.missedYield

\* A give: a critical section of xQueueGenericSend and of its interrupt variant.
LEMMA GiveFacts ==
  ASSUME NEW s \in KernelRecord, StateLists(s), EventLists(s), Apart(s), NEW m \in Sem,
         s.messages[m] = 0
  PROVE  LET g == [s EXCEPT !.messages[m] = @ + 1]
         IN  Given(IF g.waiting[m] = <<>> THEN g
                   ELSE vTaskSwitchContext(xTaskRemoveFromEventList(g, m)), s, m)
<1> DEFINE M == [s.messages EXCEPT ![m] = 1]
           g == [s EXCEPT !.messages = M]
           r == vTaskSwitchContext(xTaskRemoveFromEventList(g, m))
           h == Head(g.waiting[m])
<1>1. s.messages \in [Sem -> 0..1] /\ M \in [Sem -> 0..1]
  <2>1. s.messages \in [Sem -> 0..1]
    BY FieldTypes
  <2>2. QED
    BY <2>1
<1>2. [s EXCEPT !.messages[m] = @ + 1] = g
  BY <1>1
<1> HIDE DEF M
<1>3. /\ g \in KernelRecord /\ SameStates(g, s) /\ SameClock(g, s) /\ SameEvents(g, s)
      /\ SameFlags(g, s) /\ g.txLock = s.txLock /\ g.messages = M
  BY ZenonT(60), <1>1 DEF KernelRecord, SameStates, SameClock, SameEvents, SameFlags
<1> HIDE DEF g
<1>4. /\ StateLists(g) /\ ReadyOf(g) = ReadyOf(s) /\ Timed(g) = Timed(s)
      /\ g.blocked = s.blocked /\ \A x \in Timed(g) : Due(g, x) = Due(s, x)
  BY <1>3, SameStatesFacts
<1>5. /\ EventLists(g) /\ PendingOf(g) = PendingOf(s)
      /\ \A i \in Sem : WaitingOf(g, i) = WaitingOf(s, i)
  BY <1>3, SameEventsFacts
<1>6. Apart(g)
  BY <1>4, <1>5 DEF Apart
<1>7. M = [s.messages EXCEPT ![m] = 1]
  BY DEF M
<1>8. CASE g.waiting[m] = <<>>
  <2>1. WaitingOf(s, m) = {}
    <3>1. s.waiting[m] = <<>>
      BY <1>3, <1>8 DEF SameEvents
    <3>2. QED
      BY <3>1 DEF WaitingOf, Members
  <2>2. {} \in SUBSET WaitingOf(s, m) /\ \A i \in Sem : WaitingOf(g, i) = WaitingOf(s, i) \ {}
    BY <1>5
  <2>3. IF s.suspended THEN ReadyOf(g) = ReadyOf(s) /\ PendingOf(g) = PendingOf(s) \cup {}
        ELSE ReadyOf(g) = ReadyOf(s) \cup {} /\ g.pending = s.pending
    BY <1>3, <1>4, <1>5 DEF SameEvents
  <2>4. \E W \in SUBSET WaitingOf(s, m) :
          /\ W = {} => WaitingOf(s, m) = {}
          /\ \A i \in Sem : WaitingOf(g, i) = WaitingOf(s, i) \ W
          /\ IF s.suspended THEN ReadyOf(g) = ReadyOf(s) /\ PendingOf(g) = PendingOf(s) \cup W
             ELSE ReadyOf(g) = ReadyOf(s) \cup W /\ g.pending = s.pending
    BY <2>1, <2>2, <2>3
  <2>5. Given(g, s, m)
    BY <1>3, <1>4, <1>5, <1>7, <2>4 DEF Given, SameFlags
  <2>6. QED
    BY <1>2, <1>8, <2>5
<1>9. CASE g.waiting[m] # <<>> /\ g.suspended
  <2>1. /\ h \in WaitingOf(g, m)
        /\ r \in KernelRecord /\ EventLists(r)
        /\ SameStates(r, g) /\ SameClock(r, g) /\ SameSems(r, g)
        /\ \A i \in Sem : WaitingOf(r, i) = WaitingOf(g, i) \ {h}
        /\ PendingOf(r) = PendingOf(g) \cup {h}
        /\ r.suspended /\ r.missedTicks = g.missedTicks /\ r.current = g.current
    BY <1>3, <1>4, <1>5, <1>9, PendFacts
  <2> HIDE DEF r, h
  <2>2. /\ StateLists(r) /\ ReadyOf(r) = ReadyOf(g) /\ Timed(r) = Timed(g)
        /\ r.blocked = g.blocked /\ \A x \in Timed(r) : Due(r, x) = Due(g, x)
    BY <1>3, <1>4, <2>1, SameStatesFacts
  <2>3. s.suspended
    BY <1>3, <1>9 DEF SameFlags
  <2>4. /\ {h} \in SUBSET WaitingOf(s, m)
        /\ \A i \in Sem : WaitingOf(r, i) = WaitingOf(s, i) \ {h}
        /\ ReadyOf(r) = ReadyOf(s) /\ PendingOf(r) = PendingOf(s) \cup {h}
    BY <1>4, <1>5, <2>1, <2>2
  <2>5. \E W \in SUBSET WaitingOf(s, m) :
          /\ W = {} => WaitingOf(s, m) = {}
          /\ \A i \in Sem : WaitingOf(r, i) = WaitingOf(s, i) \ W
          /\ IF s.suspended THEN ReadyOf(r) = ReadyOf(s) /\ PendingOf(r) = PendingOf(s) \cup W
             ELSE ReadyOf(r) = ReadyOf(s) \cup W /\ r.pending = s.pending
    BY <2>3, <2>4
  <2>6. /\ SameClock(r, s) /\ r.suspended = s.suspended /\ r.missedTicks = s.missedTicks
        /\ r.current = s.current /\ r.messages = M /\ r.txLock = s.txLock
    BY <1>3, <1>9, <2>1, <2>3 DEF SameClock, SameFlags, SameSems
  <2>7. /\ Timed(r) \subseteq Timed(s) /\ \A x \in Timed(r) : Due(r, x) = Due(s, x)
        /\ Timed(s) \ Timed(r) \subseteq WaitingOf(s, m)
    BY <1>4, <2>2
  <2>8. Given(r, s, m)
    BY <1>7, <2>1, <2>2, <2>3, <2>5, <2>6, <2>7 DEF Given
  <2>9. QED
    BY <1>2, <1>9, <2>8 DEF r
<1>10. CASE g.waiting[m] # <<>> /\ ~g.suspended
  <2>1. /\ h \in WaitingOf(g, m)
        /\ r \in KernelRecord /\ StateLists(r) /\ EventLists(r)
        /\ ReadyOf(r) = ReadyOf(g) \cup {h} /\ Timed(r) = Timed(g) \ {h}
        /\ \A x \in Timed(r) : Due(r, x) = Due(g, x)
        /\ \A i \in Sem : WaitingOf(r, i) = WaitingOf(g, i) \ {h}
        /\ r.pending = g.pending
        /\ SameClock(r, g) /\ SameSems(r, g)
        /\ ~r.suspended /\ r.missedTicks = g.missedTicks /\ r.missedYield = g.missedYield
        /\ r.current \in ReadyOf(r) \cup {Idle}
    BY <1>3, <1>4, <1>5, <1>6, <1>10, WakeAndSwitchFacts
  <2> HIDE DEF r, h
  <2>3. ~s.suspended
    BY <1>3, <1>10 DEF SameFlags
  <2>4. /\ {h} \in SUBSET WaitingOf(s, m)
        /\ \A i \in Sem : WaitingOf(r, i) = WaitingOf(s, i) \ {h}
        /\ ReadyOf(r) = ReadyOf(s) \cup {h} /\ r.pending = s.pending
    BY <1>3, <1>4, <1>5, <2>1 DEF SameEvents
  <2>5. \E W \in SUBSET WaitingOf(s, m) :
          /\ W = {} => WaitingOf(s, m) = {}
          /\ \A i \in Sem : WaitingOf(r, i) = WaitingOf(s, i) \ W
          /\ IF s.suspended THEN ReadyOf(r) = ReadyOf(s) /\ PendingOf(r) = PendingOf(s) \cup W
             ELSE ReadyOf(r) = ReadyOf(s) \cup W /\ r.pending = s.pending
    BY <2>3, <2>4
  <2>6. /\ SameClock(r, s) /\ r.suspended = s.suspended /\ r.missedTicks = s.missedTicks
        /\ r.missedYield = s.missedYield /\ r.messages = M /\ r.txLock = s.txLock
    <3>1. SameClock(r, s)
      BY <1>3, <2>1 DEF SameClock
    <3>2. r.messages = M /\ r.txLock = s.txLock
      BY <1>3, <2>1 DEF SameSems
    <3>3. r.missedTicks = s.missedTicks /\ r.missedYield = s.missedYield
      BY <1>3, <2>1 DEF SameFlags
    <3>4. r.suspended = s.suspended
      <4>1. r.suspended \in BOOLEAN /\ s.suspended \in BOOLEAN
        BY <2>1, FieldTypes
      <4>2. QED
        BY <2>1, <2>3, <4>1
    <3>5. QED
      BY <3>1, <3>2, <3>3, <3>4
  <2>7. /\ Timed(r) \subseteq Timed(s) /\ \A x \in Timed(r) : Due(r, x) = Due(s, x)
        /\ Timed(s) \ Timed(r) \subseteq WaitingOf(s, m)
    BY <1>4, <2>1, <2>4
  <2>8. Given(r, s, m)
    BY <1>7, <2>1, <2>3, <2>5, <2>6, <2>7 DEF Given
  <2>9. QED
    BY <1>2, <1>10, <2>8 DEF r
<1>11. QED
  BY <1>8, <1>9, <1>10

\* A give that found the queue unlocked.
LEMMA GiveUnlocked ==
  ASSUME KernelInv, NEW m \in Sem, k.messages[m] = 0, k.txLock[m] = -1, Given(k', k, m),
         UNCHANGED <<pc, call, lastWake, age>>
  PROVE  KernelInv'
<1>1. /\ Types /\ ListShape /\ SuspendedByCurrent /\ LockedByTaker /\ GivesCounted /\ CurrentReady
      /\ WaitersWait /\ CallShape /\ k \in KernelRecord /\ StateLists(k) /\ EventLists(k)
      /\ Apart(k) /\ k.messages \in [Sem -> 0..1]
  BY FieldTypes DEF KernelInv, Types, ListShape
<1>2. PICK W \in SUBSET WaitingOf(k, m) :
        /\ W = {} => WaitingOf(k, m) = {}
        /\ \A i \in Sem : WaitingOf(k', i) = WaitingOf(k, i) \ W
        /\ IF k.suspended THEN ReadyOf(k') = ReadyOf(k) /\ PendingOf(k') = PendingOf(k) \cup W
           ELSE ReadyOf(k') = ReadyOf(k) \cup W /\ k'.pending = k.pending
  BY DEF Given
<1>3. /\ k' \in KernelRecord /\ StateLists(k') /\ EventLists(k')
      /\ k'.txLock = k.txLock /\ k'.suspended = k.suspended /\ k'.missedTicks = k.missedTicks
      /\ k'.messages = [k.messages EXCEPT ![m] = 1]
      /\ \/ k'.current = k.current
         \/ ~k.suspended /\ k'.current \in ReadyOf(k') \cup {Idle}
      /\ ~k.suspended => k'.missedYield = k.missedYield
  BY DEF Given
<1>4. k'.messages[m] = 1 /\ \A i \in Sem : i # m => k'.messages[i] = k.messages[i]
  BY <1>1, <1>3
<1>5. W \subseteq Task
  <2>1. WaitingOf(k, m) \subseteq Task
    BY <1>1, FieldTypes
  <2>2. QED
    BY <2>1
<1>6. ReadyOf(k) \subseteq ReadyOf(k') /\ ReadyOf(k') \subseteq ReadyOf(k) \cup W
      /\ PendingOf(k') \subseteq PendingOf(k) \cup W
      /\ PendingOf(k') \cap ReadyOf(k') = {}
  <2>1. W \cap ReadyOf(k) = {} /\ PendingOf(k) \cap ReadyOf(k) = {}
        /\ W \cap PendingOf(k) = {}
    BY <1>1, <1>2 DEF Apart, EventLists
  <2>2. CASE k.suspended
    BY <1>2, <2>1, <2>2
  <2>3. CASE ~k.suspended
    <3>1. PendingOf(k') = PendingOf(k)
      BY <1>2, <2>3 DEF PendingOf
    <3>2. QED
      BY <1>2, <2>1, <2>3, <3>1
  <2>4. QED
    BY <2>2, <2>3
<1>7. Types'
  BY <1>1, <1>3 DEF Types
<1>8. ListShape'
  <2>1. \A i \in Sem : WaitingOf(k', i) \cap ReadyOf(k') = {}
    BY <1>1, <1>2, <1>6 DEF Apart
  <2>2. QED
    BY <1>3, <1>6, <2>1 DEF ListShape, Apart
<1>9. SuspendedByCurrent'
  BY <1>1, <1>2, <1>3 DEF SuspendedByCurrent
<1>10. LockedByTaker'
  BY <1>1, <1>3, <1>4 DEF LockedByTaker
<1>11. CurrentReady'
  <2>1. ASSUME NEW x \in Task, k'.current = x PROVE x \in ReadyOf(k') \/ LeavesCpu(x)
    <3>1. CASE k'.current = k.current
      BY <1>1, <1>6, <2>1, <3>1 DEF CurrentReady
    <3>2. CASE k'.current \in ReadyOf(k') \cup {Idle}
      BY <2>1, <3>2, Constants
    <3>3. QED
      BY <1>3, <3>1, <3>2
  <2>2. QED
    BY <2>1 DEF CurrentReady, LeavesCpu
<1>12. ASSUME NEW x \in W
       PROVE  call[x].sem = m /\ call[x].outcome = "block" /\ pc[x] \in Woken
  <2>1. call[x].sem = m /\ call[x].outcome = "block" /\ pc[x] \in Woken \cup {"take_unlock"}
    BY <1>1, <1>2, <1>12 DEF WaitersWait
  <2>2. pc[x] # "take_unlock"
    BY <1>1, <1>5, <1>12, <2>1 DEF LockedByTaker, Locking
  <2>3. QED
    BY <2>1, <2>2
<1>13. WaitersWait'
  <2>1. \A i \in Sem : \A x \in WaitingOf(k', i) :
          call[x].sem = i /\ call[x].outcome = "block" /\ pc[x] \in Woken \cup {"take_unlock"}
    BY <1>1, <1>2 DEF WaitersWait
  <2>2. \A x \in PendingOf(k') : call[x].outcome = "block" /\ pc[x] \in Woken
    BY <1>1, <1>6, <1>12 DEF WaitersWait
  <2>3. QED
    BY <2>1, <2>2 DEF WaitersWait
<1>14. CallShape'
  BY <1>1 DEF CallShape
<1>15. GivesCounted'
  <2>1. ASSUME NEW x \in Task, pc[x] = "take_place", k'.messages[call[x].sem] > 0
        PROVE  k'.txLock[call[x].sem] > 0
    <3>1. call[x].sem \in Sem
      <4>1. CallOK(call[x], "take_place")
        BY <1>1, <2>1 DEF CallShape
      <4>2. QED
        BY <4>1 DEF CallOK, Delaying
    <3>2. k.txLock[call[x].sem] # -1
      BY <1>1, <2>1, <3>1 DEF LockedByTaker, Locking
    <3>3. QED
      BY <1>1, <1>3, <1>4, <2>1, <3>1, <3>2 DEF GivesCounted
  <2>2. ASSUME NEW i \in Sem, NEW x \in Task, WillTake(x, i) PROVE WillTake(x, i)'
    <3>1. x \notin WaitingOf(k', i)
      BY <1>2, <2>2 DEF WillTake
    <3>2. QED
      BY <2>2, <3>1 DEF WillTake
  <2>3. ASSUME NEW i \in Sem, k'.messages[i] > 0, WaitingOf(k', i) # {}
        PROVE  k'.txLock[i] > 0 \/ \E x \in Task : WillTake(x, i)'
    <3>1. WaitingOf(k, i) # {}
      BY <1>2, <2>3
    <3>2. CASE i # m
      BY <1>1, <1>3, <1>4, <2>2, <2>3, <3>1, <3>2 DEF GivesCounted
    <3>3. CASE i = m
      <4>1. PICK x \in W : TRUE
        BY <1>2, <3>1, <3>3
      <4>2. x \in Task /\ x \notin WaitingOf(k', m)
        BY <1>2, <1>5, <4>1
      <4>3. call[x].sem = m /\ call[x].outcome = "block" /\ pc[x] \in Woken
        BY <1>12, <4>1
      <4>4. WillTake(x, m)'
        BY <4>2, <4>3 DEF WillTake, Woken
      <4>5. QED
        BY <3>3, <4>2, <4>4
    <3>4. QED
      BY <3>2, <3>3
  <2>4. QED
    BY <2>1, <2>3 DEF GivesCounted
<1>16. QED
  BY <1>7, <1>8, <1>9, <1>10, <1>11, <1>13, <1>14, <1>15 DEF KernelInv

WithSems(s, M, L) == [s EXCEPT !.messages = M, !.txLock = L]

\* The fields a counted give changes.
LEMMA CountedFields ==
  ASSUME NEW s \in KernelRecord, NEW M \in [Sem -> 0..1], NEW L \in [Sem -> -1..1],
         NEW r, r = WithSems(s, M, L)
  PROVE  /\ r \in KernelRecord /\ r.txLock = L /\ r.messages = M /\ SameStates(r, s)
         /\ SameClock(r, s) /\ SameEvents(r, s) /\ SameFlags(r, s)
<1>1. r \in KernelRecord
  BY DEF WithSems, KernelRecord
<1>2. r.txLock = L /\ r.messages = M /\ SameStates(r, s)
  BY DEF WithSems, KernelRecord, SameStates
<1>3. SameClock(r, s) /\ SameEvents(r, s) /\ SameFlags(r, s)
  BY DEF WithSems, KernelRecord, SameClock, SameEvents, SameFlags
<1>4. QED
  BY <1>1, <1>2, <1>3

CountedGive(s, m) == LET g == [s EXCEPT !.messages[m] = @ + 1]
                     IN  [g EXCEPT !.txLock[m] = @ + 1]

\* A give found the queue locked: the lock counts it.
LEMMA CountGive ==
  ASSUME NEW s \in KernelRecord, NEW m \in Sem, s.messages[m] = 0, s.txLock[m] = 0
  PROVE  CountedGive(s, m)
           = WithSems(s, [s.messages EXCEPT ![m] = 1], [s.txLock EXCEPT ![m] = 1])
<1> DEFINE M == [s.messages EXCEPT ![m] = 1]
           g == [s EXCEPT !.messages = M]
           L == [g.txLock EXCEPT ![m] = g.txLock[m] + 1]
<1>1. [s EXCEPT !.messages[m] = @ + 1] = g
  OBVIOUS
<1>2. g.txLock = s.txLock
  <2> HIDE DEF M
  <2>1. QED
    BY DEF KernelRecord
<1>3. L = [s.txLock EXCEPT ![m] = 1]
  BY <1>2
<1>4. [g EXCEPT !.txLock[m] = @ + 1] = [g EXCEPT !.txLock = L]
  OBVIOUS
<1>5. CountedGive(s, m) = [g EXCEPT !.txLock = L]
  BY <1>1, <1>4 DEF CountedGive
<1> HIDE DEF L
<1>6. QED
  BY <1>3, <1>5 DEF WithSems

\* A give that found the queue locked is counted in the lock.
LEMMA GiveLocked ==
  ASSUME KernelInv, NEW m \in Sem, k.messages[m] = 0, k.txLock[m] # -1,
         NEW M \in [Sem -> 0..1], M[m] = 1, \A i \in Sem : i # m => M[i] = k.messages[i],
         NEW L \in [Sem -> -1..1], L[m] = 1, \A i \in Sem : i # m => L[i] = k.txLock[i],
         k' = WithSems(k, M, L),
         UNCHANGED <<pc, call, lastWake, age>>
  PROVE  KernelInv' /\ SameLists(k', k)
<1>1. /\ Types /\ ListShape /\ SuspendedByCurrent /\ LockedByTaker /\ GivesCounted /\ CurrentReady
      /\ WaitersWait /\ CallShape /\ k \in KernelRecord /\ StateLists(k) /\ EventLists(k)
      /\ Apart(k) /\ k.messages \in [Sem -> 0..1] /\ k.txLock \in [Sem -> -1..1]
  BY FieldTypes DEF KernelInv, Types, ListShape
<1>2. k.txLock[m] = 0
  <2>1. k.txLock[m] \in -1..1 /\ k.txLock[m] # 1
    BY <1>1 DEF LockedByTaker
  <2>2. QED
    BY <2>1
<1>4. /\ M[m] = 1 /\ \A i \in Sem : i # m => M[i] = k.messages[i]
      /\ L[m] = 1 /\ \A i \in Sem : i # m => L[i] = k.txLock[i]
  OBVIOUS
<1>5. /\ k' \in KernelRecord /\ SameStates(k', k) /\ SameClock(k', k) /\ SameEvents(k', k)
      /\ SameFlags(k', k) /\ k'.txLock = L /\ k'.messages = M
  BY <1>1, CountedFields
<1>6. SameLists(k', k)
  BY <1>1, <1>5, SameListsFacts DEF SameFlags
<1>7. Types'
  BY <1>1, <1>5 DEF Types, SameFlags
<1>8. ListShape'
  BY <1>1, <1>6 DEF ListShape, Apart, SameLists
<1>9. SuspendedByCurrent'
  BY <1>1, <1>5 DEF SuspendedByCurrent, SameFlags, SameEvents
<1>10. LockedByTaker'
  <2>1. \A i \in Sem : k'.txLock[i] = -1 <=> k.txLock[i] = -1
    BY <1>2, <1>4, <1>5
  <2>2. \A i \in Sem : k'.txLock[i] = 1 => k'.messages[i] = 1
    BY <1>1, <1>4, <1>5 DEF LockedByTaker
  <2>3. QED
    BY <1>1, <2>1, <2>2 DEF LockedByTaker
<1>11. CurrentReady'
  BY <1>1, <1>5, <1>6 DEF CurrentReady, LeavesCpu, SameFlags, SameLists
<1>12. WaitersWait'
  BY <1>1, <1>6 DEF WaitersWait, SameLists
<1>13. CallShape'
  BY <1>1 DEF CallShape
<1>14. GivesCounted'
  <2>1. ASSUME NEW x \in Task, pc[x] = "take_place", k'.messages[call[x].sem] > 0
        PROVE  k'.txLock[call[x].sem] > 0
    <3>1. call[x].sem \in Sem
      <4>1. CallOK(call[x], "take_place")
        BY <1>1, <2>1 DEF CallShape
      <4>2. QED
        BY <4>1 DEF CallOK, Delaying
    <3>2. QED
      BY <1>1, <1>4, <1>5, <2>1, <3>1 DEF GivesCounted
  <2>2. \A i \in Sem, x \in Task : WillTake(x, i) => WillTake(x, i)'
    BY <1>6 DEF WillTake, SameLists
  <2>3. ASSUME NEW i \in Sem, k'.messages[i] > 0, WaitingOf(k', i) # {}
        PROVE  k'.txLock[i] > 0 \/ \E x \in Task : WillTake(x, i)'
    <3>1. CASE i = m
      BY <1>4, <1>5, <3>1
    <3>2. CASE i # m
      <4>1. k.messages[i] > 0 /\ WaitingOf(k, i) # {} /\ k'.txLock[i] = k.txLock[i]
        BY <1>4, <1>5, <1>6, <2>3, <3>2 DEF SameLists
      <4>2. QED
        BY <1>1, <2>2, <4>1 DEF GivesCounted
    <3>3. QED
      BY <3>1, <3>2
  <2>4. QED
    BY <2>1, <2>3 DEF GivesCounted
<1>15. QED
  BY <1>6, <1>7, <1>8, <1>9, <1>10, <1>11, <1>12, <1>13, <1>14 DEF KernelInv

\* What a give does, by a task or by an interrupt.
LEMMA GiveStep ==
  ASSUME KernelInv, NEW m \in Sem,
         (\E t \in Task : xSemaphoreGive(t, m)) \/ xSemaphoreGiveFromISR(m)
  PROVE  KernelInv' /\ (SameLists(k', k) \/ Given(k', k, m)) /\ k.messages[m] = 0
<1>1. /\ k.messages[m] < 1 /\ UNCHANGED <<pc, call, lastWake, age>>
      /\ k.txLock[m] = -1 \/ xSemaphoreGiveFromISR(m)
  <2>1. CASE \E t \in Task : xSemaphoreGive(t, m)
    <3>1. k.txLock[m] = -1
      BY <2>1, NotSuspended DEF xSemaphoreGive, Suspending
    <3>2. QED
      BY <2>1, <3>1 DEF xSemaphoreGive
  <2>2. CASE xSemaphoreGiveFromISR(m)
    BY <2>2 DEF xSemaphoreGiveFromISR
  <2>3. QED
    BY <2>1, <2>2
<1>2. k \in KernelRecord /\ StateLists(k) /\ EventLists(k) /\ Apart(k)
  BY DEF KernelInv, Types, ListShape
<1>3. k.messages[m] = 0
  <2>1. k.messages \in [Sem -> 0..1]
    BY <1>2, FieldTypes
  <2>2. k.messages[m] \in 0..1
    BY <2>1
  <2>3. QED
    BY <1>1, <2>2
<1> DEFINE g == [k EXCEPT !.messages[m] = @ + 1]
           M == [k.messages EXCEPT ![m] = 1]
           L == [k.txLock EXCEPT ![m] = 1]
<1>4. CASE k.txLock[m] = -1
  <2>1. g.txLock = k.txLock
    BY <1>2 DEF KernelRecord
  <2>2. k' = IF g.waiting[m] = <<>> THEN g
             ELSE vTaskSwitchContext(xTaskRemoveFromEventList(g, m))
    BY <1>4, <2>1 DEF xSemaphoreGive, xSemaphoreGiveFromISR
  <2>3. Given(k', k, m)
    BY <1>2, <1>3, <2>2, GiveFacts
  <2>4. QED
    BY <1>1, <1>3, <1>4, <2>3, GiveUnlocked
<1>5. CASE k.txLock[m] # -1
  <2>1. k.txLock \in [Sem -> -1..1] /\ k.messages \in [Sem -> 0..1]
    BY <1>2, FieldTypes
  <2>2. k.txLock[m] = 0
    <3>1. k.txLock[m] \in -1..1 /\ k.txLock[m] # 1
      BY <1>3, <2>1 DEF KernelInv, LockedByTaker
    <3>2. QED
      BY <1>5, <3>1
  <2>3. CountedGive(k, m) = WithSems(k, M, L)
    BY <1>2, <1>3, <2>2, CountGive
  <2>4. g.txLock = k.txLock
    BY <1>2 DEF KernelRecord
  <2>5. k' = [g EXCEPT !.txLock[m] = @ + 1]
    BY <1>1, <1>5, <2>4 DEF xSemaphoreGiveFromISR
  <2>6. k' = WithSems(k, M, L)
    BY <2>3, <2>5 DEF CountedGive
  <2>7. /\ M \in [Sem -> 0..1] /\ M[m] = 1 /\ \A i \in Sem : i # m => M[i] = k.messages[i]
        /\ L \in [Sem -> -1..1] /\ L[m] = 1 /\ \A i \in Sem : i # m => L[i] = k.txLock[i]
    BY <2>1
  <2> HIDE DEF M, L, g
  <2>8. QED
    BY <1>1, <1>3, <1>5, <2>6, <2>7, GiveLocked
<1>6. QED
  BY <1>4, <1>5

\* A tick while the scheduler is suspended is only counted.
LEMMA TickCounted ==
  ASSUME NEW s \in KernelRecord, s.suspended
  PROVE  LET r == vTaskIncrementTick(s)
         IN  /\ r \in KernelRecord /\ SameStates(r, s) /\ SameEvents(r, s) /\ SameClock(r, s)
             /\ SameSems(r, s) /\ r.current = s.current /\ r.suspended = s.suspended
             /\ r.missedYield = s.missedYield /\ r.missedTicks = s.missedTicks + 1
<1> DEFINE n == s.missedTicks + 1
           r == [s EXCEPT !.missedTicks = n]
<1>1. n \in Int
  BY FieldTypes
<1>2. vTaskIncrementTick(s) = r
  BY DEF vTaskIncrementTick
<1>3. n = s.missedTicks + 1
  OBVIOUS
<1> HIDE DEF n
<1>4. r \in KernelRecord
  BY <1>1 DEF KernelRecord
<1>5. /\ SameStates(r, s) /\ SameEvents(r, s) /\ SameClock(r, s)
      /\ SameSems(r, s) /\ r.current = s.current /\ r.suspended = s.suspended
      /\ r.missedYield = s.missedYield /\ r.missedTicks = n
  BY DEF KernelRecord, SameStates, SameEvents, SameClock, SameSems
<1> HIDE DEF r
<1>6. QED
  BY <1>2, <1>3, <1>4, <1>5

\* The tick interrupt.
LEMMA TickInv ==
  ASSUME KernelInv, xPortSysTickHandler
  PROVE  KernelInv'
<1>1. /\ Types /\ ListShape /\ SuspendedByCurrent /\ LockedByTaker /\ GivesCounted /\ CurrentReady
      /\ WaitersWait /\ CallShape /\ k \in KernelRecord /\ StateLists(k) /\ EventLists(k)
      /\ Apart(k) /\ k.missedTicks \in Nat
  BY DEF KernelInv, Types, ListShape
<1>2. k' = vTaskIncrementTick(k) /\ UNCHANGED <<pc, call, lastWake>> /\ age' = Aged(Ticks(k, k'))
  BY DEF xPortSysTickHandler
<1>3. PICK E \in SUBSET Task :
        /\ k' \in KernelRecord /\ StateLists(k') /\ EventLists(k')
        /\ ReadyOf(k') = ReadyOf(k) \cup E
        /\ \A m \in Sem : WaitingOf(k', m) = WaitingOf(k, m) \ E
        /\ PendingOf(k') = PendingOf(k) /\ (k.suspended => E = {})
        /\ (k.pending = <<>> => k'.pending = <<>>)
        /\ SameSems(k', k) /\ k'.current = k.current /\ k'.suspended = k.suspended
        /\ k'.missedYield = k.missedYield
        /\ k'.missedTicks = k.missedTicks + (IF k.suspended THEN 1 ELSE 0)
  <2>1. CASE k.suspended
    <3>1. /\ k' \in KernelRecord /\ SameStates(k', k) /\ SameEvents(k', k) /\ SameClock(k', k)
          /\ SameSems(k', k) /\ k'.current = k.current /\ k'.suspended = k.suspended
          /\ k'.missedYield = k.missedYield /\ k'.missedTicks = k.missedTicks + 1
      BY <1>1, <1>2, <2>1, TickCounted
    <3>2. StateLists(k') /\ ReadyOf(k') = ReadyOf(k)
      BY <1>1, <3>1, SameStatesFacts
    <3>3. /\ EventLists(k') /\ PendingOf(k') = PendingOf(k)
          /\ \A m \in Sem : WaitingOf(k', m) = WaitingOf(k, m)
      BY <1>1, <3>1, SameEventsFacts
    <3>4. /\ ReadyOf(k') = ReadyOf(k) \cup {} /\ {} \in SUBSET Task
          /\ \A m \in Sem : WaitingOf(k', m) = WaitingOf(k, m) \ {}
          /\ k.pending = <<>> => k'.pending = <<>>
      BY <3>1, <3>2, <3>3 DEF SameEvents
    <3>5. QED
      BY <2>1, <3>1, <3>2, <3>3, <3>4
  <2>2. CASE ~k.suspended
    <3> DEFINE E == Expired(k, 1)
    <3>1. Elapsed(k, k', 1) /\ k'.missedTicks = k.missedTicks
      BY <1>1, <1>2, <2>2, TickFacts
    <3>2. /\ k' \in KernelRecord /\ StateLists(k') /\ EventLists(k')
          /\ ReadyOf(k') = ReadyOf(k) \cup E
          /\ \A m \in Sem : WaitingOf(k', m) = WaitingOf(k, m) \ E
          /\ PendingOf(k') = PendingOf(k) \ E
          /\ SameSems(k', k) /\ k'.current = k.current /\ k'.suspended = k.suspended
          /\ k'.missedYield = k.missedYield
      BY <3>1 DEF Elapsed
    <3>3. E \in SUBSET Task
      BY <1>1, FieldTypes DEF Expired, Timed
    <3>4. k.pending = <<>> /\ k'.pending \in Seq(Task)
      BY <1>1, <2>2, <3>2, FieldTypes DEF SuspendedByCurrent
    <3> HIDE DEF E
    <3>5. PendingOf(k) = {}
      BY <3>4 DEF PendingOf, Members
    <3>6. PendingOf(k') = {}
      BY <3>2, <3>5
    <3>7. k'.pending = <<>>
      BY <3>4, <3>6, MembersFacts DEF PendingOf
    <3>8. k'.missedTicks = k.missedTicks + 0
      BY <1>1, <3>1
    <3>9. QED
      BY <2>2, <3>2, <3>3, <3>5, <3>6, <3>7, <3>8
  <2>3. QED
    BY <2>1, <2>2
<1>4. Types'
  <2>1. age' \in [Task -> Nat]
    BY <1>1, <1>2, <1>3, AgedNat, TicksNat
  <2>2. QED
    BY <1>1, <1>2, <1>3, <2>1 DEF Types
<1>5. ListShape'
  <2>1. PendingOf(k') \cap ReadyOf(k') = {}
    <3>1. CASE k.suspended
      BY <1>1, <1>3, <3>1 DEF Apart
    <3>2. CASE ~k.suspended
      <4>1. PendingOf(k) = {}
        BY <1>1, <3>2 DEF SuspendedByCurrent, PendingOf, Members
      <4>2. QED
        BY <1>3, <4>1
    <3>3. QED
      BY <3>1, <3>2
  <2>2. QED
    BY <1>1, <1>3, <2>1 DEF ListShape, Apart
<1>6. SuspendedByCurrent'
  BY <1>1, <1>2, <1>3 DEF SuspendedByCurrent
<1>7. LockedByTaker'
  BY <1>1, <1>2, <1>3 DEF LockedByTaker, SameSems
<1>8. CurrentReady'
  BY <1>1, <1>2, <1>3 DEF CurrentReady, LeavesCpu
<1>9. WaitersWait'
  BY <1>1, <1>2, <1>3 DEF WaitersWait
<1>10. CallShape'
  BY <1>1, <1>2 DEF CallShape
<1>11. GivesCounted'
  <2>1. \A i \in Sem, x \in Task : WillTake(x, i) => WillTake(x, i)'
    BY <1>2, <1>3 DEF WillTake
  <2>2. \A i \in Sem : WaitingOf(k', i) # {} => WaitingOf(k, i) # {}
    BY <1>3
  <2>3. QED
    BY <1>1, <1>2, <1>3, <2>1, <2>2 DEF GivesCounted, SameSems
<1>12. QED
  BY <1>4, <1>5, <1>6, <1>7, <1>8, <1>9, <1>10, <1>11 DEF KernelInv

\* The tasks in any order of their creation.
LEMMA OrderFacts ==
  ASSUME NEW order \in SetToSeqs(Task)
  PROVE  /\ order \in Seq(Task) /\ Distinct(order) /\ Members(order) = Task
         /\ order[Len(order)] \in Task
<1> DEFINE n == Cardinality(Task)
<1>1. n \in Nat /\ IsFiniteSet(Task) /\ Task # {}
  BY Constants, FS_CardinalityType
<1>2. order \in [1..n -> Task] /\ \A i, j \in 1..n : i # j => order[i] # order[j]
  BY DEF SetToSeqs
<1>3. order \in Seq(Task) /\ Len(order) = n
  <2> HIDE DEF n
  <2>1. QED
    BY <1>1, <1>2
<1>4. Cardinality(1..n) = n
  <2> HIDE DEF n
  <2>1. Cardinality(1..n) = IF 1 > n THEN 0 ELSE n - 1 + 1
    BY <1>1, FS_Interval
  <2>2. QED
    BY <1>1, <2>1
<1>5. order \in Injection(1..n, Task)
  BY <1>2 DEF Injection, IsInjective
<1>6. order \in Surjection(1..n, Task)
  BY <1>1, <1>4, <1>5, FS_Injection
<1>7. \A t \in Task : \E i \in 1..n : order[i] = t
  BY <1>6 DEF Surjection
<1>8. Distinct(order)
  BY <1>2, <1>3 DEF Distinct
<1>9. Members(order) = Task
  <2>1. \A t \in Members(order) : t \in Task
    BY <1>2, <1>3 DEF Members
  <2>2. \A t \in Task : t \in Members(order)
    BY <1>3, <1>7 DEF Members
  <2>3. QED
    BY <2>1, <2>2
<1>10. order[Len(order)] \in Task
  <2> HIDE DEF n
  <2>1. PICK t \in Task : TRUE
    BY <1>1
  <2>2. n \in 1..n
    BY <1>1, <1>7, <2>1
  <2>3. QED
    BY <1>2, <1>3, <2>2
<1>11. QED
  BY <1>3, <1>8, <1>9, <1>10

\* The kernel as the created tasks leave it.
LEMMA CreatedFacts ==
  ASSUME NEW order \in Seq(Task), Distinct(order), Members(order) = Task,
         order[Len(order)] \in Task
  PROVE  LET s == CreatedTasks(order)
         IN  /\ s \in KernelRecord /\ StateLists(s) /\ EventLists(s) /\ ReadyOf(s) = Task
             /\ Timed(s) = {} /\ s.pending = <<>> /\ PendingOf(s) = {}
             /\ \A m \in Sem : WaitingOf(s, m) = {} /\ s.txLock[m] = -1
             /\ ~s.suspended /\ s.missedTicks = 0 /\ ~s.missedYield
             /\ s.current \in Task
<1> DEFINE s == CreatedTasks(order)
<1>1. /\ s.current = order[Len(order)] /\ s.ready = order /\ s.delayed = <<>>
      /\ s.overflow = <<>> /\ s.blocked = {} /\ s.pending = <<>>
      /\ s.waiting = [m \in Sem |-> <<>>] /\ s.txLock = [m \in Sem |-> -1]
      /\ ~s.suspended /\ s.missedTicks = 0 /\ ~s.missedYield
  BY DEF CreatedTasks
<1>2. s \in KernelRecord
  <2>1. /\ 0 \in 0..(TickMod - 1) /\ 0 \in 0..(OverflowMod - 1) /\ <<>> \in Seq(Task)
        /\ [m \in Sem |-> IF m \in Mutex THEN 1 ELSE 0] \in [Sem -> 0..1]
    BY Constants
  <2>2. QED
    BY <2>1 DEF CreatedTasks, KernelRecord
<1> HIDE DEF s
<1>3. Members(<<>>) = {} /\ Distinct(<<>>) /\ \A value : Ordered(<<>>, value)
  BY DEF Members, Distinct, Ordered
<1>4. ReadyOf(s) = Task /\ DelayedOf(s) = {} /\ OverflowOf(s) = {} /\ PendingOf(s) = {}
  BY <1>1, <1>3 DEF ReadyOf, DelayedOf, OverflowOf, PendingOf
<1>5. \A m \in Sem : WaitingOf(s, m) = {} /\ s.txLock[m] = -1 /\ s.waiting[m] = <<>>
  BY <1>1, <1>3 DEF WaitingOf
<1>6. StateLists(s)
  BY <1>1, <1>3, <1>4 DEF StateLists, TaskLists
<1>7. EventLists(s)
  BY <1>1, <1>3, <1>4, <1>5 DEF EventLists
<1>8. QED
  BY <1>1, <1>2, <1>4, <1>5, <1>6, <1>7 DEF Timed, s

\* The initial states.
LEMMA InitInv ==
  ASSUME KernelInit
  PROVE  KernelInv
<1>1. PICK order \in SetToSeqs(Task) : k = CreatedTasks(order)
  BY DEF KernelInit
<1>2. /\ order \in Seq(Task) /\ Distinct(order) /\ Members(order) = Task
      /\ order[Len(order)] \in Task
  BY OrderFacts
<1>3. /\ k \in KernelRecord /\ StateLists(k) /\ EventLists(k) /\ ReadyOf(k) = Task
      /\ Timed(k) = {} /\ k.pending = <<>> /\ PendingOf(k) = {}
      /\ \A m \in Sem : WaitingOf(k, m) = {} /\ k.txLock[m] = -1
      /\ ~k.suspended /\ k.missedTicks = 0 /\ ~k.missedYield
      /\ k.current \in Task
  BY <1>1, <1>2, CreatedFacts
<1>4. /\ pc = [t \in Task |-> "app"] /\ call = [t \in Task |-> NoCall]
      /\ lastWake = [t \in Task |-> 0] /\ age = [t \in Task |-> 0]
  BY DEF KernelInit
<1>5. Types
  <2>1. NoCall \in Calls /\ 0 \in 0..(TickMod - 1)
    BY NoCallFacts, Constants
  <2> HIDE DEF NoCall
  <2>2. QED
    BY <1>3, <1>4, <2>1 DEF Types, Places
<1>6. ListShape
  BY <1>3 DEF ListShape, Apart
<1>7. SuspendedByCurrent /\ LockedByTaker /\ CurrentReady
  BY <1>3, <1>4 DEF SuspendedByCurrent, LockedByTaker, CurrentReady, Suspending, Locking
<1>8. CallShape
  BY <1>4, NoCallFacts DEF CallShape
<1>9. WaitersWait
  BY <1>3 DEF WaitersWait
<1>10. GivesCounted
  BY <1>3, <1>4 DEF GivesCounted
<1>11. QED
  BY <1>5, <1>6, <1>7, <1>8, <1>9, <1>10 DEF KernelInv

\* The step of a task.
LEMMA TaskStepInv ==
  ASSUME KernelInv, NEW t \in Task, TaskStep(t)
  PROVE  KernelInv'
<1>1. Timeout \subseteq 0..MaxDelay /\ MaxDelay \in 0..MaxDelay
  BY KernelAssumption DEF MaxDelay
<1>2. CASE Yield(t) \/ DelayYield(t) \/ TakeYield(t)
  BY <1>2, YieldInv
<1>3. CASE \E n \in Timeout : vTaskDelay(t, n)
  BY <1>3, DelayInv
<1>4. CASE brick_tick_task(t)
  BY <1>4, TickTaskInv
<1>5. CASE vTaskDelayUntil(t)
  BY <1>5, DelayUntilInv
<1>6. CASE DelayResume(t) \/ TakeResume(t)
  BY <1>6, ResumeInv
<1>7. CASE DelayReturn(t) \/ TakeFailed(t)
  BY <1>7, FailedInv
<1>8. CASE \E m \in Mutex : xSemaphoreTake(t, "mutex", m, MaxDelay)
  BY <1>1, <1>8, TakeInv DEF Sem
<1>9. CASE \E m \in Signal, n \in Timeout : xSemaphoreTake(t, "signal", m, n)
  BY <1>1, <1>9, TakeInv DEF Sem
<1>10. CASE ReceiveOrWait(t)
  BY <1>10, ReceiveInv
<1>11. CASE TakeSuspendAll(t)
  BY <1>11, SuspendAllInv
<1>12. CASE xTaskCheckForTimeOut(t)
  BY <1>12, CheckForTimeOutInv
<1>13. CASE prvIsQueueEmpty(t)
  BY <1>13, IsQueueEmptyInv
<1>14. CASE vTaskPlaceOnEventList(t)
  BY <1>14, PlaceInv
<1>15. CASE TakeUnlockQueue(t)
  BY <1>15, UnlockInv
<1>16. CASE \E m \in Mutex : xSemaphoreGive(t, m)
  BY <1>16, GiveStep DEF Sem
<1>17. QED
  BY <1>2, <1>3, <1>4, <1>5, <1>6, <1>7, <1>8, <1>9, <1>10, <1>11, <1>12, <1>13, <1>14,
     <1>15, <1>16 DEF TaskStep

\* Every step of the processor and of the interrupts.
LEMMA NextInv ==
  ASSUME KernelInv, [KernelNext]_kvars
  PROVE  KernelInv'
<1>1. CASE prvIdleTask
  BY <1>1, YieldInv
<1>2. CASE \E t \in Task : TaskStep(t)
  BY <1>2, TaskStepInv
<1>3. CASE xPortSysTickHandler
  BY <1>3, TickInv
<1>4. CASE \E m \in Signal : xSemaphoreGiveFromISR(m)
  BY <1>4, GiveStep DEF Sem
<1>5. CASE UNCHANGED kvars
  <2>1. k' = k /\ UNCHANGED <<pc, call, lastWake, age>>
    BY <1>5 DEF kvars
  <2>2. Types' /\ ListShape' /\ SuspendedByCurrent' /\ LockedByTaker'
    BY <2>1 DEF KernelInv, Types, ListShape, SuspendedByCurrent, LockedByTaker
  <2>3. CurrentReady' /\ WaitersWait' /\ CallShape'
    BY <2>1 DEF KernelInv, CurrentReady, LeavesCpu, WaitersWait, CallShape
  <2>4. GivesCounted'
    BY <2>1 DEF KernelInv, GivesCounted, WillTake
  <2>5. QED
    BY <2>2, <2>3, <2>4 DEF KernelInv
<1>6. QED
  BY <1>1, <1>2, <1>3, <1>4, <1>5 DEF KernelNext, Cpu, Interrupt

\* The kernel's data stays consistent through every interleaving of the tasks
\* with the interrupts.
THEOREM KernelInvariant == KernelSpec => []KernelInv
<1>1. KernelInit => KernelInv
  BY InitInv
<1>2. KernelInv /\ [KernelNext]_kvars => KernelInv'
  BY NextInv
<1>3. QED
  BY <1>1, <1>2, PTL DEF KernelSpec

\* What the invariant says of the lists is what the runs check.
LEMMA TypeFollows ==
  ASSUME KernelInv
  PROVE  KernelTypeOK
<1>1. /\ Types /\ ListShape /\ SuspendedByCurrent /\ LockedByTaker
      /\ k \in KernelRecord /\ StateLists(k) /\ EventLists(k) /\ Apart(k) /\ TaskLists(k)
  BY DEF KernelInv, Types, ListShape, StateLists
<1>2. /\ Lists[1] = ReadyOf(k) /\ Lists[2] = DelayedOf(k) /\ Lists[3] = OverflowOf(k)
      /\ Lists[4] = k.blocked
  BY DEF Lists, ReadyOf, DelayedOf, OverflowOf
<1>3. ASSUME NEW t \in Task
      PROVE  \E i \in 1..4 : \A j \in 1..4 : t \in Lists[j] <=> j = i
  <2>1. \A j \in 1..4 : j = 1 \/ j = 2 \/ j = 3 \/ j = 4
    OBVIOUS
  <2>2. t \in ReadyOf(k) \/ t \in DelayedOf(k) \/ t \in OverflowOf(k) \/ t \in k.blocked
    BY <1>1 DEF TaskLists
  <2>3. CASE t \in ReadyOf(k)
    <3>1. t \notin DelayedOf(k) /\ t \notin OverflowOf(k) /\ t \notin k.blocked
      BY <1>1, <2>3 DEF TaskLists
    <3>2. \A j \in 1..4 : t \in Lists[j] <=> j = 1
      BY <1>2, <2>1, <2>3, <3>1
    <3>3. QED
      BY <3>2
  <2>4. CASE t \in DelayedOf(k)
    <3>1. t \notin ReadyOf(k) /\ t \notin OverflowOf(k) /\ t \notin k.blocked
      BY <1>1, <2>4 DEF TaskLists
    <3>2. \A j \in 1..4 : t \in Lists[j] <=> j = 2
      BY <1>2, <2>1, <2>4, <3>1
    <3>3. QED
      BY <3>2
  <2>5. CASE t \in OverflowOf(k)
    <3>1. t \notin ReadyOf(k) /\ t \notin DelayedOf(k) /\ t \notin k.blocked
      BY <1>1, <2>5 DEF TaskLists
    <3>2. \A j \in 1..4 : t \in Lists[j] <=> j = 3
      BY <1>2, <2>1, <2>5, <3>1
    <3>3. QED
      BY <3>2
  <2>6. CASE t \in k.blocked
    <3>1. t \notin ReadyOf(k) /\ t \notin DelayedOf(k) /\ t \notin OverflowOf(k)
      BY <1>1, <2>6 DEF TaskLists
    <3>2. \A j \in 1..4 : t \in Lists[j] <=> j = 4
      BY <1>2, <2>1, <2>6, <3>1
    <3>3. QED
      BY <3>2
  <2>7. QED
    BY <2>2, <2>3, <2>4, <2>5, <2>6
<1>4. /\ k.ready \in Seq(Task) /\ k.delayed \in Seq(Task) /\ k.overflow \in Seq(Task)
      /\ k.messages \in [Sem -> 0..1] /\ k.txLock \in [Sem -> -1..1]
      /\ k.current \in Task \cup {Idle} /\ k.tick \in 0..(TickMod - 1)
  BY <1>1, FieldTypes
<1>5. IsInjective(k.ready)
  BY <1>1, <1>4 DEF TaskLists, Distinct, IsInjective
<1>6. ASSUME NEW q \in Seq(Task), Distinct(q), Ordered(q, k.wake)
      PROVE  Sorted(q)
  <2>1. Len(q) \in Nat
    BY <1>6
  <2>2. ASSUME NEW i \in 1..Len(q), NEW j \in 1..Len(q), i < j
        PROVE  q[i] # q[j] /\ k.wake[q[i]] <= k.wake[q[j]]
    BY <1>6, <2>1, <2>2 DEF Distinct, Ordered
  <2>3. QED
    BY <2>2 DEF Sorted
<1>7. Sorted(k.delayed) /\ Sorted(k.overflow)
  BY <1>1, <1>4, <1>6 DEF TaskLists
<1>8. ASSUME NEW m \in Sem
      PROVE  /\ Members(k.waiting[m]) \cap Lists[1] = {}
             /\ Members(k.waiting[m]) \cap Members(k.pending) = {}
             /\ \A n \in Sem \ {m} : Members(k.waiting[m]) \cap Members(k.waiting[n]) = {}
  BY <1>1, <1>2 DEF Apart, EventLists, WaitingOf, PendingOf
<1>9. ~k.suspended => /\ k.pending = <<>> /\ k.missedTicks = 0 /\ ~k.missedYield
                      /\ \A m \in Sem : k.txLock[m] = -1
  BY <1>1 DEF SuspendedByCurrent, LockedByTaker, Suspending, Locking
<1>10. \A m \in Sem : k.txLock[m] \in -1..1 /\ k.messages[m] \in 0..1
  BY <1>4
<1>11. QED
  BY <1>3, <1>4, <1>5, <1>7, <1>8, <1>9, <1>10 DEF KernelTypeOK

\* Whoever is on its way to ask again is who the property asks for.
LEMMA NoWakeUpLostFollows ==
  ASSUME KernelInv
  PROVE  NoWakeUpLost
<1>1. SUFFICES ASSUME NEW m \in Sem, k.messages[m] > 0, k.waiting[m] # <<>>
               PROVE  k.txLock[m] > 0 \/ \E t \in Task : WillRetry(t, m)
  BY DEF NoWakeUpLost
<1>2. WaitingOf(k, m) # {}
  <2>1. k.waiting[m] \in Seq(Task)
    BY FieldTypes DEF KernelInv, Types
  <2>2. QED
    BY <1>1, <2>1, MembersFacts DEF WaitingOf
<1>3. \A t \in Task : WillTake(t, m) => WillRetry(t, m)
  <2>1. SUFFICES ASSUME NEW t \in Task, WillTake(t, m) PROVE WillRetry(t, m)
    OBVIOUS
  <2>2. CallOK(call[t], pc[t])
    BY DEF KernelInv, CallShape
  <2>3. call[t].outcome # "timeout"
    BY <2>1, <2>2 DEF WillTake, CallOK
  <2>4. QED
    BY <2>1, <2>3 DEF WillTake, WillRetry, WaitingOf
<1>4. QED
  BY <1>1, <1>2, <1>3 DEF KernelInv, GivesCounted

\* Every task is in exactly one list for its state, the delayed lists are in
\* order, and nothing stays pending once the scheduler runs.
THEOREM KernelTypeCorrect == KernelSpec => []KernelTypeOK
  BY KernelInvariant, TypeFollows, PTL

\* No wake-up is lost, whichever interrupt falls between two steps of a take.
THEOREM NoWakeUpLostCorrect == KernelSpec => []NoWakeUpLost
  BY KernelInvariant, NoWakeUpLostFollows, PTL
-----------------------------------------------------------------------------
(* The time of the waits.  It can only be told as long as no wait goes on  *)
(* for a whole round of the clock.                                         *)

\* The clock m ticks after the clock n ticks after the beginning.
LEMMA LaterAdds ==
  ASSUME NEW o1, NEW o2, NEW o3, NEW t1 \in Nat, NEW t2 \in Nat, NEW t3 \in Nat,
         NEW n \in Nat, NEW m \in Nat, t1 < TickMod, n + m < TickMod,
         Later(o1, t1, n, o2, t2), Later(o2, t2, m, o3, t3)
  PROVE  Later(o1, t1, n + m, o3, t3)
<1>1. TickMod \in Nat /\ TickMod > 2
  BY Constants
<1>2. CASE t1 + n < TickMod
  <2>1. t2 = t1 + n /\ o2 = o1
    BY <1>2 DEF Later
  <2>2. CASE t2 + m < TickMod
    BY <1>1, <2>1, <2>2 DEF Later
  <2>3. CASE ~(t2 + m < TickMod)
    BY <1>1, <2>1, <2>3 DEF Later
  <2>4. QED
    BY <2>2, <2>3
<1>3. CASE ~(t1 + n < TickMod)
  <2>1. t2 = t1 + n - TickMod /\ o2 = (o1 + 1) % OverflowMod
    BY <1>3 DEF Later
  <2>2. t2 + m < TickMod /\ t1 + (n + m) >= TickMod
    BY <1>1, <1>3, <2>1
  <2>3. t3 = t2 + m /\ o3 = o2
    BY <2>2 DEF Later
  <2>4. t3 = t1 + (n + m) - TickMod
    BY <1>1, <2>1, <2>3
  <2>5. QED
    BY <1>1, <2>1, <2>2, <2>3, <2>4 DEF Later
<1>4. QED
  BY <1>2, <1>3

\* The difference of two readings of the clock is the time between them, and
\* the clock has not gone round.
LEMMA LaterDifference ==
  ASSUME NEW o1 \in Nat, NEW o2, NEW t1 \in Nat, NEW t2 \in Nat, NEW n \in Nat,
         t1 < TickMod, t2 < TickMod, n < TickMod, Later(o1, t1, n, o2, t2)
  PROVE  (t2 - t1) % TickMod = n /\ ~(o2 # o1 /\ t2 >= t1)
<1>1. TickMod \in Nat /\ TickMod > 2
  BY Constants
<1>2. t2 - t1 \in Int /\ -TickMod <= t2 - t1 /\ t2 - t1 < TickMod
  BY <1>1
<1>3. (t2 - t1) % TickMod = IF t2 - t1 < 0 THEN t2 - t1 + TickMod ELSE t2 - t1
  <2> DEFINE d == t2 - t1
  <2>1. d \in Int /\ -TickMod <= d /\ d < TickMod /\ TickMod > 1
    BY <1>1, <1>2
  <2> HIDE DEF d
  <2>2. d % TickMod = IF d < 0 THEN d + TickMod ELSE d
    BY <1>1, <2>1, ModDifference
  <2>3. QED
    BY <2>2 DEF d
<1>4. CASE t1 + n < TickMod
  <2>1. t2 = t1 + n /\ o2 = o1
    BY <1>4 DEF Later
  <2>2. t2 - t1 = n
    BY <1>1, <2>1
  <2>3. QED
    BY <1>3, <2>1, <2>2
<1>5. CASE ~(t1 + n < TickMod)
  <2>1. t2 = t1 + n - TickMod
    BY <1>5 DEF Later
  <2>2. t2 - t1 = n - TickMod /\ n - TickMod < 0 /\ n - TickMod + TickMod = n /\ ~(t2 >= t1)
    BY <1>1, <2>1
  <2>3. QED
    BY <1>3, <2>2
<1>6. QED
  BY <1>4, <1>5

\* Nothing that concerns the wait of x changes.
LEMMA TimeKept ==
  ASSUME NEW s, NEW r, NEW x, NEW p, NEW c, NEW a, TimeOK(s, x, p, c, a),
         SameClock(r, s), r.missedTicks = s.missedTicks,
         x \in Timed(r) => x \in Timed(s) /\ Due(r, x) = Due(s, x),
         x \in Timed(s) /\ x \notin Timed(r) => p \notin Delaying
  PROVE  TimeOK(r, x, p, c, a)
  BY DEF TimeOK, SameClock

\* The task goes on to another place.
LEMMA TimeMoves ==
  ASSUME NEW s, NEW x, NEW p, NEW q, NEW c, NEW a, TimeOK(s, x, p, c, a),
         q \in Delaying => p \in Delaying,
         q \notin {"app", "delay_until", "take_empty", "take_place"}
  PROVE  TimeOK(s, x, q, c, a)
  BY DEF TimeOK, Delaying

\* A call begins, or ends.
LEMMA TimeBegins ==
  ASSUME NEW s, NEW x, NEW q, NEW c, s.missedTicks = 0, x \notin Timed(s),
         c.timeOut = <<>>, c.outcome = "none", q \notin {"take_empty", "take_place"},
         q \in Delaying => c.asked <= 0
  PROVE  TimeOK(s, x, q, c, 0)
<1>1. MaxAge \in Nat
  BY Constants
<1>2. QED
  BY <1>1 DEF TimeOK, Delaying

\* n ticks pass.
LEMMA TimePasses ==
  ASSUME MaxAge < TickMod, NEW s \in KernelRecord, NEW r \in KernelRecord, NEW x,
         NEW p, NEW c \in Calls, CallOK(c, p), NEW a \in Nat, TimeOK(s, x, p, c, a),
         NEW n \in Nat, a + n <= MaxAge, r.missedTicks = 0,
         p \notin {"take_empty", "take_place"},
         Later(s.overflows, s.tick, n, r.overflows, r.tick),
         x \in Timed(r) => x \in Timed(s) /\ Due(r, x) = Due(s, x) - n,
         x \in Timed(s) /\ x \notin Timed(r) => p \notin Delaying \/ Due(s, x) <= n
  PROVE  TimeOK(r, x, p, c, IF c.asked \notin {0, MaxDelay} THEN a + n ELSE a)
<1> DEFINE b == IF c.asked \notin {0, MaxDelay} THEN a + n ELSE a
<1>1. /\ TickMod \in Nat /\ MaxAge \in Nat /\ MaxDelay \in Nat
      /\ s.tick \in Nat /\ s.tick < TickMod /\ r.tick \in Nat /\ r.tick < TickMod
  <2>1. TickMod \in Nat /\ TickMod > 2 /\ MaxAge \in Nat /\ MaxDelay = TickMod - 1
    BY Constants
  <2>2. s.tick \in 0..(TickMod - 1) /\ r.tick \in 0..(TickMod - 1)
    BY FieldTypes
  <2>3. QED
    BY <2>1, <2>2
<1>2. /\ c.asked \in Nat /\ c.ticks \in Nat
      /\ c.timeOut # <<>> => c.timeOut \in (0..(OverflowMod - 1)) \X (0..(TickMod - 1))
  BY <1>1 DEF Calls
<1>3. b \in Nat /\ a <= b /\ b <= MaxAge
      /\ (c.asked \notin {0, MaxDelay} => b = a + n)
      /\ (c.asked \in {0, MaxDelay} => b = a)
  BY <1>1
<1> HIDE DEF b
<1>4. b + r.missedTicks <= MaxAge
  BY <1>1, <1>3
<1>5. p \in {"app", "delay_until"} => b = 0
  <2>1. ASSUME p \in {"app", "delay_until"} PROVE b = 0
    <3>1. c = NoCall
      BY <2>1 DEF CallOK
    <3>2. c.asked = 0
      BY <3>1 DEF NoCall
    <3>3. QED
      BY <1>3, <2>1, <3>2 DEF TimeOK
  <2>2. QED
    BY <2>1
<1>6. ASSUME c.timeOut # <<>>, c.asked # MaxDelay
      PROVE  0 <= Since(c, b) /\ Later(c.timeOut[1], c.timeOut[2], Since(c, b), r.overflows, r.tick)
  <2> DEFINE d == Since(c, a)
             t1 == c.timeOut[2]
  <2>1. c.asked # 0 /\ c.ticks <= c.asked
    BY <1>6 DEF CallOK
  <2>2. /\ 0 <= d /\ Later(c.timeOut[1], t1, d, s.overflows, s.tick)
        /\ d = a - (c.asked - c.ticks)
    BY <1>6 DEF TimeOK, Since
  <2>3. Since(c, b) = d + n /\ d \in Nat /\ d + n < TickMod
    <3> DEFINE e == c.asked - c.ticks
    <3>1. e \in Nat /\ b = a + n
      BY <1>2, <1>3, <1>6, <2>1
    <3>2. d = a - e /\ Since(c, b) = b - e /\ 0 <= d
      BY <2>2 DEF Since
    <3> HIDE DEF d, e
    <3>3. QED
      BY <1>1, <3>1, <3>2
  <2>4. t1 \in Nat /\ t1 < TickMod
    BY <1>1, <1>2, <1>6
  <2> HIDE DEF d, t1
  <2>5. Later(c.timeOut[1], t1, d + n, r.overflows, r.tick)
    BY <1>1, <2>2, <2>3, <2>4, LaterAdds
  <2>6. QED
    BY <2>3, <2>5 DEF t1
<1>7. c.outcome = "timeout" => b >= c.asked
  BY <1>2, <1>3 DEF TimeOK
<1>8. ASSUME p \in Delaying, x \notin Timed(r) PROVE b >= c.asked
  <2>1. CASE x \notin Timed(s)
    BY <1>2, <1>3, <1>8, <2>1 DEF TimeOK
  <2>2. CASE x \in Timed(s)
    <3>1. c.asked \notin {0, MaxDelay} /\ Due(s, x) = c.asked - a /\ Due(s, x) <= n
      BY <1>8, <2>2 DEF TimeOK
    <3>2. QED
      BY <1>2, <1>3, <3>1
  <2>3. QED
    BY <2>1, <2>2
<1>9. ASSUME x \in Timed(r)
      PROVE  c.asked \notin {0, MaxDelay} /\ Due(r, x) = c.asked - b
  <2>1. c.asked \notin {0, MaxDelay} /\ Due(s, x) = c.asked - a /\ Due(r, x) = Due(s, x) - n
    BY <1>9 DEF TimeOK
  <2>2. QED
    BY <1>2, <1>3, <2>1
<1>10. QED
  BY <1>4, <1>5, <1>6, <1>7, <1>8, <1>9 DEF TimeOK, b

(* Neither the clock nor a wake-up time changes.                           *)
SameTimes(r, s) ==
  /\ SameClock(r, s) /\ r.missedTicks = s.missedTicks /\ Timed(r) = Timed(s)
  /\ \A x \in Timed(r) : Due(r, x) = Due(s, x)

\* The times do not depend on the other fields.
LEMMA SameTimesFacts ==
  ASSUME NEW s, NEW r, r.delayed = s.delayed, r.overflow = s.overflow, r.wake = s.wake,
         SameClock(r, s), r.missedTicks = s.missedTicks
  PROVE  SameTimes(r, s)
  BY DEF SameTimes, SameClock, Timed, Due, DelayedOf, OverflowOf

\* A step that only concerns the waits of the tasks in T.
LEMMA TimeOthers ==
  ASSUME TimeInv, NEW T \in SUBSET Task, SameClock(k', k), k'.missedTicks = k.missedTicks,
         \A x \in Task \ T :
           /\ pc'[x] = pc[x] /\ call'[x] = call[x] /\ age'[x] = age[x]
           /\ x \in Timed(k') => x \in Timed(k) /\ Due(k', x) = Due(k, x)
           /\ x \in Timed(k) /\ x \notin Timed(k') => pc[x] \notin Delaying,
         \A x \in T : TimeOK(k', x, pc'[x], call'[x], age'[x])
  PROVE  TimeInv'
<1>1. ASSUME NEW x \in Task \ T PROVE TimeOK(k', x, pc'[x], call'[x], age'[x])
  <2>1. TimeOK(k, x, pc[x], call[x], age[x])
    BY <1>1 DEF TimeInv
  <2>2. /\ pc'[x] = pc[x] /\ call'[x] = call[x] /\ age'[x] = age[x]
        /\ x \in Timed(k') => x \in Timed(k) /\ Due(k', x) = Due(k, x)
        /\ x \in Timed(k) /\ x \notin Timed(k') => pc[x] \notin Delaying
    BY <1>1
  <2>3. TimeOK(k', x, pc[x], call[x], age[x])
    BY <2>1, <2>2, TimeKept
  <2>4. QED
    BY <2>2, <2>3
<1>2. QED
  BY <1>1 DEF TimeInv

\* A step of t that changes no time.
LEMMA TimeLocal ==
  ASSUME Types, TimeInv, NEW t \in Task, SameTimes(k', k), NEW at, NEW c, NEW a,
         pc' = [pc EXCEPT ![t] = at], call' = [call EXCEPT ![t] = c],
         age' = [age EXCEPT ![t] = a], TimeOK(k, t, at, c, a)
  PROVE  TimeInv'
<1>1. /\ pc'[t] = at /\ call'[t] = c /\ age'[t] = a
      /\ \A x \in Task \ {t} : pc'[x] = pc[x] /\ call'[x] = call[x] /\ age'[x] = age[x]
  BY DEF Types
<1>2. /\ SameClock(k', k) /\ k'.missedTicks = k.missedTicks /\ Timed(k') = Timed(k)
      /\ \A x \in Timed(k') : Due(k', x) = Due(k, x)
  BY DEF SameTimes
<1>3. TimeOK(k', t, at, c, a)
  BY <1>2, TimeKept
<1>4. {t} \in SUBSET Task /\ \A x \in {t} : TimeOK(k', x, pc'[x], call'[x], age'[x])
  BY <1>1, <1>3
<1>5. QED
  BY <1>1, <1>2, <1>4, TimeOthers

\* t goes on, with the same locals.
LEMMA TimeGoesOn ==
  ASSUME Types, TimeInv, NEW t \in Task, SameTimes(k', k), NEW at,
         pc' = [pc EXCEPT ![t] = at], call' = call, age' = age,
         at \in Delaying => pc[t] \in Delaying,
         at \notin {"app", "delay_until", "take_empty", "take_place"}
  PROVE  TimeInv'
<1>1. TimeOK(k, t, pc[t], call[t], age[t])
  BY DEF TimeInv
<1>2. TimeOK(k, t, at, call[t], age[t])
  BY <1>1, TimeMoves
<1>3. call' = [call EXCEPT ![t] = call[t]] /\ age' = [age EXCEPT ![t] = age[t]]
  BY DEF Types
<1>4. QED
  BY <1>2, <1>3, TimeLocal

\* A switch to another task lets no time pass.
LEMMA SwitchTime ==
  ASSUME KernelInv, TimeInv,
         prvIdleTask \/ \E t \in Task : Yield(t) \/ DelayYield(t) \/ TakeYield(t)
  PROVE  TimeInv'
<1>1. /\ ~k.suspended /\ k' = vTaskSwitchContext(k) /\ call' = call /\ age' = age
      /\ \/ pc' = pc
         \/ \E t \in Task : DelayYield(t) \/ TakeYield(t)
  <2>1. ~k.suspended
    BY NotSuspended DEF prvIdleTask, Yield, DelayYield, TakeYield, Running, Suspending
  <2>2. QED
    BY <2>1 DEF prvIdleTask, Yield, DelayYield, TakeYield
<1>2. SameTimes(k', k)
  BY <1>1, SwitchStep DEF KernelInv, SameLists, SameTimes
<1>3. CASE pc' = pc
  <2>1. \A x \in Task \ {} : /\ pc'[x] = pc[x] /\ call'[x] = call[x] /\ age'[x] = age[x]
                             /\ x \in Timed(k') => x \in Timed(k) /\ Due(k', x) = Due(k, x)
                             /\ x \in Timed(k) /\ x \notin Timed(k') => pc[x] \notin Delaying
    BY <1>1, <1>2, <1>3 DEF SameTimes
  <2>2. {} \in SUBSET Task /\ \A x \in {} : TimeOK(k', x, pc'[x], call'[x], age'[x])
    OBVIOUS
  <2>3. SameClock(k', k) /\ k'.missedTicks = k.missedTicks
    BY <1>2 DEF SameTimes
  <2>4. QED
    BY <2>1, <2>2, <2>3, TimeOthers
<1>4. CASE \E t \in Task : DelayYield(t) \/ TakeYield(t)
  <2>1. PICK t \in Task : DelayYield(t) \/ TakeYield(t)
    BY <1>4
  <2>2. CASE DelayYield(t)
    <3>1. pc' = [pc EXCEPT ![t] = "delay_return"] /\ pc[t] = "delay_yield"
      BY <2>2 DEF DelayYield, Goto, Running
    <3>2. QED
      BY <1>1, <1>2, <3>1, TimeGoesOn DEF KernelInv, Delaying
  <2>3. CASE TakeYield(t)
    <3>1. pc' = [pc EXCEPT ![t] = "take"]
      BY <2>3 DEF TakeYield, Goto, Running
    <3>2. QED
      BY <1>1, <1>2, <3>1, TimeGoesOn DEF KernelInv, Delaying
  <2>4. QED
    BY <2>1, <2>2, <2>3
<1>5. QED
  BY <1>1, <1>3, <1>4

\* The return of a call.
LEMMA ReturnTime ==
  ASSUME KernelInv, TimeInv, NEW t \in Task, t \in ReadyOf(k), ~k.suspended, Return(t),
         SameTimes(k', k)
  PROVE  TimeInv'
<1>1. t \notin Timed(k) /\ k.missedTicks = 0
  BY ReadyApart DEF KernelInv, SuspendedByCurrent
<1>2. NoCall.timeOut = <<>> /\ NoCall.outcome = "none" /\ "app" \notin {"take_empty", "take_place"}
      /\ "app" \notin Delaying
  BY DEF NoCall, Delaying
<1>3. TimeOK(k, t, "app", NoCall, 0)
  BY <1>1, <1>2, TimeBegins
<1>4. QED
  BY <1>3, TimeLocal DEF KernelInv, Return, Goto

\* The returns of a delay and of a take that failed.
LEMMA FailedTime ==
  ASSUME KernelInv, TimeInv, NEW t \in Task, DelayReturn(t) \/ TakeFailed(t)
  PROVE  TimeInv'
<1>1. t \in ReadyOf(k)
  BY RunningReady DEF DelayReturn, TakeFailed
<1>2. ~k.suspended
  BY NotSuspended DEF DelayReturn, TakeFailed, Suspending
<1>3. Return(t) /\ k' = k
  BY DEF DelayReturn, TakeFailed
<1>4. SameTimes(k', k)
  BY <1>3 DEF SameTimes, SameClock
<1>5. QED
  BY <1>1, <1>2, <1>3, <1>4, ReturnTime

\* The end of the loop of brick_tick_task.
LEMMA TickTaskTime ==
  ASSUME KernelInv, TimeInv, NEW t \in Task, brick_tick_task(t)
  PROVE  TimeInv'
<1>1. /\ pc[t] = "app" /\ pc' = [pc EXCEPT ![t] = "delay_until"] /\ k' = k /\ call' = call
      /\ age' = age
  BY DEF brick_tick_task, Running, Goto
<1>2. TimeOK(k, t, "app", call[t], age[t])
  BY <1>1 DEF TimeInv
<1>3. TimeOK(k, t, "delay_until", call[t], age[t])
  BY <1>2 DEF TimeOK, Delaying
<1>4. SameTimes(k', k) /\ Types
  BY <1>1 DEF SameTimes, SameClock, KernelInv
<1>5. call' = [call EXCEPT ![t] = call[t]] /\ age' = [age EXCEPT ![t] = age[t]]
  BY <1>1, <1>4 DEF Types
<1>6. QED
  BY <1>1, <1>3, <1>4, <1>5, TimeLocal

\* The call of xSemaphoreTake: the wait has not begun.
LEMMA TakeTime ==
  ASSUME KernelInv, TimeInv, NEW t \in Task, NEW kind, NEW m, NEW n,
         xSemaphoreTake(t, kind, m, n)
  PROVE  TimeInv'
<1> DEFINE c == [NoCall EXCEPT !.sem = m, !.ticks = n, !.asked = n]
<1>1. t \in ReadyOf(k) /\ pc[t] = "app"
  BY RunningReady DEF xSemaphoreTake
<1>2. ~k.suspended
  BY NotSuspended DEF xSemaphoreTake, Suspending
<1>3. t \notin Timed(k) /\ k.missedTicks = 0
  BY <1>1, <1>2, ReadyApart DEF KernelInv, SuspendedByCurrent
<1>4. c.timeOut = <<>> /\ c.outcome = "none"
  BY DEF NoCall
<1>5. /\ pc' = [pc EXCEPT ![t] = "take"] /\ k' = k /\ call' = [call EXCEPT ![t] = c]
      /\ age' = age
  BY DEF xSemaphoreTake, Running, Goto
<1> HIDE DEF c
<1>6. "take" \notin {"take_empty", "take_place"} /\ "take" \notin Delaying
  BY DEF Delaying
<1>7. TimeOK(k, t, "take", c, 0)
  BY <1>3, <1>4, <1>6, TimeBegins
<1>8. SameTimes(k', k) /\ Types
  BY <1>5 DEF SameTimes, SameClock, KernelInv
<1>9. age[t] = 0
  BY <1>1 DEF TimeInv, TimeOK
<1>10. age' = [age EXCEPT ![t] = 0]
  BY <1>5, <1>8, <1>9 DEF Types
<1>11. QED
  BY <1>5, <1>7, <1>8, <1>10, TimeLocal

\* The wait begins when the semaphore is first found taken.
LEMMA ReceiveTime ==
  ASSUME KernelInv, TimeInv, NEW t \in Task, ReceiveOrWait(t)
  PROVE  TimeInv'
<1> DEFINE c == call[t]
<1>1. t \in ReadyOf(k) /\ k.current = t /\ pc[t] = "take"
  BY RunningReady DEF ReceiveOrWait
<1>2. ~k.suspended
  BY NotSuspended DEF ReceiveOrWait, Suspending
<1>3. /\ Types /\ k \in KernelRecord /\ c \in Calls /\ CallOK(c, "take")
      /\ TimeOK(k, t, "take", c, age[t]) /\ k.missedTicks = 0 /\ t \notin Timed(k)
      /\ k.messages \in [Sem -> 0..1]
  BY <1>1, <1>2, ReadyApart, FieldTypes
     DEF KernelInv, Types, CallShape, TimeInv, SuspendedByCurrent
<1>4. CASE /\ k' = [k EXCEPT !.messages[c.sem] = @ - 1]
           /\ Return(t)
  <2> DEFINE M == [k.messages EXCEPT ![c.sem] = k.messages[c.sem] - 1]
  <2>1. k' = [k EXCEPT !.messages = M]
    BY <1>4
  <2> HIDE DEF M
  <2>2. /\ k'.delayed = k.delayed /\ k'.overflow = k.overflow /\ k'.wake = k.wake
        /\ SameClock(k', k) /\ k'.missedTicks = k.missedTicks
    BY <1>3, <2>1 DEF KernelRecord, SameClock
  <2>3. SameTimes(k', k)
    BY <2>2, SameTimesFacts
  <2>4. QED
    BY <1>1, <1>2, <1>4, <2>3, ReturnTime
<1>5. CASE k' = k /\ Return(t)
  <2>1. SameTimes(k', k)
    BY <1>5 DEF SameTimes, SameClock
  <2>2. QED
    BY <1>1, <1>2, <1>5, <2>1, ReturnTime
<1>6. CASE /\ k' = k
           /\ call' = IF c.timeOut = <<>>
                      THEN [call EXCEPT ![t].timeOut = <<k.overflows, k.tick>>] ELSE call
           /\ age' = IF c.timeOut = <<>> THEN [age EXCEPT ![t] = 0] ELSE age
           /\ Goto(t, "take_suspend")
  <2>1. SameTimes(k', k) /\ pc' = [pc EXCEPT ![t] = "take_suspend"]
    BY <1>6 DEF SameTimes, SameClock, Goto
  <2>2. CASE c.timeOut # <<>>
    <3>1. call' = call /\ age' = age
      BY <1>6, <2>2
    <3>2. QED
      BY <1>3, <2>1, <3>1, TimeGoesOn DEF Delaying
  <2>3. CASE c.timeOut = <<>>
    <3> DEFINE d == [c EXCEPT !.timeOut = <<k.overflows, k.tick>>]
    <3>1. call' = [call EXCEPT ![t] = d] /\ age' = [age EXCEPT ![t] = 0]
      BY <1>3, <1>6, <2>3 DEF Types
    <3>2. /\ d.asked = c.asked /\ d.ticks = c.ticks /\ d.outcome = c.outcome
          /\ d.timeOut = <<k.overflows, k.tick>>
      <4> HIDE DEF c
      <4>1. QED
        BY <1>3 DEF Calls
    <3> HIDE DEF d
    <3>3. c.ticks = c.asked /\ c.asked \in Nat /\ c.outcome # "timeout"
      BY <1>3, <2>3, Constants DEF CallOK, Delaying, Calls
    <3>4. Since(d, 0) = 0
      BY <3>2, <3>3 DEF Since
    <3>5. Later(k.overflows, k.tick, 0, k.overflows, k.tick)
      <4>1. k.tick \in 0..(TickMod - 1)
        BY <1>3, FieldTypes
      <4>2. QED
        BY <4>1, Constants DEF Later
    <3>6. TimeOK(k, t, "take_suspend", d, 0)
      BY <1>3, <3>2, <3>3, <3>4, <3>5, Constants DEF TimeOK, Delaying
    <3>7. QED
      BY <1>3, <2>1, <3>1, <3>6, TimeLocal
  <2>4. QED
    BY <2>2, <2>3
<1>7. QED
  BY <1>4, <1>5, <1>6 DEF ReceiveOrWait

\* vTaskSuspendAll of a take.
LEMMA SuspendAllTime ==
  ASSUME KernelInv, TimeInv, NEW t \in Task, TakeSuspendAll(t)
  PROVE  TimeInv'
<1>1. k \in KernelRecord /\ Types
  BY DEF KernelInv, Types
<1>2. /\ k' = [k EXCEPT !.suspended = TRUE] /\ pc' = [pc EXCEPT ![t] = "take_lock"]
      /\ call' = call /\ age' = age
  BY DEF TakeSuspendAll, Goto
<1>3. /\ k'.delayed = k.delayed /\ k'.overflow = k.overflow /\ k'.wake = k.wake
      /\ SameClock(k', k) /\ k'.missedTicks = k.missedTicks
  BY <1>1, <1>2 DEF KernelRecord, SameClock
<1>4. SameTimes(k', k)
  BY <1>3, SameTimesFacts
<1>5. QED
  BY <1>1, <1>2, <1>4, TimeGoesOn DEF Delaying

\* The first check of a wait finds out how long it has been.
LEMMA CheckForTimeOutTime ==
  ASSUME MaxAge < TickMod, KernelInv, TimeInv, NEW t \in Task, xTaskCheckForTimeOut(t)
  PROVE  TimeInv'
<1> DEFINE c == call[t]
           a == age[t]
           elapsed == (k.tick - c.timeOut[2]) % TickMod
<1>1. t \in ReadyOf(k) /\ k.current = t /\ pc[t] = "take_lock"
  BY RunningReady DEF xTaskCheckForTimeOut
<1>2. /\ Types /\ k \in KernelRecord /\ c \in Calls /\ CallOK(c, "take_lock")
      /\ TimeOK(k, t, "take_lock", c, a) /\ k.missedTicks \in Nat /\ t \notin Timed(k)
      /\ a \in Nat /\ k.tick \in 0..(TickMod - 1) /\ k.overflows \in Nat
  <2>1. k \in KernelRecord /\ Types /\ ListShape
    BY DEF KernelInv, Types
  <2>2. k.tick \in 0..(TickMod - 1) /\ k.overflows \in 0..(OverflowMod - 1)
    BY <2>1, FieldTypes
  <2>3. QED
    BY <1>1, <2>1, <2>2, ReadyApart, Constants DEF KernelInv, Types, CallShape, TimeInv
<1>3. SameTimes(k', k)
  <2> DEFINE L == [k.txLock EXCEPT ![c.sem] = IF k.txLock[c.sem] = -1 THEN 0 ELSE k.txLock[c.sem]]
  <2>1. k' = [k EXCEPT !.txLock = L]
    BY DEF xTaskCheckForTimeOut, prvLockQueue
  <2> HIDE DEF L
  <2>2. /\ k'.delayed = k.delayed /\ k'.overflow = k.overflow /\ k'.wake = k.wake
        /\ SameClock(k', k) /\ k'.missedTicks = k.missedTicks
    BY <1>2, <2>1 DEF KernelRecord, SameClock
  <2>3. QED
    BY <2>2, SameTimesFacts
<1>4. age' = [age EXCEPT ![t] = a] /\ pc \in [Task -> Places]
  BY <1>2 DEF xTaskCheckForTimeOut, Types
<1>5. /\ c.timeOut # <<>> /\ c.timeOut \in (0..(OverflowMod - 1)) \X (0..(TickMod - 1))
      /\ c.asked \in Nat /\ c.ticks \in Nat /\ c.ticks <= c.asked /\ c.asked <= MaxDelay
      /\ c.asked = MaxDelay => c.ticks = MaxDelay
  BY <1>2, Constants DEF CallOK, Calls, Delaying, Suspending
<1>6. /\ TickMod \in Nat /\ MaxAge \in Nat /\ c.timeOut[1] \in Nat /\ c.timeOut[2] \in Nat
      /\ c.timeOut[2] < TickMod /\ k.tick \in Nat /\ k.tick < TickMod
  <2> DEFINE v == c.timeOut
             tick == k.tick
  <2>1. v \in (0..(OverflowMod - 1)) \X (0..(TickMod - 1)) /\ tick \in 0..(TickMod - 1)
    BY <1>2, <1>5
  <2> HIDE DEF v, tick
  <2>2. v[1] \in 0..(OverflowMod - 1) /\ v[2] \in 0..(TickMod - 1)
    BY <2>1
  <2>3. TickMod \in Nat /\ MaxAge \in Nat /\ OverflowMod \in Nat
    BY Constants
  <2>4. v[1] \in Nat /\ v[2] \in Nat /\ v[2] < TickMod /\ tick \in Nat /\ tick < TickMod
    BY <2>1, <2>2, <2>3
  <2>5. QED
    BY <2>3, <2>4 DEF v, tick
<1>7. ASSUME c.ticks # MaxDelay
      PROVE  elapsed = Since(c, a) /\ ~Wrapped(c) /\ elapsed \in Nat
  <2> DEFINE n == Since(c, a)
             e == c.asked - c.ticks
  <2>1. c.asked # MaxDelay
    BY <1>5, <1>7
  <2>2. /\ 0 <= n /\ Later(c.timeOut[1], c.timeOut[2], n, k.overflows, k.tick)
        /\ a + k.missedTicks <= MaxAge
    BY <1>2, <1>5, <2>1 DEF TimeOK
  <2>3. e \in Nat /\ n = a - e
    BY <1>5 DEF Since
  <2> HIDE DEF n, e
  <2>4. n \in Nat /\ n < TickMod
    BY <1>2, <1>6, <2>2, <2>3
  <2>5. /\ (k.tick - c.timeOut[2]) % TickMod = n
        /\ ~(k.overflows # c.timeOut[1] /\ k.tick >= c.timeOut[2])
    BY <1>6, <2>2, <2>4, LaterDifference
  <2>6. QED
    BY <2>4, <2>5 DEF Wrapped, n
<1>8. TimeOK(k, t, "take_lock", c, a)
  BY <1>2
<1> HIDE DEF elapsed, a
<1>9. CASE /\ c.ticks # MaxDelay /\ (Wrapped(c) \/ elapsed >= c.ticks)
           /\ call' = [call EXCEPT ![t].outcome = "timeout"]
           /\ Goto(t, "take_unlock")
  <2> DEFINE d == [c EXCEPT !.outcome = "timeout"]
  <2>1. call' = [call EXCEPT ![t] = d] /\ pc' = [pc EXCEPT ![t] = "take_unlock"]
    BY <1>2, <1>9 DEF Types, Goto
  <2> HIDE DEF c
  <2>2. d.asked = c.asked /\ d.ticks = c.ticks /\ d.timeOut = c.timeOut /\ d.outcome = "timeout"
    BY <1>2 DEF Calls
  <2> HIDE DEF d
  <2>3. a >= c.asked
    <3>1. Since(c, a) >= c.ticks
      BY <1>5, <1>7, <1>9
    <3>2. QED
      BY <1>2, <1>5, <3>1 DEF Since
  <2>4. Since(d, a) = Since(c, a)
    BY <2>2 DEF Since
  <2>5. TimeOK(k, t, "take_unlock", d, a)
    BY <1>2, <1>8, <2>2, <2>3, <2>4 DEF TimeOK, Delaying
  <2>6. QED
    BY <1>2, <1>3, <1>4, <2>1, <2>5, TimeLocal
<1>10. CASE /\ c.ticks # MaxDelay /\ ~Wrapped(c) /\ elapsed < c.ticks
            /\ call' = [call EXCEPT ![t].ticks = @ - elapsed,
                                    ![t].timeOut = <<k.overflows, k.tick>>]
            /\ Goto(t, "take_empty")
  <2> DEFINE n == c.ticks - elapsed
             d == [c EXCEPT !.ticks = n, !.timeOut = <<k.overflows, k.tick>>]
  <2>1. call' = [call EXCEPT ![t] = d] /\ pc' = [pc EXCEPT ![t] = "take_empty"]
    BY <1>2, <1>10 DEF Types, Goto
  <2> HIDE DEF c, n
  <2>2. /\ d.asked = c.asked /\ d.ticks = n /\ d.outcome = c.outcome
        /\ d.timeOut = <<k.overflows, k.tick>>
    BY <1>2 DEF Calls
  <2> HIDE DEF d
  <2>3. Since(d, a) = 0
    <3>1. elapsed = a - (c.asked - c.ticks)
      BY <1>7, <1>10 DEF Since
    <3>2. Since(d, a) = a - (c.asked - (c.ticks - elapsed))
      BY <2>2 DEF Since, n
    <3>3. QED
      BY <1>2, <1>5, <3>1, <3>2
  <2>4. Later(k.overflows, k.tick, 0, k.overflows, k.tick)
    BY <1>6 DEF Later
  <2>5. c.outcome # "timeout"
    BY <1>2 DEF CallOK
  <2>6. TimeOK(k, t, "take_empty", d, a)
    BY <1>2, <1>8, <2>2, <2>3, <2>4, <2>5 DEF TimeOK, Delaying
  <2>7. QED
    BY <1>2, <1>3, <1>4, <2>1, <2>6, TimeLocal
<1>11. CASE c.ticks = MaxDelay /\ Goto(t, "take_empty") /\ call' = call
  <2>1. call' = [call EXCEPT ![t] = c] /\ pc' = [pc EXCEPT ![t] = "take_empty"]
    BY <1>2, <1>11 DEF Types, Goto
  <2> HIDE DEF c
  <2>2. c.asked = MaxDelay
    BY <1>5, <1>6, <1>11, Constants
  <2>3. TimeOK(k, t, "take_empty", c, a)
    BY <1>8, <2>2 DEF TimeOK, Delaying
  <2>4. QED
    BY <1>2, <1>3, <1>4, <2>1, <2>3, TimeLocal
<1>12. QED
  BY <1>9, <1>10, <1>11 DEF xTaskCheckForTimeOut, elapsed

\* prvIsQueueEmpty lets no time pass.
LEMMA IsQueueEmptyTime ==
  ASSUME KernelInv, TimeInv, NEW t \in Task, prvIsQueueEmpty(t)
  PROVE  TimeInv'
<1> DEFINE c == call[t]
<1>1. /\ Types /\ k' = k /\ age' = age /\ pc[t] = "take_empty" /\ c \in Calls
      /\ TimeOK(k, t, "take_empty", c, age[t])
  BY DEF KernelInv, Types, prvIsQueueEmpty, Running, TimeInv
<1>2. SameTimes(k', k) /\ age' = [age EXCEPT ![t] = age[t]]
  BY <1>1 DEF SameTimes, SameClock, Types
<1>3. PICK outcome \in {"block", "retry"}, at \in {"take_place", "take_unlock"} :
        /\ pc' = [pc EXCEPT ![t] = at]
        /\ call' = [call EXCEPT ![t] = [c EXCEPT !.outcome = outcome]]
  BY <1>1 DEF prvIsQueueEmpty, Goto, Types
<1> DEFINE d == [c EXCEPT !.outcome = outcome]
<1> HIDE DEF c
<1>4. d.asked = c.asked /\ d.ticks = c.ticks /\ d.timeOut = c.timeOut /\ d.outcome = outcome
  BY <1>1 DEF Calls
<1>5. call' = [call EXCEPT ![t] = d]
  BY <1>3
<1> HIDE DEF d
<1>6. Since(d, age[t]) = Since(c, age[t])
  BY <1>4 DEF Since
<1>7. TimeOK(k, t, at, d, age[t])
  BY <1>1, <1>4, <1>6 DEF TimeOK, Delaying
<1>8. QED
  BY <1>1, <1>2, <1>3, <1>5, <1>7, TimeLocal

\* prvUnlockQueue lets no time pass.
LEMMA UnlockTime ==
  ASSUME KernelInv, TimeInv, NEW t \in Task, TakeUnlockQueue(t)
  PROVE  TimeInv'
<1>1. /\ Types /\ k \in KernelRecord /\ k' = prvUnlockQueue(k, call[t].sem)
      /\ pc' = [pc EXCEPT ![t] = "take_resume"] /\ call' = call /\ age' = age
  BY DEF KernelInv, Types, TakeUnlockQueue, Goto
<1>2. /\ k'.delayed = k.delayed /\ k'.overflow = k.overflow /\ k'.wake = k.wake
      /\ SameClock(k', k) /\ k'.missedTicks = k.missedTicks
  <2> DEFINE n == Min({k.txLock[call[t].sem], Len(k.waiting[call[t].sem])})
             W == [k.waiting EXCEPT ![call[t].sem] =
                     SubSeq(k.waiting[call[t].sem], n + 1, Len(k.waiting[call[t].sem]))]
             P == k.pending \o SubSeq(k.waiting[call[t].sem], 1, n)
             L == [k.txLock EXCEPT ![call[t].sem] = -1]
             y == k.missedYield \/ n > 0
  <2>1. k' = [k EXCEPT !.txLock = L, !.waiting = W, !.pending = P, !.missedYield = y]
    BY <1>1 DEF prvUnlockQueue
  <2> HIDE DEF n, W, P, L, y
  <2>2. QED
    BY <1>1, <2>1 DEF KernelRecord, SameClock
<1>3. SameTimes(k', k)
  BY <1>2, SameTimesFacts
<1>4. QED
  BY <1>1, <1>3, TimeGoesOn DEF Delaying

\* A task that begins to wait for a time; the waits of the others stay as they are.
LEMMA DelayTimes ==
  ASSUME NEW s \in KernelRecord, StateLists(s), NEW t \in Task, t \notin Timed(s),
         NEW n \in 1..(TickMod - 1), NEW r,
         r = AddToDelayedList(s, t, (s.tick + n) % TickMod)
  PROVE  /\ SameClock(r, s) /\ r.missedTicks = s.missedTicks
         /\ Timed(r) = Timed(s) \cup {t} /\ Due(r, t) = n
         /\ \A x \in Timed(s) : Due(r, x) = Due(s, x)
<1> DEFINE wake == (s.tick + n) % TickMod
<1>1. s.tick \in 0..(TickMod - 1) /\ s.wake \in [Task -> 0..(TickMod - 1)]
      /\ DelayedOf(s) \subseteq Task /\ OverflowOf(s) \subseteq Task
  BY FieldTypes
<1>2. /\ wake \in 0..(TickMod - 1) /\ wake # s.tick
      /\ wake = IF s.tick + n < TickMod THEN s.tick + n ELSE s.tick + n - TickMod
  BY <1>1, WakeTime
<1> HIDE DEF wake
<1>3. /\ DelayedOf(r) = (DelayedOf(s) \ {t}) \cup (IF wake < s.tick THEN {} ELSE {t})
      /\ OverflowOf(r) = (OverflowOf(s) \ {t}) \cup (IF wake < s.tick THEN {t} ELSE {})
      /\ r.wake = [s.wake EXCEPT ![t] = wake]
      /\ SameClock(r, s) /\ SameFlags(r, s)
  <2>1. r = AddToDelayedList(s, t, wake)
    BY DEF wake
  <2>2. QED
    BY <1>2, <2>1, DelayFacts
<1>4. r.tick = s.tick /\ r.missedTicks = s.missedTicks
  BY <1>3 DEF SameClock, SameFlags
<1>5. t \notin DelayedOf(s) /\ t \notin OverflowOf(s)
  BY DEF Timed
<1>6. Timed(r) = Timed(s) \cup {t}
  BY <1>3 DEF Timed
<1>7. Due(r, t) = n
  <2>1. r.wake[t] = wake /\ TickMod \in Nat
    BY <1>1, <1>3, Constants
  <2>2. CASE wake < s.tick
    <3>1. t \in OverflowOf(r) /\ wake = s.tick + n - TickMod
      BY <1>1, <1>2, <1>3, <2>1, <2>2
    <3>2. QED
      BY <1>1, <1>4, <2>1, <3>1 DEF Due
  <2>3. CASE ~(wake < s.tick)
    <3>1. t \notin OverflowOf(r) /\ wake = s.tick + n
      BY <1>1, <1>2, <1>3, <1>5, <2>1, <2>3
    <3>2. QED
      BY <1>1, <1>4, <2>1, <3>1 DEF Due
  <2>4. QED
    BY <2>2, <2>3
<1>8. ASSUME NEW x \in Timed(s) PROVE Due(r, x) = Due(s, x)
  <2>1. x # t /\ x \in Task
    BY <1>1 DEF Timed
  <2>2. r.wake[x] = s.wake[x] /\ (x \in OverflowOf(r) <=> x \in OverflowOf(s))
    BY <1>1, <1>3, <2>1
  <2>3. QED
    BY <1>4, <2>2 DEF Due
<1>9. QED
  BY <1>3, <1>4, <1>6, <1>7, <1>8

\* A task that is awake, with the scheduler suspended from here on.
LEMMA SuspendTimes ==
  ASSUME NEW s \in KernelRecord, StateLists(s)
  PROVE  LET r == [s EXCEPT !.suspended = TRUE]
         IN  r \in KernelRecord /\ StateLists(r) /\ SameTimes(r, s)
<1> DEFINE r == [s EXCEPT !.suspended = TRUE]
<1>1. /\ r \in KernelRecord /\ SameStates(r, s) /\ SameClock(r, s)
      /\ r.missedTicks = s.missedTicks
  BY DEF KernelRecord, SameStates, SameClock
<1> HIDE DEF r
<1>2. /\ StateLists(r) /\ Timed(r) = Timed(s) /\ \A t \in Timed(r) : Due(r, t) = Due(s, t)
  BY <1>1, SameStatesFacts
<1>3. QED
  BY <1>1, <1>2 DEF SameTimes, r

\* A delay begins: the wait ends when the ticks it asks for have passed.
LEMMA DelayBegins ==
  ASSUME KernelInv, TimeInv, NEW t \in Task, pc[t] \in {"app", "delay_until"},
         t \in ReadyOf(k), ~k.suspended, NEW n \in 1..(TickMod - 1), n # MaxDelay,
         k' = AddToDelayedList([k EXCEPT !.suspended = TRUE], t, (k.tick + n) % TickMod),
         call' = [call EXCEPT ![t] = [NoCall EXCEPT !.asked = n]],
         pc' = [pc EXCEPT ![t] = "delay_resume"], age' = age
  PROVE  TimeInv'
<1> DEFINE s == [k EXCEPT !.suspended = TRUE]
           c == [NoCall EXCEPT !.asked = n]
<1>1. /\ Types /\ k \in KernelRecord /\ StateLists(k) /\ k.missedTicks = 0 /\ t \notin Timed(k)
  BY ReadyApart DEF KernelInv, Types, ListShape, SuspendedByCurrent
<1>2. s \in KernelRecord /\ StateLists(s) /\ SameTimes(s, k)
  BY <1>1, SuspendTimes
<1>3. c.asked = n /\ c.timeOut = <<>> /\ c.outcome = "none"
  BY DEF NoCall
<1>4. k' = AddToDelayedList(s, t, (k.tick + n) % TickMod) /\ call' = [call EXCEPT ![t] = c]
  OBVIOUS
<1> HIDE DEF s, c
<1>5. t \notin Timed(s) /\ s.tick = k.tick /\ Timed(s) = Timed(k)
      /\ SameClock(s, k) /\ s.missedTicks = k.missedTicks
      /\ \A x \in Timed(s) : Due(s, x) = Due(k, x)
  BY <1>1, <1>2 DEF SameTimes, SameClock
<1>6. /\ SameClock(k', s) /\ k'.missedTicks = s.missedTicks
      /\ Timed(k') = Timed(s) \cup {t} /\ Due(k', t) = n
      /\ \A x \in Timed(s) : Due(k', x) = Due(s, x)
  <2>1. k' = AddToDelayedList(s, t, (s.tick + n) % TickMod)
    BY <1>4, <1>5
  <2>2. s \in KernelRecord /\ StateLists(s) /\ t \notin Timed(s)
    BY <1>2, <1>5
  <2>3. QED
    BY ONLY <2>1, <2>2, t \in Task, n \in 1..(TickMod - 1), DelayTimes
<1>7. SameClock(k', k) /\ k'.missedTicks = 0 /\ k'.missedTicks = k.missedTicks
  BY <1>1, <1>5, <1>6 DEF SameClock
<1>8. /\ pc'[t] = "delay_resume" /\ call'[t] = c
      /\ \A x \in Task \ {t} : pc'[x] = pc[x] /\ call'[x] = call[x] /\ age'[x] = age[x]
  BY <1>1, <1>4 DEF Types
<1>9. age'[t] = 0
  BY DEF TimeInv, TimeOK
<1>10. TimeOK(k', t, "delay_resume", c, 0)
  <2>1. n \in Nat /\ n # 0 /\ n - 0 = n /\ 0 + 0 <= MaxAge
    BY Constants
  <2>2. QED
    BY <1>3, <1>6, <1>7, <2>1 DEF TimeOK
<1>11. {t} \in SUBSET Task /\ \A x \in {t} : TimeOK(k', x, pc'[x], call'[x], age'[x])
  BY <1>8, <1>9, <1>10
<1>12. \A x \in Task \ {t} :
         /\ x \in Timed(k') => x \in Timed(k) /\ Due(k', x) = Due(k, x)
         /\ x \in Timed(k) => x \in Timed(k')
  BY <1>5, <1>6
<1>13. QED
  BY <1>7, <1>8, <1>11, <1>12, TimeOthers

\* vTaskDelay.
LEMMA DelayTime ==
  ASSUME KernelInv, TimeInv, NEW t \in Task, NEW n, vTaskDelay(t, n)
  PROVE  TimeInv'
<1>1. t \in ReadyOf(k) /\ pc[t] = "app"
  BY RunningReady DEF vTaskDelay
<1>2. ~k.suspended
  BY NotSuspended DEF vTaskDelay, Suspending
<1>3. n \in 1..(TickMod - 1) /\ n # MaxDelay
  <2>1. n \in 1..(MaxDelay - 1)
    BY DEF vTaskDelay
  <2>2. QED
    BY <2>1, Constants
<1>4. QED
  BY <1>1, <1>2, <1>3, DelayBegins DEF vTaskDelay, Goto

\* vTaskDelayUntil: one tick, or none.
LEMMA DelayUntilTime ==
  ASSUME KernelInv, TimeInv, NEW t \in Task, vTaskDelayUntil(t)
  PROVE  TimeInv'
<1> DEFINE prev == lastWake[t]
           wake == (prev + 1) % TickMod
           should == IF k.tick < prev THEN wake < prev /\ wake > k.tick
                     ELSE wake < prev \/ wake > k.tick
           asked == (wake - k.tick) % TickMod
           s == [k EXCEPT !.suspended = TRUE]
<1>1. t \in ReadyOf(k) /\ k.current = t /\ pc[t] = "delay_until"
  BY RunningReady DEF vTaskDelayUntil
<1>2. ~k.suspended
  BY NotSuspended DEF vTaskDelayUntil, Suspending
<1>3. /\ Types /\ k \in KernelRecord /\ StateLists(k) /\ prev \in 0..(TickMod - 1)
      /\ k.tick \in 0..(TickMod - 1) /\ call[t] = NoCall /\ k.missedTicks = 0 /\ t \notin Timed(k)
  BY <1>1, <1>2, FieldTypes, ReadyApart
     DEF KernelInv, Types, ListShape, CallShape, CallOK, SuspendedByCurrent
<1>4. should => asked = 1 /\ wake = (k.tick + 1) % TickMod
  BY <1>3, DelayUntilFacts
<1>5. /\ k' = IF should THEN AddToDelayedList(s, t, wake) ELSE s
      /\ call' = IF should THEN [call EXCEPT ![t] = [NoCall EXCEPT !.asked = asked]] ELSE call
      /\ pc' = [pc EXCEPT ![t] = "delay_resume"] /\ age' = age
  BY DEF vTaskDelayUntil, Goto
<1> HIDE DEF wake, should, asked
<1>6. CASE should
  <2>1. 1 \in 1..(TickMod - 1) /\ 1 # MaxDelay
    BY Constants
  <2>2. /\ k' = AddToDelayedList([k EXCEPT !.suspended = TRUE], t, (k.tick + 1) % TickMod)
        /\ call' = [call EXCEPT ![t] = [NoCall EXCEPT !.asked = 1]]
    BY <1>4, <1>5, <1>6
  <2>3. QED
    BY <1>1, <1>2, <1>5, <2>1, <2>2, DelayBegins
<1>7. CASE ~should
  <2>1. SameTimes(s, k)
    BY <1>3, SuspendTimes
  <2>2. SameTimes(k', k)
    BY <1>5, <1>7, <2>1
  <2>3. NoCall.timeOut = <<>> /\ NoCall.outcome = "none" /\ NoCall.asked <= 0
        /\ "delay_resume" \notin {"take_empty", "take_place"}
    BY DEF NoCall
  <2>4. TimeOK(k, t, "delay_resume", NoCall, 0)
    BY <1>3, <2>3, TimeBegins
  <2>5. age[t] = 0
    BY <1>1 DEF TimeInv, TimeOK
  <2>6. call' = [call EXCEPT ![t] = NoCall] /\ age' = [age EXCEPT ![t] = 0]
    BY <1>3, <1>5, <1>7, <2>5 DEF Types
  <2> HIDE DEF s
  <2>7. pc' = [pc EXCEPT ![t] = "delay_resume"] /\ Types
    BY <1>3, <1>5
  <2>8. QED
    BY ONLY <2>2, <2>4, <2>6, <2>7, TimeInv, t \in Task, TimeLocal
<1>8. QED
  BY <1>6, <1>7

\* The wait for a semaphore begins, for the ticks that are left of it.
LEMMA PlaceTime ==
  ASSUME KernelInv, TimeInv, NEW t \in Task, vTaskPlaceOnEventList(t)
  PROVE  TimeInv'
<1> DEFINE c == call[t]
           a == age[t]
           W == [k.waiting EXCEPT ![c.sem] = Append(@, t)]
           s == [k EXCEPT !.waiting = W]
           g == RemoveGenericItems(s, {t})
<1>1. t \in ReadyOf(k) /\ k.current = t /\ pc[t] = "take_place"
  BY RunningReady DEF vTaskPlaceOnEventList
<1>2. /\ Types /\ k \in KernelRecord /\ StateLists(k) /\ EventLists(k) /\ t \notin Timed(k)
      /\ c \in Calls /\ CallOK(c, "take_place") /\ TimeOK(k, t, "take_place", c, a) /\ a \in Nat
      /\ k.tick \in 0..(TickMod - 1) /\ k.waiting \in [Sem -> Seq(Task)]
  BY <1>1, ReadyApart, FieldTypes DEF KernelInv, Types, ListShape, CallShape, TimeInv
<1>3. /\ c.sem \in Sem /\ c.ticks > 0 /\ c.ticks \in 0..MaxDelay /\ c.asked \in 0..MaxDelay
      /\ c.asked # 0 /\ (c.asked = MaxDelay => c.ticks = MaxDelay)
  BY <1>2 DEF CallOK, Delaying, Suspending, Calls
<1>4. /\ k' = IF c.ticks = MaxDelay THEN [g EXCEPT !.blocked = @ \cup {t}]
              ELSE AddToDelayedList(s, t, (k.tick + c.ticks) % TickMod)
      /\ pc' = [pc EXCEPT ![t] = "take_unlock"] /\ call' = call /\ age' = age
  BY DEF vTaskPlaceOnEventList, Goto
<1>5. W \in [Sem -> Seq(Task)]
  <2> DEFINE q == Append(k.waiting[c.sem], t)
  <2>1. q \in Seq(Task) /\ W = [k.waiting EXCEPT ![c.sem] = q]
    BY <1>2, <1>3
  <2> HIDE DEF q
  <2>2. QED
    BY <1>2, <1>3, <2>1
<1> HIDE DEF W
<1>6. /\ s \in KernelRecord /\ SameStates(s, k) /\ SameClock(s, k) /\ s.missedTicks = k.missedTicks
  BY <1>2, <1>5 DEF KernelRecord, SameStates, SameClock
<1> HIDE DEF s
<1>7. /\ StateLists(s) /\ Timed(s) = Timed(k) /\ \A x \in Timed(s) : Due(s, x) = Due(k, x)
      /\ s.tick = k.tick /\ t \notin Timed(s) /\ OverflowOf(s) = OverflowOf(k) /\ s.wake = k.wake
  BY <1>2, <1>6, SameStatesFacts DEF SameClock, SameStates
<1>8. /\ pc'[t] = "take_unlock" /\ call'[t] = c /\ age'[t] = a
      /\ \A x \in Task \ {t} : pc'[x] = pc[x] /\ call'[x] = call[x] /\ age'[x] = age[x]
  BY <1>2, <1>4 DEF Types
<1>9. TimeOK(k, t, "take_unlock", c, a)
  BY <1>2, TimeMoves DEF Delaying
<1> HIDE DEF c, a
<1>10. /\ SameClock(k', k) /\ k'.missedTicks = k.missedTicks
       /\ \A x \in Task \ {t} :
            /\ x \in Timed(k') => x \in Timed(k) /\ Due(k', x) = Due(k, x)
            /\ x \in Timed(k) => x \in Timed(k')
       /\ TimeOK(k', t, "take_unlock", c, a)
  <2>1. CASE c.ticks = MaxDelay
    <3>1. k' = [g EXCEPT !.blocked = @ \cup {t}]
      BY <1>4, <2>1
    <3>2. /\ DelayedOf(k') = DelayedOf(s) \ {t} /\ OverflowOf(k') = OverflowOf(s) \ {t}
          /\ k'.wake = s.wake /\ SameClock(k', s) /\ SameFlags(k', s)
      BY <1>6, <1>7, <3>1, BlockFacts
    <3>3. /\ Timed(k') = Timed(s) /\ OverflowOf(k') = OverflowOf(s) /\ k'.tick = s.tick
          /\ k'.missedTicks = s.missedTicks
      BY <1>7, <3>2 DEF Timed, SameClock, SameFlags
    <3>4. \A x \in Timed(k') : Due(k', x) = Due(s, x)
      BY <3>2, <3>3 DEF Due
    <3>5. SameClock(k', k) /\ k'.missedTicks = k.missedTicks
      BY <1>6, <3>2, <3>3 DEF SameClock
    <3>6. Timed(k') = Timed(k) /\ \A x \in Timed(k') : Due(k', x) = Due(k, x)
      BY <1>7, <3>3, <3>4
    <3>7. TimeOK(k', t, "take_unlock", c, a)
      BY <1>2, <1>9, <3>5, <3>6, TimeKept
    <3>8. QED
      BY <3>5, <3>6, <3>7
  <2>2. CASE c.ticks # MaxDelay
    <3>1. c.ticks \in 1..(TickMod - 1) /\ c.asked # MaxDelay
      BY <1>3, <2>2, Constants
    <3>2. k' = AddToDelayedList(s, t, (s.tick + c.ticks) % TickMod)
      BY <1>4, <1>7, <2>2
    <3>3. s \in KernelRecord /\ StateLists(s) /\ t \notin Timed(s)
      BY <1>6, <1>7
    <3>4. /\ SameClock(k', s) /\ k'.missedTicks = s.missedTicks
          /\ Timed(k') = Timed(s) \cup {t} /\ Due(k', t) = c.ticks
          /\ \A x \in Timed(s) : Due(k', x) = Due(s, x)
      BY ONLY <3>1, <3>2, <3>3, t \in Task, DelayTimes
    <3>5. SameClock(k', k) /\ k'.missedTicks = k.missedTicks
      BY <1>6, <3>4 DEF SameClock
    <3>6. c.ticks = c.asked - a
      <4>1. a - (c.asked - c.ticks) = 0
        BY <1>2, <3>1 DEF TimeOK, Since
      <4>2. c.ticks \in Nat /\ c.asked \in Nat
        BY <1>3, Constants
      <4>3. QED
        BY <1>2, <4>1, <4>2
    <3>7. TimeOK(k', t, "take_unlock", c, a)
      BY <1>3, <1>9, <3>1, <3>4, <3>5, <3>6 DEF TimeOK, SameClock, Delaying
    <3>8. QED
      BY <1>7, <3>4, <3>5, <3>7
  <2>3. QED
    BY <2>1, <2>2
<1>11. {t} \in SUBSET Task /\ \A x \in {t} : TimeOK(k', x, pc'[x], call'[x], age'[x])
  BY <1>8, <1>10
<1>12. QED
  BY <1>8, <1>10, <1>11, TimeOthers

\* A give ends no delay, and lets no time pass.
LEMMA GiveTime ==
  ASSUME KernelInv, TimeInv, NEW m \in Sem,
         (\E t \in Task : xSemaphoreGive(t, m)) \/ xSemaphoreGiveFromISR(m)
  PROVE  TimeInv'
<1>1. UNCHANGED <<pc, call, age>>
  BY DEF xSemaphoreGive, xSemaphoreGiveFromISR
<1>2. SameLists(k', k) \/ Given(k', k, m)
  BY GiveStep
<1>3. /\ SameClock(k', k) /\ k'.missedTicks = k.missedTicks
      /\ Timed(k') \subseteq Timed(k) /\ \A x \in Timed(k') : Due(k', x) = Due(k, x)
      /\ Timed(k) \ Timed(k') \subseteq WaitingOf(k, m)
  BY <1>2 DEF SameLists, Given
<1>4. \A x \in WaitingOf(k, m) : pc[x] \notin Delaying
  BY DEF KernelInv, WaitersWait, Woken, Delaying
<1>5. \A x \in Task \ {} :
        /\ pc'[x] = pc[x] /\ call'[x] = call[x] /\ age'[x] = age[x]
        /\ x \in Timed(k') => x \in Timed(k) /\ Due(k', x) = Due(k, x)
        /\ x \in Timed(k) /\ x \notin Timed(k') => pc[x] \notin Delaying
  BY <1>1, <1>3, <1>4
<1>6. {} \in SUBSET Task /\ \A x \in {} : TimeOK(k', x, pc'[x], call'[x], age'[x])
  OBVIOUS
<1>7. QED
  BY <1>3, <1>5, <1>6, TimeOthers

\* The ticks a step lets happen are read off the clock.
LEMMA TicksPassed ==
  ASSUME MaxAge < TickMod, NEW s \in KernelRecord, NEW r \in KernelRecord, NEW n \in Nat,
         n <= MaxAge, Later(s.overflows, s.tick, n, r.overflows, r.tick)
  PROVE  Ticks(s, r) = n
<1>1. /\ s.tick \in 0..(TickMod - 1) /\ r.tick \in 0..(TickMod - 1)
      /\ s.overflows \in 0..(OverflowMod - 1)
  BY FieldTypes
<1>2. TickMod \in Nat /\ OverflowMod \in Nat /\ MaxAge \in Nat
  BY Constants
<1> DEFINE t1 == s.tick
           t2 == r.tick
           o1 == s.overflows
           o2 == r.overflows
<1>3. o1 \in Nat /\ t1 \in Nat /\ t2 \in Nat /\ t1 < TickMod /\ t2 < TickMod /\ n < TickMod
  BY <1>1, <1>2
<1>4. Later(o1, t1, n, o2, t2)
  OBVIOUS
<1> HIDE DEF t1, t2, o1, o2
<1>5. (t2 - t1) % TickMod = n
  BY ONLY <1>3, <1>4, n \in Nat, LaterDifference
<1>6. QED
  BY <1>5 DEF Ticks, t1, t2

\* Every wait grows older by the ticks that pass.
LEMMA TimeElapses ==
  ASSUME MaxAge < TickMod, KernelInv, TimeInv, NEW n \in Nat,
         \A x \in Task : age[x] + n <= MaxAge,
         k' \in KernelRecord, k'.missedTicks = 0,
         Later(k.overflows, k.tick, n, k'.overflows, k'.tick),
         \A x \in Task : pc[x] \notin {"take_empty", "take_place"},
         \A x \in Timed(k') : x \in Timed(k) /\ Due(k', x) = Due(k, x) - n,
         \A x \in Timed(k) \ Timed(k') : x \in PendingOf(k) \/ Due(k, x) <= n,
         age' = Aged(Ticks(k, k')), NEW x \in Task
  PROVE  TimeOK(k', x, pc[x], call[x], age'[x])
<1> DEFINE c == call[x]
           a == age[x]
           p == pc[x]
<1>1. /\ Types /\ k \in KernelRecord /\ WaitersWait /\ c \in Calls /\ CallOK(c, p)
      /\ a \in Nat /\ TimeOK(k, x, p, c, a) /\ MaxAge \in Nat
  BY Constants DEF KernelInv, Types, CallShape, TimeInv
<1>2. a + n <= MaxAge /\ n <= MaxAge
  <2>1. a + n <= MaxAge
    OBVIOUS
  <2>2. QED
    BY <1>1, <2>1
<1>3. Ticks(k, k') = n
  BY <1>1, <1>2, TicksPassed
<1>4. age'[x] = IF c.asked \notin {0, MaxDelay} THEN a + n ELSE a
  BY <1>3 DEF Aged, Waits
<1>5. x \in Timed(k) /\ x \notin Timed(k') => p \notin Delaying \/ Due(k, x) <= n
  BY <1>1 DEF WaitersWait, Woken, Delaying
<1>6. /\ x \in Timed(k') => x \in Timed(k) /\ Due(k', x) = Due(k, x) - n
      /\ p \notin {"take_empty", "take_place"}
  OBVIOUS
<1> DEFINE r == k'
<1>7. /\ r \in KernelRecord /\ r.missedTicks = 0
      /\ Later(k.overflows, k.tick, n, r.overflows, r.tick)
      /\ (x \in Timed(r) => x \in Timed(k) /\ Due(r, x) = Due(k, x) - n)
      /\ (x \in Timed(k) /\ x \notin Timed(r) => p \notin Delaying \/ Due(k, x) <= n)
      /\ p \notin {"take_empty", "take_place"}
  BY <1>5, <1>6
<1> HIDE DEF c, a, p, r
<1>8. TimeOK(r, x, p, c, IF c.asked \notin {0, MaxDelay} THEN a + n ELSE a)
  BY ONLY MaxAge < TickMod, n \in Nat, <1>1, <1>2, <1>7, TimePasses
<1>9. QED
  BY <1>4, <1>8 DEF c, a, p, r

\* The scheduler runs again: the ticks it missed pass for every wait.
LEMMA ResumeTime ==
  ASSUME MaxAge < TickMod, KernelInv, TimeInv, NEW t \in Task, DelayResume(t) \/ TakeResume(t)
  PROVE  TimeInv'
<1> DEFINE n == k.missedTicks
<1>1. /\ Types /\ k \in KernelRecord /\ StateLists(k) /\ EventLists(k) /\ Apart(k)
      /\ n \in Nat /\ k' = xTaskResumeAll(k) /\ call' = call /\ k.current = t
      /\ age' = Aged(Ticks(k, k')) /\ pc[t] \in {"delay_resume", "take_resume"}
      /\ age \in [Task -> Nat] /\ SuspendedByCurrent
  BY DEF KernelInv, Types, ListShape, DelayResume, TakeResume, Running
<1>2. \A x \in Task : age[x] + n <= MaxAge
  BY DEF TimeInv, TimeOK
<1>3. n < TickMod
  <2>1. age[t] + n <= MaxAge /\ age[t] \in Nat
    BY <1>1, <1>2
  <2>2. QED
    BY <1>1, <2>1, Constants
<1>4. LET T == PendingOf(k) \cup Expired(k, n)
      IN  /\ k' \in KernelRecord /\ k'.missedTicks = 0 /\ Timed(k') = Timed(k) \ T
          /\ \A x \in Timed(k') : Due(k', x) = Due(k, x) - n
          /\ n < TickMod => Later(k.overflows, k.tick, n, k'.overflows, k'.tick)
  BY <1>1, ResumeFacts
<1>5. \A x \in Timed(k) \ Timed(k') : x \in PendingOf(k) \/ Due(k, x) <= n
  BY <1>4 DEF Expired
<1>6. \A x \in Task : pc[x] \notin {"take_empty", "take_place"}
  BY <1>1 DEF SuspendedByCurrent, Suspending
<1>7. /\ \A x \in Timed(k') : x \in Timed(k) /\ Due(k', x) = Due(k, x) - n
      /\ Later(k.overflows, k.tick, n, k'.overflows, k'.tick)
  BY <1>3, <1>4
<1> HIDE DEF n
<1>8. ASSUME NEW x \in Task PROVE TimeOK(k', x, pc[x], call[x], age'[x])
  BY <1>1, <1>2, <1>4, <1>5, <1>6, <1>7, TimeElapses
<1>9. ASSUME NEW x \in Task PROVE TimeOK(k', x, pc'[x], call'[x], age'[x])
  <2>1. CASE x # t
    <3>1. pc'[x] = pc[x]
      BY <1>1, <2>1 DEF DelayResume, TakeResume, Goto, Types
    <3>2. QED
      BY <1>1, <1>8, <3>1
  <2>2. CASE x = t
    <3>1. \/ pc'[t] \in Delaying /\ pc[t] \in Delaying
          \/ pc'[t] \in {"take_failed", "take_yield", "take"}
      BY <1>1 DEF DelayResume, TakeResume, Running, Goto, Types, Delaying
    <3>2. /\ pc'[t] \in Delaying => pc[t] \in Delaying
          /\ pc'[t] \notin {"app", "delay_until", "take_empty", "take_place"}
      BY <3>1 DEF Delaying
    <3>3. QED
      BY <1>1, <1>8, <2>2, <3>2, TimeMoves
  <2>3. QED
    BY <2>1, <2>2
<1>10. QED
  BY <1>9 DEF TimeInv

\* The tick interrupt: a tick passes for every wait, or is counted.
LEMMA TickTime ==
  ASSUME MaxAge < TickMod, KernelInv, TimeInv, xPortSysTickHandler
  PROVE  TimeInv'
<1>1. /\ Types /\ k \in KernelRecord /\ StateLists(k) /\ EventLists(k) /\ k.missedTicks \in Nat
      /\ k' = vTaskIncrementTick(k) /\ pc' = pc /\ call' = call
      /\ age' = Aged(Ticks(k, k')) /\ age \in [Task -> Nat] /\ SuspendedByCurrent
      /\ \A x \in Task : age[x] + k.missedTicks < MaxAge
  BY DEF KernelInv, Types, ListShape, xPortSysTickHandler
<1>2. CASE k.suspended
  <2>1. /\ k' \in KernelRecord /\ SameStates(k', k) /\ SameClock(k', k)
        /\ k'.missedTicks = k.missedTicks + 1
    BY <1>1, <1>2, TickCounted
  <2>2. Ticks(k, k') = 0
    <3>1. k'.tick = k.tick /\ k.tick \in 0..(TickMod - 1)
      BY <1>1, <2>1, FieldTypes DEF SameClock
    <3>2. k.tick - k.tick = 0 /\ 0 % TickMod = 0
      <4>1. TickMod \in Nat /\ TickMod > 1 /\ 0 \in Int /\ 0 < 2 * TickMod
        BY Constants
      <4>2. QED
        BY <3>1, <4>1, ModSum
    <3>3. QED
      BY <3>1, <3>2 DEF Ticks
  <2>3. age' = age
    BY <1>1, <2>2 DEF Aged
  <2>4. Timed(k') = Timed(k) /\ \A x \in Timed(k') : Due(k', x) = Due(k, x)
    BY <1>1, <2>1, SameStatesFacts
  <2>5. ASSUME NEW x \in Task PROVE TimeOK(k', x, pc[x], call[x], age[x])
    <3>1. age[x] + (k.missedTicks + 1) <= MaxAge
      <4>1. age[x] \in Nat /\ k.missedTicks \in Nat /\ age[x] + k.missedTicks < MaxAge
            /\ MaxAge \in Nat
        BY <1>1, Constants
      <4>2. QED
        BY <4>1
    <3>2. TimeOK(k, x, pc[x], call[x], age[x])
      BY DEF TimeInv
    <3>3. QED
      BY <2>1, <2>4, <3>1, <3>2 DEF TimeOK, SameClock
  <2>6. QED
    BY <1>1, <2>3, <2>5 DEF TimeInv
<1>3. CASE ~k.suspended
  <2>1. k.missedTicks = 0 /\ \A x \in Task : pc[x] \notin {"take_empty", "take_place"}
    BY <1>1, <1>3 DEF SuspendedByCurrent, Suspending
  <2>2. Elapsed(k, k', 1) /\ k'.missedTicks = k.missedTicks
    BY <1>1, <1>3, TickFacts
  <2>3. /\ k' \in KernelRecord /\ k'.missedTicks = 0
        /\ Timed(k') = Timed(k) \ Expired(k, 1)
        /\ \A x \in Timed(k') : Due(k', x) = Due(k, x) - 1
        /\ 1 < TickMod => Later(k.overflows, k.tick, 1, k'.overflows, k'.tick)
    BY <2>1, <2>2 DEF Elapsed
  <2>4. 1 < TickMod /\ 1 \in Nat /\ MaxAge \in Nat
    BY Constants
  <2>5. \A x \in Task : age[x] + 1 <= MaxAge
    BY <1>1, <2>1, <2>4
  <2>6. /\ \A x \in Timed(k') : x \in Timed(k) /\ Due(k', x) = Due(k, x) - 1
        /\ \A x \in Timed(k) \ Timed(k') : x \in PendingOf(k) \/ Due(k, x) <= 1
    BY <2>3 DEF Expired
  <2>7. ASSUME NEW x \in Task PROVE TimeOK(k', x, pc[x], call[x], age'[x])
    BY <1>1, <2>1, <2>3, <2>4, <2>5, <2>6, TimeElapses
  <2>8. QED
    BY <1>1, <2>7 DEF TimeInv
<1>4. QED
  BY <1>2, <1>3

\* No task waits when the scheduler is started.
LEMMA InitTime ==
  ASSUME KernelInit
  PROVE  TimeInv
<1>1. PICK order \in SetToSeqs(Task) : k = CreatedTasks(order)
  BY DEF KernelInit
<1>2. Timed(k) = {} /\ k.missedTicks = 0
  BY <1>1, OrderFacts, CreatedFacts
<1>3. ASSUME NEW t \in Task PROVE TimeOK(k, t, pc[t], call[t], age[t])
  <2>1. pc[t] = "app" /\ call[t] = NoCall /\ age[t] = 0
    BY DEF KernelInit
  <2>2. NoCall.timeOut = <<>> /\ NoCall.outcome = "none" /\ "app" \notin Delaying
    BY DEF NoCall, Delaying
  <2>3. TimeOK(k, t, "app", NoCall, 0)
    BY <1>2, <2>2, TimeBegins
  <2>4. QED
    BY <2>1, <2>3
<1>4. QED
  BY <1>3 DEF TimeInv

\* The time of the waits through the step of a task.
LEMMA TaskStepTime ==
  ASSUME MaxAge < TickMod, KernelInv, TimeInv, NEW t \in Task, TaskStep(t)
  PROVE  TimeInv'
<1>1. CASE Yield(t) \/ DelayYield(t) \/ TakeYield(t)
  BY <1>1, SwitchTime
<1>2. CASE \E n \in Timeout : vTaskDelay(t, n)
  BY <1>2, DelayTime
<1>3. CASE brick_tick_task(t)
  BY <1>3, TickTaskTime
<1>4. CASE vTaskDelayUntil(t)
  BY <1>4, DelayUntilTime
<1>5. CASE DelayResume(t) \/ TakeResume(t)
  BY <1>5, ResumeTime
<1>6. CASE DelayReturn(t) \/ TakeFailed(t)
  BY <1>6, FailedTime
<1>7. CASE \E m \in Mutex : xSemaphoreTake(t, "mutex", m, MaxDelay)
  BY <1>7, TakeTime
<1>8. CASE \E m \in Signal, n \in Timeout : xSemaphoreTake(t, "signal", m, n)
  BY <1>8, TakeTime
<1>9. CASE ReceiveOrWait(t)
  BY <1>9, ReceiveTime
<1>10. CASE TakeSuspendAll(t)
  BY <1>10, SuspendAllTime
<1>11. CASE xTaskCheckForTimeOut(t)
  BY <1>11, CheckForTimeOutTime
<1>12. CASE prvIsQueueEmpty(t)
  BY <1>12, IsQueueEmptyTime
<1>13. CASE vTaskPlaceOnEventList(t)
  BY <1>13, PlaceTime
<1>14. CASE TakeUnlockQueue(t)
  BY <1>14, UnlockTime
<1>15. CASE \E m \in Mutex : xSemaphoreGive(t, m)
  BY <1>15, GiveTime DEF Sem
<1>16. QED
  BY <1>1, <1>2, <1>3, <1>4, <1>5, <1>6, <1>7, <1>8, <1>9, <1>10, <1>11, <1>12, <1>13,
     <1>14, <1>15 DEF TaskStep

\* The time of the waits through every step.
LEMMA NextTime ==
  ASSUME MaxAge < TickMod, KernelInv, TimeInv, [KernelNext]_kvars
  PROVE  TimeInv'
<1>1. CASE prvIdleTask
  BY <1>1, SwitchTime
<1>2. CASE \E t \in Task : TaskStep(t)
  BY <1>2, TaskStepTime
<1>3. CASE xPortSysTickHandler
  BY <1>3, TickTime
<1>4. CASE \E m \in Signal : xSemaphoreGiveFromISR(m)
  BY <1>4, GiveTime DEF Sem
<1>5. CASE UNCHANGED kvars
  <2>1. k' = k /\ pc' = pc /\ call' = call /\ age' = age
    BY <1>5 DEF kvars
  <2>2. QED
    BY <2>1 DEF TimeInv
<1>6. QED
  BY <1>1, <1>2, <1>3, <1>4, <1>5 DEF KernelNext, Cpu, Interrupt

\* As long as no wait goes on for a whole round of the clock (2^32 ms), what
\* is left of it and what has passed add up to what was asked for.
THEOREM KernelTimeInvariant ==
  ASSUME MaxAge < TickMod
  PROVE  KernelSpec => [](KernelInv /\ TimeInv)
<1>1. KernelInit => KernelInv /\ TimeInv
  BY InitInv, InitTime
<1>2. KernelInv /\ TimeInv /\ [KernelNext]_kvars => KernelInv' /\ TimeInv'
  BY NextInv, NextTime
<1>3. QED
  BY <1>1, <1>2, PTL DEF KernelSpec

\* Every waiting task will be woken exactly when the ticks it asked for have
\* passed: across the wrap of the clock and the swap of the delayed lists,
\* across retries with a shortened block time, and across missed ticks.
THEOREM WaitEndsOnTimeCorrect ==
  ASSUME MaxAge < TickMod
  PROVE  KernelSpec => []WaitEndsOnTime
<1>1. KernelInv /\ TimeInv => WaitEndsOnTime
  <2> SUFFICES ASSUME KernelInv, TimeInv, NEW t \in Lists[2] \cup Lists[3]
               PROVE  k.wake[t] + (IF t \in Lists[3] THEN TickMod ELSE 0) - k.tick
                        = call[t].asked - age[t]
    BY DEF WaitEndsOnTime
  <2>1. Lists[2] = DelayedOf(k) /\ Lists[3] = OverflowOf(k)
    BY DEF Lists, DelayedOf, OverflowOf
  <2>2. t \in Timed(k) /\ t \in Task
    BY <2>1, FieldTypes DEF Timed, KernelInv, Types
  <2>3. Due(k, t) = call[t].asked - age[t]
    BY <2>2 DEF TimeInv, TimeOK
  <2>4. QED
    BY <2>1, <2>3 DEF Due
<1>2. QED
  BY <1>1, KernelTimeInvariant, PTL

\* No block time ends early: a take that fails for lack of time and a delay
\* that returns have waited at least the ticks asked for.
THEOREM NoWaitEndsEarlyCorrect ==
  ASSUME MaxAge < TickMod
  PROVE  KernelSpec => NoWaitEndsEarly
<1>1. KernelInv /\ TimeInv =>
        \A t \in Task : TakeFailed(t) \/ DelayReturn(t) => age[t] >= call[t].asked
  <2> SUFFICES ASSUME KernelInv, TimeInv, NEW t \in Task, TakeFailed(t) \/ DelayReturn(t)
               PROVE  age[t] >= call[t].asked
    OBVIOUS
  <2>1. /\ TimeOK(k, t, pc[t], call[t], age[t]) /\ CallOK(call[t], pc[t])
    BY DEF TimeInv, KernelInv, CallShape
  <2>2. CASE TakeFailed(t)
    BY <2>1, <2>2 DEF TakeFailed, Running, CallOK, TimeOK
  <2>3. CASE DelayReturn(t)
    <3>1. t \in ReadyOf(k) /\ pc[t] = "delay_return"
      BY <2>3, RunningReady DEF DelayReturn
    <3>2. t \notin Timed(k)
      BY <3>1, ReadyApart DEF KernelInv
    <3>3. QED
      BY <2>1, <3>1, <3>2 DEF TimeOK, Delaying
  <2>4. QED
    BY <2>2, <2>3
<1>2. QED
  BY <1>1, KernelTimeInvariant, PTL DEF NoWaitEndsEarly
-----------------------------------------------------------------------------
(* The clock, with the ticks that are still to be made up for.             *)

Stands(r, s) == SameClock(r, s) /\ r.missedTicks = s.missedTicks

\* Nothing but a tick and the resumption of the scheduler moves the clock.
LEMMA SameListsStand ==
  ASSUME NEW s, NEW r, SameLists(r, s)
  PROVE  Stands(r, s)
  BY DEF SameLists, Stands

\* Most operations leave the clock alone.
LEMMA FieldsStand ==
  ASSUME NEW s \in KernelRecord, NEW r,
         \/ r = s
         \/ \E M : r = [s EXCEPT !.messages = M]
         \/ \E b : r = [s EXCEPT !.suspended = b]
         \/ \E L : r = [s EXCEPT !.txLock = L]
         \/ \E L, W, P, y : r = [s EXCEPT !.txLock = L, !.waiting = W, !.pending = P,
                                          !.missedYield = y]
  PROVE  Stands(r, s)
  BY DEF KernelRecord, Stands, SameClock

\* So does the list work of a delay.
LEMMA DelayStands ==
  ASSUME NEW s \in KernelRecord, StateLists(s), NEW t \in Task,
         NEW wake \in 0..(TickMod - 1), wake # s.tick, NEW r, r = AddToDelayedList(s, t, wake)
  PROVE  Stands(r, s)
<1>1. SameClock(r, s) /\ SameFlags(r, s)
  BY DelayFacts
<1>2. QED
  BY <1>1 DEF Stands, SameFlags

\* The list work of vTaskDelay and vTaskDelayUntil.
LEMMA DelayingStands ==
  ASSUME KernelInv, NEW t \in Task, NEW n, vTaskDelay(t, n) \/ vTaskDelayUntil(t)
  PROVE  Stands(k', k)
<1> DEFINE s == [k EXCEPT !.suspended = TRUE]
           prev == lastWake[t]
<1>1. k \in KernelRecord /\ StateLists(k) /\ Types
  BY DEF KernelInv, Types, ListShape
<1>2. k.tick \in 0..(TickMod - 1) /\ prev \in 0..(TickMod - 1)
  BY <1>1, FieldTypes DEF Types
<1>3. s \in KernelRecord /\ StateLists(s) /\ SameTimes(s, k)
  BY <1>1, SuspendTimes
<1>4. \/ k' = s
      \/ \E w \in 0..(TickMod - 1) : w # k.tick /\ k' = AddToDelayedList(s, t, w)
  <2>1. CASE vTaskDelay(t, n)
    <3> DEFINE w == (k.tick + n) % TickMod
    <3>1. n \in 1..(TickMod - 1)
      <4>1. n \in 1..(MaxDelay - 1)
        BY <2>1 DEF vTaskDelay
      <4>2. QED
        BY <4>1, Constants
    <3>2. w \in 0..(TickMod - 1) /\ w # k.tick
      BY <1>2, <3>1, WakeTime
    <3>3. k' = AddToDelayedList(s, t, w)
      BY <2>1 DEF vTaskDelay
    <3> HIDE DEF w, s
    <3>4. QED
      BY <3>2, <3>3
  <2>2. CASE vTaskDelayUntil(t)
    <3> DEFINE w == (prev + 1) % TickMod
               should == IF k.tick < prev THEN w < prev /\ w > k.tick
                         ELSE w < prev \/ w > k.tick
    <3>1. w \in 0..(TickMod - 1) /\ (should => w # k.tick)
      BY <1>2, DelayUntilFacts
    <3>2. k' = IF should THEN AddToDelayedList(s, t, w) ELSE s
      BY <2>2 DEF vTaskDelayUntil
    <3> HIDE DEF w, should, s
    <3>3. QED
      BY <3>1, <3>2
  <2>3. QED
    BY <2>1, <2>2
<1> HIDE DEF s
<1>5. Stands(s, k) /\ s.tick = k.tick
  BY <1>3 DEF SameTimes, Stands, SameClock
<1>6. Stands(k', s)
  <2>1. CASE k' = s
    BY <2>1 DEF Stands, SameClock
  <2>2. CASE \E w \in 0..(TickMod - 1) : w # k.tick /\ k' = AddToDelayedList(s, t, w)
    BY <1>3, <1>5, <2>2, DelayStands
  <2>3. QED
    BY <1>4, <2>1, <2>2
<1>7. QED
  BY <1>5, <1>6 DEF Stands, SameClock

\* The list work of a wait.
LEMMA PlaceStands ==
  ASSUME KernelInv, NEW t \in Task, vTaskPlaceOnEventList(t)
  PROVE  Stands(k', k)
<1> DEFINE c == call[t]
           W == [k.waiting EXCEPT ![c.sem] = Append(@, t)]
           s == [k EXCEPT !.waiting = W]
           g == RemoveGenericItems(s, {t})
           wake == (k.tick + c.ticks) % TickMod
<1>1. /\ k \in KernelRecord /\ StateLists(k) /\ c \in Calls /\ CallOK(c, "take_place")
      /\ k.tick \in 0..(TickMod - 1) /\ k.waiting \in [Sem -> Seq(Task)]
  BY FieldTypes DEF KernelInv, Types, ListShape, CallShape, vTaskPlaceOnEventList, Running
<1>2. c.sem \in Sem /\ c.ticks > 0 /\ c.ticks \in 0..MaxDelay
  BY <1>1 DEF CallOK, Delaying, Calls
<1>3. k' = IF c.ticks = MaxDelay THEN [g EXCEPT !.blocked = @ \cup {t}]
           ELSE AddToDelayedList(s, t, wake)
  BY DEF vTaskPlaceOnEventList
<1>4. W \in [Sem -> Seq(Task)]
  <2> DEFINE q == Append(k.waiting[c.sem], t)
  <2>1. q \in Seq(Task) /\ W = [k.waiting EXCEPT ![c.sem] = q]
    BY <1>1, <1>2
  <2> HIDE DEF q
  <2>2. QED
    BY <1>1, <1>2, <2>1
<1> HIDE DEF W
<1>5. /\ s \in KernelRecord /\ SameStates(s, k) /\ SameClock(s, k) /\ s.missedTicks = k.missedTicks
  BY <1>1, <1>4 DEF KernelRecord, SameStates, SameClock
<1> HIDE DEF s
<1>6. StateLists(s) /\ s.tick = k.tick
  BY <1>1, <1>5, SameStatesFacts DEF SameClock
<1>7. Stands(k', s)
  <2>1. CASE c.ticks = MaxDelay
    <3>1. SameClock(k', s) /\ SameFlags(k', s)
      BY <1>3, <1>5, <1>6, <2>1, BlockFacts
    <3>2. QED
      BY <3>1 DEF Stands, SameFlags
  <2>2. CASE c.ticks # MaxDelay
    <3>1. c.ticks \in 1..(TickMod - 1)
      BY <1>2, Constants
    <3>2. wake \in 0..(TickMod - 1) /\ wake # s.tick
      BY <1>1, <1>6, <3>1, WakeTime
    <3>3. k' = AddToDelayedList(s, t, wake)
      BY <1>3, <2>2
    <3> HIDE DEF wake
    <3>4. QED
      BY <1>5, <1>6, <3>2, <3>3, DelayStands
  <2>3. QED
    BY <2>1, <2>2
<1>8. QED
  BY <1>5, <1>7 DEF Stands, SameClock

\* A give, by a task or an interrupt.
LEMMA GiveStands ==
  ASSUME KernelInv, NEW m \in Sem,
         (\E t \in Task : xSemaphoreGive(t, m)) \/ xSemaphoreGiveFromISR(m)
  PROVE  Stands(k', k)
<1>1. SameLists(k', k) \/ Given(k', k, m)
  BY GiveStep
<1>2. QED
  BY <1>1 DEF SameLists, Given, Stands

\* The steps of a task, but for the resumption of the scheduler.
LEMMA TaskStands ==
  ASSUME KernelInv, NEW t \in Task, TaskStep(t), ~(DelayResume(t) \/ TakeResume(t))
  PROVE  Stands(k', k)
<1>1. k \in KernelRecord
  BY DEF KernelInv, Types
<1>2. CASE Yield(t) \/ DelayYield(t) \/ TakeYield(t)
  <2>1. ~k.suspended
    BY <1>2, NotSuspended DEF Yield, DelayYield, TakeYield, Running, Suspending
  <2>2. k' = vTaskSwitchContext(k)
    BY <1>2 DEF Yield, DelayYield, TakeYield
  <2>3. QED
    BY <2>1, <2>2, SwitchStep, SameListsStand DEF KernelInv
<1>3. CASE (\E n \in Timeout : vTaskDelay(t, n)) \/ vTaskDelayUntil(t)
  BY <1>3, DelayingStands
<1>4. CASE vTaskPlaceOnEventList(t)
  BY <1>4, PlaceStands
<1>5. CASE \E m \in Mutex : xSemaphoreGive(t, m)
  BY <1>5, GiveStands DEF Sem
<1>6. CASE \/ brick_tick_task(t) \/ DelayReturn(t) \/ TakeFailed(t) \/ prvIsQueueEmpty(t)
           \/ \E m \in Mutex : xSemaphoreTake(t, "mutex", m, MaxDelay)
           \/ \E m \in Signal, n \in Timeout : xSemaphoreTake(t, "signal", m, n)
  <2>1. k' = k
    BY <1>6 DEF brick_tick_task, DelayReturn, TakeFailed, prvIsQueueEmpty, xSemaphoreTake
  <2>2. QED
    BY <1>1, <2>1, FieldsStand
<1>7. CASE ReceiveOrWait(t)
  <2>1. k' = k \/ \E M : k' = [k EXCEPT !.messages = M]
    BY <1>7 DEF ReceiveOrWait
  <2>2. QED
    BY <1>1, <2>1, FieldsStand
<1>8. CASE TakeSuspendAll(t)
  <2>1. \E b : k' = [k EXCEPT !.suspended = b]
    BY <1>8 DEF TakeSuspendAll
  <2>2. QED
    BY <1>1, <2>1, FieldsStand
<1>9. CASE xTaskCheckForTimeOut(t)
  <2>1. \E L : k' = [k EXCEPT !.txLock = L]
    BY <1>9 DEF xTaskCheckForTimeOut, prvLockQueue
  <2>2. QED
    BY <1>1, <2>1, FieldsStand
<1>10. CASE TakeUnlockQueue(t)
  <2>1. \E L, W, P, y : k' = [k EXCEPT !.txLock = L, !.waiting = W, !.pending = P,
                                       !.missedYield = y]
    BY <1>10 DEF TakeUnlockQueue, prvUnlockQueue
  <2>2. QED
    BY <1>1, <2>1, FieldsStand
<1>11. QED
  BY <1>2, <1>3, <1>4, <1>5, <1>6, <1>7, <1>8, <1>9, <1>10 DEF TaskStep

\* A tick moves the clock by one, at once or later.
LEMMA TickMoves ==
  ASSUME KernelInv, xPortSysTickHandler
  PROVE  (Clock' - Clock) % (OverflowMod * TickMod) = 1
<1> DEFINE p1 == k.overflows * TickMod + k.tick
           p2 == k'.overflows * TickMod + k'.tick
           N == OverflowMod * TickMod
<1>1. /\ k \in KernelRecord /\ StateLists(k) /\ EventLists(k) /\ k' = vTaskIncrementTick(k)
      /\ k.missedTicks \in Nat
  BY DEF KernelInv, Types, ListShape, xPortSysTickHandler
<1>2. TickMod \in Nat /\ 1 < TickMod /\ N \in Nat
  BY Constants, ClockRange
<1>3. Clock = p1 + k.missedTicks /\ Clock' = p2 + k'.missedTicks
  BY DEF Clock
<1>4. p1 \in Int
  BY <1>1, ClockReading
<1>5. Clock' - Clock \in Int /\ (Clock' - Clock = 1 \/ Clock' - Clock = 1 - N)
  <2>1. CASE k.suspended
    <3>1. SameClock(k', k) /\ k'.missedTicks = k.missedTicks + 1
      BY <1>1, <2>1, TickCounted
    <3>2. p2 = p1
      BY <3>1 DEF SameClock
    <3> HIDE DEF p1, p2
    <3>3. QED
      BY <1>1, <1>3, <1>4, <3>1, <3>2
  <2>2. CASE ~k.suspended
    <3>1. Elapsed(k, k', 1) /\ k'.missedTicks = k.missedTicks
      BY <1>1, <2>2, TickFacts
    <3>2. k' \in KernelRecord /\ Later(k.overflows, k.tick, 1, k'.overflows, k'.tick)
      BY <1>2, <3>1 DEF Elapsed
    <3>3. p2 - p1 \in Int /\ (p2 - p1 = 1 \/ p2 - p1 = 1 - N)
      <4>1. 1 \in Nat
        OBVIOUS
      <4>2. QED
        BY <1>1, <1>2, <3>2, <4>1, ClockMoves
    <3>4. p2 \in Int
      BY <3>2, ClockReading
    <3> HIDE DEF p1, p2, N
    <3>5. QED
      BY <1>1, <1>2, <1>3, <1>4, <3>1, <3>3, <3>4
  <2>3. QED
    BY <2>1, <2>2
<1> DEFINE d == Clock' - Clock
<1>6. d \in Int /\ (d = 1 \/ d = 1 - N)
  BY <1>5
<1> HIDE DEF d
<1>7. d % N = 1
  BY <1>6, ClockRange
<1>8. QED
  BY <1>7 DEF d

\* Every other step leaves the clock alone, with the missed ticks counted in.
LEMMA ResumeMoves ==
  ASSUME KernelInv, NEW t \in Task, DelayResume(t) \/ TakeResume(t)
  PROVE  (Clock' - Clock) % (OverflowMod * TickMod) = 0
<1> DEFINE n == k.missedTicks
           p1 == k.overflows * TickMod + k.tick
           p2 == k'.overflows * TickMod + k'.tick
           N == OverflowMod * TickMod
<1>1. /\ k \in KernelRecord /\ StateLists(k) /\ EventLists(k) /\ Apart(k)
      /\ n \in Nat /\ k' = xTaskResumeAll(k)
  BY DEF KernelInv, Types, ListShape, DelayResume, TakeResume
<1>2. /\ k' \in KernelRecord /\ k'.missedTicks = 0
      /\ Turned(k.overflows, k.tick, n, k'.overflows, k'.tick)
  BY <1>1, ResumeFacts
<1>3. PICK c \in Nat : p2 = p1 + n - c * N
  BY <1>2 DEF Turned
<1>4. p1 \in Int /\ p2 \in Int /\ N \in Nat /\ N > 1
  BY <1>1, <1>2, ClockReading, ClockRange
<1>5. Clock = p1 + n /\ Clock' = p2 + 0
  BY <1>2 DEF Clock
<1> DEFINE d == Clock' - Clock
<1> HIDE DEF p1, p2, N, n
<1>6. d = (-c) * N
  <2>1. c * N \in Int /\ (-c) * N = -(c * N)
    BY <1>4
  <2>2. QED
    BY <1>1, <1>3, <1>4, <1>5, <2>1
<1> HIDE DEF d
<1>7. d % N = 0
  <2>1. -c \in Int /\ ((-c) * N) % N = 0
    BY <1>4
  <2>2. QED
    BY <1>6, <2>1
<1>8. QED
  BY <1>7 DEF d, N

\* A step that leaves the clock and the missed ticks alone moves it by zero.
LEMMA StandsClock ==
  ASSUME KernelInv, Stands(k', k)
  PROVE  (Clock' - Clock) % (OverflowMod * TickMod) = 0
<1> DEFINE p == k.overflows * TickMod + k.tick
           d == Clock' - Clock
<1>1. p \in Int /\ k.missedTicks \in Int
  BY ClockReading DEF KernelInv, Types
<1>2. Clock = p + k.missedTicks /\ Clock' = p + k.missedTicks
  BY DEF Clock, Stands, SameClock
<1> HIDE DEF p
<1>3. d \in Int /\ d = 0
  BY <1>1, <1>2
<1> HIDE DEF d
<1>4. d % (OverflowMod * TickMod) = 0
  BY <1>3, ClockRange
<1>5. QED
  BY <1>4 DEF d

\* Every tick interrupt advances the clock once, at once or when the scheduler
\* is resumed, and nothing else does.
THEOREM NoTickLostCorrect == KernelSpec => NoTickLost
<1>1. ASSUME KernelInv, KernelNext
      PROVE  (Clock' - Clock) % (OverflowMod * TickMod) = IF xPortSysTickHandler THEN 1 ELSE 0
  <2>1. CASE xPortSysTickHandler
    BY <1>1, <2>1, TickMoves
  <2>2. CASE ~xPortSysTickHandler
    <3>1. CASE prvIdleTask
      <4>1. ~k.suspended /\ k' = vTaskSwitchContext(k)
        BY <1>1, <3>1, NotSuspended DEF prvIdleTask
      <4>2. QED
        BY <1>1, <2>2, <4>1, SwitchStep, SameListsStand, StandsClock DEF KernelInv
    <3>2. CASE \E t \in Task : TaskStep(t)
      <4>1. PICK t \in Task : TaskStep(t)
        BY <3>2
      <4>2. CASE DelayResume(t) \/ TakeResume(t)
        BY <1>1, <2>2, <4>2, ResumeMoves
      <4>3. CASE ~(DelayResume(t) \/ TakeResume(t))
        BY <1>1, <2>2, <4>1, <4>3, TaskStands, StandsClock
      <4>4. QED
        BY <4>2, <4>3
    <3>3. CASE \E m \in Signal : xSemaphoreGiveFromISR(m)
      BY <1>1, <2>2, <3>3, GiveStands, StandsClock DEF Sem
    <3>4. QED
      BY <1>1, <2>2, <3>1, <3>2, <3>3 DEF KernelNext, Cpu, Interrupt
  <2>3. QED
    BY <2>1, <2>2
<1>2. KernelInv /\ [KernelNext]_kvars =>
        [(Clock' - Clock) % (OverflowMod * TickMod) = IF xPortSysTickHandler THEN 1 ELSE 0]_kvars
  BY <1>1
<1>3. QED
  BY <1>2, KernelInvariant, PTL DEF NoTickLost, KernelSpec
=============================================================================
