----------------------------- MODULE ScoringProofs -----------------------------
(***************************************************************************)
(* What is proved of the arithmetic of the scorer, for any number of cells,  *)
(* two or three repeats and any records: its fractions and their totals, the *)
(* score of a cell and of a run, what a credit is a share of, what a faster  *)
(* run is credited, and what a slower card leaves as it was.                 *)
(***************************************************************************)
EXTENDS Scoring, FrontierProofs

-----------------------------------------------------------------------------
\* The greatest common divisor

\* The remainder, for the provers to take as a whole.
Rest(a, b) == a % b

\* g[b][a] is that of a and b, for b up to n.
Fits(g, n) ==
    \A b \in 0 .. n, a \in Nat :
        /\ g[b][a] \in Nat
        /\ b = 0 => g[b][a] = a
        /\ b # 0 => g[b][a] = g[Rest(a, b)][b]

\* What a table that fits says of one entry.
LEMMA FitsAt ==
    ASSUME NEW g, NEW n, Fits(g, n), NEW b \in 0 .. n, NEW a \in Nat
    PROVE  /\ g[b][a] \in Nat
           /\ b = 0 => g[b][a] = a
           /\ b # 0 => g[b][a] = g[Rest(a, b)][b]
BY Zenon DEF Fits

\* A remainder is less than the divisor.
LEMMA RemainderIsLess ==
    ASSUME NEW a \in Nat, NEW b \in Nat \ {0}
    PROVE  Rest(a, b) \in 0 .. b - 1
BY DEF Rest

\* There is such a table, up to every n.
LEMMA SomethingFits ==
    ASSUME NEW n \in Nat
    PROVE  \E g : Fits(g, n)
<1> DEFINE T == {k \in Nat : ~\E g : Fits(g, k)}
<1> SUFFICES ASSUME T # {} PROVE FALSE
  OBVIOUS
<1>1. PICK k \in T : \A m \in T : k <= m
  <2>1. T \in SUBSET Nat
    OBVIOUS
  <2> HIDE DEF T
  <2> QED
    BY <2>1, LeastNatural
<1>2. CASE k = 0
  <2> DEFINE g == [b \in 0 .. 0 |-> [a \in Nat |-> a]]
  <2>1. Fits(g, 0)
    BY DEF Fits
  <2> QED
    BY <1>2, <2>1
<1>3. CASE k # 0
  <2>1. k - 1 \in Nat /\ k - 1 \notin T
    BY <1>1, <1>3
  <2>2. PICK g : Fits(g, k - 1)
    BY <2>1
  <2> DEFINE h == [b \in 0 .. k |-> [a \in Nat |-> IF b < k THEN g[b][a] ELSE g[Rest(a, k)][k]]]
  <2>3. ASSUME NEW a \in Nat, NEW b \in 0 .. k
        PROVE  /\ h[b][a] \in Nat
               /\ b = 0 => h[b][a] = a
               /\ b # 0 => h[b][a] = h[Rest(a, b)][b]
    <3>1. h[b][a] = IF b < k THEN g[b][a] ELSE g[Rest(a, k)][k]
      OBVIOUS
    <3>2. CASE b = 0
      BY <1>3, <2>2, <3>1, <3>2, FitsAt
    <3>3. CASE b # 0
      <4>1. Rest(a, b) \in 0 .. b - 1
        BY <3>3, RemainderIsLess
      <4>2. h[Rest(a, b)][b] = g[Rest(a, b)][b]
        <5>1. \A r \in 0 .. b - 1 : h[r][b] = g[r][b]
          OBVIOUS
        <5> QED
          BY <4>1, <5>1
      <4>3. g[Rest(a, b)][b] \in Nat
        BY <2>2, <4>1, FitsAt
      <4>4. CASE b < k
        <5>0. b \in 0 .. k - 1
          BY <4>4
        <5>1. g[b][a] = g[Rest(a, b)][b]
          BY <2>2, <3>3, <5>0, FitsAt
        <5> QED
          BY <3>1, <3>3, <4>2, <4>3, <4>4, <5>1
      <4>5. CASE b = k
        BY <3>1, <3>3, <4>2, <4>3, <4>5
      <4> QED
        BY <4>4, <4>5
    <3> QED
      BY <3>2, <3>3
  <2> HIDE DEF h
  <2>4. Fits(h, k)
    BY <2>3, Zenon DEF Fits
  <2> QED
    BY <2>4
<1> QED
  BY <1>2, <1>3

\* Two such tables agree where both are defined.
LEMMA WhatFitsAgrees ==
    ASSUME NEW g, NEW h, NEW n \in Nat, NEW m \in Nat, Fits(g, n), Fits(h, m),
           NEW a \in Nat, NEW b \in 0 .. n, b <= m
    PROVE  g[b][a] = h[b][a]
<1> DEFINE T == {k \in 0 .. n : k <= m /\ \E c \in Nat : g[k][c] # h[k][c]}
<1> SUFFICES ASSUME T # {} PROVE FALSE
  OBVIOUS
<1>1. PICK k \in T : \A j \in T : k <= j
  <2>1. T \in SUBSET Nat
    OBVIOUS
  <2> HIDE DEF T
  <2> QED
    BY <2>1, LeastNatural
<1>2. PICK c \in Nat : g[k][c] # h[k][c]
  BY <1>1
<1>3. k # 0
  <2>1. k \in 0 .. n /\ k \in 0 .. m
    BY <1>1
  <2>2. k = 0 => g[k][c] = c /\ h[k][c] = c
    BY <2>1, FitsAt
  <2> QED
    BY <1>2, <2>2
<1>4. Rest(c, k) \in 0 .. k - 1
  <2>1. k \in Nat \ {0}
    BY <1>1, <1>3
  <2> QED
    BY <2>1, RemainderIsLess
<1>5. g[Rest(c, k)][k] = h[Rest(c, k)][k]
  <2>1. Rest(c, k) \notin T
    BY <1>1, <1>4
  <2> QED
    BY <1>1, <1>4, <2>1
<1>6. g[k][c] = g[Rest(c, k)][k] /\ h[k][c] = h[Rest(c, k)][k]
  <2>1. k \in 0 .. n /\ k \in 0 .. m
    BY <1>1
  <2>2. g[k][c] = g[Rest(c, k)][k]
    BY <1>3, <2>1, FitsAt
  <2>3. h[k][c] = h[Rest(c, k)][k]
    BY <1>3, <2>1, FitsAt
  <2> QED
    BY <2>2, <2>3
<1> QED
  BY <1>2, <1>5, <1>6

\* The recursive function is defined, and is what Euclid says.
LEMMA GCDIsDefined ==
    ASSUME NEW a \in Nat, NEW b \in Nat
    PROVE  GCD[<<a, b>>] = IF b = 0 THEN a ELSE GCD[<<b, Rest(a, b)>>]
<1> DEFINE fit(n) == CHOOSE g : Fits(g, n)
           G == [p \in Nat \X Nat |-> fit(p[2])[p[2]][p[1]]]
<1>1. \A n \in Nat : Fits(fit(n), n)
  BY SomethingFits
<1> HIDE DEF fit
<1>2. ASSUME NEW c \in Nat, NEW d \in Nat
      PROVE  /\ G[<<c, d>>] = fit(d)[d][c] /\ G[<<c, d>>] \in Nat
             /\ G[<<c, d>>] = IF d = 0 THEN c ELSE G[<<d, Rest(c, d)>>]
  <2>1. G[<<c, d>>] = fit(d)[d][c]
    OBVIOUS
  <2>2. CASE d = 0
    BY <1>1, <2>1, <2>2, FitsAt
  <2>3. CASE d # 0
    <3>1. Rest(c, d) \in 0 .. d - 1
      BY <2>3, RemainderIsLess
    <3>2. G[<<d, Rest(c, d)>>] = fit(Rest(c, d))[Rest(c, d)][d]
      BY <3>1
    <3>3. fit(d)[d][c] = fit(d)[Rest(c, d)][d] /\ fit(d)[d][c] \in Nat
      BY <1>1, <2>3, FitsAt
    <3>4. fit(Rest(c, d))[Rest(c, d)][d] = fit(d)[Rest(c, d)][d]
      BY <1>1, <3>1, WhatFitsAgrees
    <3> QED
      BY <2>1, <2>3, <3>2, <3>3, <3>4
  <2> QED
    BY <2>2, <2>3
<1>3. G = [p \in Nat \X Nat |-> IF p[2] = 0 THEN p[1] ELSE G[<<p[2], Rest(p[1], p[2])>>]]
  <2> DEFINE H == [p \in Nat \X Nat |-> IF p[2] = 0 THEN p[1] ELSE G[<<p[2], Rest(p[1], p[2])>>]]
  <2> HIDE DEF G
  <2>1. ASSUME NEW p \in Nat \X Nat
        PROVE  G[p] = H[p]
    <3>1. p = <<p[1], p[2]>> /\ p[1] \in Nat /\ p[2] \in Nat
      OBVIOUS
    <3>2. G[<<p[1], p[2]>>] = IF p[2] = 0 THEN p[1] ELSE G[<<p[2], Rest(p[1], p[2])>>]
      BY <1>2, <3>1
    <3> QED
      BY <3>1, <3>2
  <2>2. \A p \in Nat \X Nat : G[p] = H[p]
    BY <2>1
  <2>3. G = [p \in Nat \X Nat |-> G[p]]
    BY DEF G
  <2>4. [p \in Nat \X Nat |-> G[p]] = H
    BY <2>2
  <2> QED
    BY <2>3, <2>4
<1> HIDE DEF G
<1>4. GCD = [p \in Nat \X Nat |-> IF p[2] = 0 THEN p[1] ELSE GCD[<<p[2], Rest(p[1], p[2])>>]]
  BY <1>3, Zenon DEF GCD, Rest
<1>5. \A p \in Nat \X Nat : GCD[p] = IF p[2] = 0 THEN p[1] ELSE GCD[<<p[2], Rest(p[1], p[2])>>]
  BY <1>4, Zenon
<1>6. <<a, b>> \in Nat \X Nat /\ <<a, b>>[1] = a /\ <<a, b>>[2] = b
  OBVIOUS
<1> QED
  BY <1>5, <1>6, Zenon

\* A fact about the divisor of every two numbers holds if it holds of every number
\* and zero, and of a and b whenever it holds of b and the remainder.
LEMMA GCDInduction ==
    ASSUME NEW P,
           \A a \in Nat : <<a, 0, a>> \in P,
           \A a \in Nat, b \in Nat \ {0} :
              <<b, Rest(a, b), GCD[<<b, Rest(a, b)>>]>> \in P => <<a, b, GCD[<<b, Rest(a, b)>>]>> \in P,
           NEW a \in Nat, NEW b \in Nat
    PROVE  <<a, b, GCD[<<a, b>>]>> \in P
<1> DEFINE T == {k \in Nat : \E c \in Nat : <<c, k, GCD[<<c, k>>]>> \notin P}
<1> SUFFICES ASSUME T # {} PROVE FALSE
  OBVIOUS
<1>1. PICK k \in T : \A j \in T : k <= j
  <2>1. T \in SUBSET Nat
    OBVIOUS
  <2> HIDE DEF T
  <2> QED
    BY <2>1, LeastNatural
<1>2. PICK c \in Nat : <<c, k, GCD[<<c, k>>]>> \notin P
  BY <1>1
<1>3. k \in Nat /\ GCD[<<c, k>>] = IF k = 0 THEN c ELSE GCD[<<k, Rest(c, k)>>]
  BY <1>1, GCDIsDefined
<1>4. k # 0
  BY <1>2, <1>3
<1>5. Rest(c, k) \in 0 .. k - 1
  BY <1>3, <1>4, RemainderIsLess
<1>6. <<k, Rest(c, k), GCD[<<k, Rest(c, k)>>]>> \in P
  <2>1. ASSUME NEW m \in Nat, m \notin T, NEW d \in Nat
        PROVE  <<d, m, GCD[<<d, m>>]>> \in P
    BY <2>1
  <2>2. k \in Nat /\ Rest(c, k) \in Nat /\ ~(k <= Rest(c, k))
    BY <1>3, <1>5
  <2> HIDE DEF T
  <2>3. Rest(c, k) \notin T
    BY <1>1, <2>2
  <2> QED
    BY <2>1, <2>2, <2>3
<1>7. <<c, k, GCD[<<k, Rest(c, k)>>]>> \in P
  BY <1>3, <1>4, <1>6
<1> QED
  BY <1>2, <1>3, <1>4, <1>7

\* It divides both, and is positive unless both are zero.
LEMMA GCDDivides ==
    ASSUME NEW a \in Nat, NEW b \in Nat
    PROVE  /\ GCD[<<a, b>>] \in Nat
           /\ \E q \in Nat : a = q * GCD[<<a, b>>]
           /\ \E q \in Nat : b = q * GCD[<<a, b>>]
           /\ a > 0 \/ b > 0 => GCD[<<a, b>>] > 0
<1> DEFINE P == {t \in Nat \X Nat \X Nat :
                    /\ \E q \in Nat : t[1] = q * t[3]
                    /\ \E q \in Nat : t[2] = q * t[3]
                    /\ t[1] > 0 \/ t[2] > 0 => t[3] > 0}
<1>1. ASSUME NEW c \in Nat
      PROVE  <<c, 0, c>> \in P
  <2>1. c = 1 * c /\ 0 = 0 * c
    OBVIOUS
  <2> QED
    BY <2>1
<1>2. ASSUME NEW c \in Nat, NEW d \in Nat \ {0}, NEW g, <<d, Rest(c, d), g>> \in P
      PROVE  <<c, d, g>> \in P
  <2>1. g \in Nat /\ g > 0
    BY <1>2
  <2>2. PICK p \in Nat : d = p * g
    BY <1>2
  <2>3. PICK q \in Nat : Rest(c, d) = q * g
    BY <1>2
  <2>4. c = d * (c \div d) + Rest(c, d) /\ c \div d \in Nat
    BY DEF Rest
  <2>5. PICK m \in Nat : c = d * m + q * g
    BY <2>3, <2>4
  <2>6. c = (p * m + q) * g /\ p * m + q \in Nat
    BY <2>1, <2>2, <2>5
  <2> QED
    BY <2>1, <2>2, <2>6
<1> HIDE DEF P
<1>3. <<a, b, GCD[<<a, b>>]>> \in P
  BY <1>1, <1>2, GCDInduction
<1> QED
  BY <1>3 DEF P

-----------------------------------------------------------------------------
\* Fractions

Rationals == Int \X (Nat \ {0})
AtMost(a, b) == ~Less(b, a)

\* A positive factor keeps the order.
LEMMA TimesOrder ==
    ASSUME NEW x \in Int, NEW y \in Int, NEW k \in Nat \ {0}
    PROVE  /\ x < y <=> x * k < y * k
           /\ x <= y <=> x * k <= y * k
           /\ x = y <=> x * k = y * k
OBVIOUS

\* A multiple divides exactly.
LEMMA ExactQuotient ==
    ASSUME NEW n \in Int, NEW g \in Nat \ {0}
    PROVE  (n * g) \div g = n
OBVIOUS

\* A fraction that is reduced is the same fraction.
LEMMA ReducedIsTheSame ==
    ASSUME NEW r \in Rationals
    PROVE  /\ Reduced(r) \in Rationals
           /\ \E g \in Nat \ {0} : /\ r[1] = Reduced(r)[1] * g
                                   /\ r[2] = Reduced(r)[2] * g
<1> DEFINE g == GCD[<<Size(r[1]), r[2]>>]
<1>1. /\ r[1] \in Int /\ r[2] \in Nat /\ r[2] > 0
      /\ Size(r[1]) \in Nat /\ (r[1] = Size(r[1]) \/ r[1] = -Size(r[1]))
  BY DEF Rationals, Size
<1>2. g \in Nat \ {0}
  BY <1>1, GCDDivides
<1>3. PICK q \in Nat : r[2] = q * g
  BY <1>1, GCDDivides
<1>4. PICK p \in Nat : Size(r[1]) = p * g
  BY <1>1, GCDDivides
<1>5. Reduced(r) = <<r[1] \div g, r[2] \div g>>
  BY DEF Reduced
<1> HIDE DEF g
<1>6. PICK n \in Int : r[1] = n * g
  <2>1. -(p * g) = (-p) * g /\ -p \in Int
    BY <1>2
  <2> QED
    BY <1>1, <1>4, <2>1
<1>7. q # 0
  BY <1>1, <1>2, <1>3
<1>8. Reduced(r) = <<n, q>>
  BY <1>2, <1>3, <1>5, <1>6, ExactQuotient
<1> QED
  BY <1>2, <1>3, <1>6, <1>7, <1>8 DEF Rationals

\* Reducing changes no comparison.
LEMMA ReducedCompares ==
    ASSUME NEW r \in Rationals, NEW s \in Rationals
    PROVE  /\ Less(Reduced(r), s) <=> Less(r, s)
           /\ Less(s, Reduced(r)) <=> Less(s, r)
           /\ Reduced(r)[1] > 0 <=> r[1] > 0
<1>1. PICK g \in Nat \ {0} : r[1] = Reduced(r)[1] * g /\ r[2] = Reduced(r)[2] * g
  BY ReducedIsTheSame
<1>2. PICK n \in Int, d \in Nat \ {0} : n = Reduced(r)[1] /\ d = Reduced(r)[2]
  BY ReducedIsTheSame DEF Rationals
<1>3. PICK m \in Int, e \in Nat \ {0} : m = s[1] /\ e = s[2]
  BY DEF Rationals
<1>4. /\ n * e < m * d <=> (n * e) * g < (m * d) * g
      /\ m * d < n * e <=> (m * d) * g < (n * e) * g
      /\ 0 < n <=> 0 * g < n * g
  BY TimesOrder
<1>5. /\ (n * e) * g = (n * g) * e
      /\ (m * d) * g = m * (d * g)
      /\ 0 * g = 0
  OBVIOUS
<1> QED
  BY <1>1, <1>2, <1>3, <1>4, <1>5 DEF Less

\* The order of fractions is transitive, strictly when one step is strict.
LEMMA AtMostTransitive ==
    ASSUME NEW a \in Rationals, NEW b \in Rationals, NEW c \in Rationals,
           AtMost(a, b), AtMost(b, c)
    PROVE  /\ AtMost(a, c)
           /\ Less(a, b) \/ Less(b, c) => Less(a, c)
<1>1. PICK a1 \in Int, a2 \in Nat \ {0} : a1 = a[1] /\ a2 = a[2]
  BY DEF Rationals
<1>2. PICK b1 \in Int, b2 \in Nat \ {0} : b1 = b[1] /\ b2 = b[2]
  BY DEF Rationals
<1>3. PICK c1 \in Int, c2 \in Nat \ {0} : c1 = c[1] /\ c2 = c[2]
  BY DEF Rationals
<1>4. a1 * b2 <= b1 * a2 /\ b1 * c2 <= c1 * b2
  BY <1>1, <1>2, <1>3 DEF AtMost, Less
<1>5. (a1 * b2) * c2 <= (b1 * a2) * c2 /\ (b1 * c2) * a2 <= (c1 * b2) * a2
  BY <1>4, TimesOrder
<1>6. /\ (a1 * b2) * c2 = (a1 * c2) * b2
      /\ (b1 * a2) * c2 = (b1 * c2) * a2
      /\ (c1 * b2) * a2 = (c1 * a2) * b2
  OBVIOUS
<1>7. a1 * c2 <= c1 * a2
  <2>1. (a1 * c2) * b2 <= (c1 * a2) * b2
    BY <1>5, <1>6
  <2> QED
    BY <2>1, TimesOrder
<1>8. ASSUME a1 * b2 < b1 * a2 \/ b1 * c2 < c1 * b2
      PROVE  a1 * c2 < c1 * a2
  <2>1. (a1 * b2) * c2 < (b1 * a2) * c2 \/ (b1 * c2) * a2 < (c1 * b2) * a2
    BY <1>8, TimesOrder
  <2>2. (a1 * c2) * b2 < (c1 * a2) * b2
    BY <1>5, <1>6, <2>1
  <2> QED
    BY <2>2, TimesOrder
<1> QED
  BY <1>1, <1>2, <1>3, <1>7, <1>8 DEF AtMost, Less

-----------------------------------------------------------------------------
\* Totals of fractions

\* A sum of fractions is one.
LEMMA PlusIsRational ==
    ASSUME NEW a \in Rationals, NEW b \in Rationals
    PROVE  Plus(a, b) \in Rationals
<1>1. <<a[1] * b[2] + b[1] * a[2], a[2] * b[2]>> \in Rationals
  BY DEF Rationals
<1> QED
  BY <1>1, ReducedIsTheSame DEF Plus

\* The totals of the parts of a sum of fractions.
PartTotals(f) == CHOOSE g : g =
    [s \in SUBSET DOMAIN f |-> IF s = {} THEN Zero ELSE Plus(g[s \ {Chosen(s)}], f[Chosen(s)])]

\* The fold of the model is the total over the whole domain.
LEMMA PartTotalsAreTheFold ==
    ASSUME NEW f
    PROVE  FoldFunction(LAMBDA v, sum : Plus(sum, v), Zero, f) = PartTotals(f)[DOMAIN f]
BY DEF FoldFunction, FoldFunctionOnSet, MapThenFoldSet, PartTotals, Chosen

\* The totals over the parts of a domain, one element at a time.
LEMMA PartTotalsAreDefined ==
    ASSUME NEW D, IsFiniteSet(D), NEW f \in [D -> Rationals]
    PROVE  /\ PartTotals(f)[{}] = Zero
           /\ PartTotals(f)[D] \in Rationals
           /\ \A s \in SUBSET D :
                 /\ PartTotals(f)[s] \in Rationals
                 /\ s # {} => /\ Chosen(s) \in s /\ s \ {Chosen(s)} \in SUBSET D
                              /\ PartTotals(f)[s] = Plus(PartTotals(f)[s \ {Chosen(s)}], f[Chosen(s)])
<1> DEFINE H == [s \in SUBSET D |->
                    [v \in Rationals |-> IF s = {} THEN v ELSE Plus(v, f[Chosen(s)])]]
<1>1. \A s : s # {} => Chosen(s) \in s
  BY DEF Chosen
<1>2. \A s \in SUBSET D : s # {} => f[Chosen(s)] \in Rationals
  BY <1>1
<1>3. \A s \in SUBSET D : \A v \in Rationals : H[s][v] \in Rationals
  BY <1>2, PlusIsRational
<1>4. \A s \in SUBSET D : \A v \in Rationals : s # {} => H[s][v] = Plus(v, f[Chosen(s)])
  OBVIOUS
<1>5. Zero \in Rationals
  BY DEF Zero, Rationals
<1> HIDE DEF H
<1>6. PICK g : IsTally(g, D, Rationals, Zero, H)
  BY <1>3, <1>5, FoldExists
<1> DEFINE G == [s \in SUBSET D |->
                    IF s = {} THEN Zero ELSE Plus(g[s \ {Chosen(s)}], f[Chosen(s)])]
<1>7. g = G
  <2>1. \A s \in SUBSET D : s # {} =>
           H[s][g[s \ {Chosen(s)}]] = Plus(g[s \ {Chosen(s)}], f[Chosen(s)])
    BY <1>4, <1>6 DEF IsTally
  <2>2. g = [s \in SUBSET D |-> IF s = {} THEN Zero ELSE H[s][g[s \ {Chosen(s)}]]]
    BY <1>6 DEF IsTally
  <2>3. [s \in SUBSET D |-> IF s = {} THEN Zero ELSE H[s][g[s \ {Chosen(s)}]]] = G
    BY <2>1
  <2> QED
    BY <2>2, <2>3
<1>8. DOMAIN f = D
  OBVIOUS
<1> DEFINE N == PartTotals(f)
<1>9. N = [s \in SUBSET D |->
              IF s = {} THEN Zero ELSE Plus(N[s \ {Chosen(s)}], f[Chosen(s)])]
  BY <1>7, <1>8, Zenon DEF PartTotals
<1> HIDE DEF N
<1>10. \A s \in SUBSET D :
          N[s] = IF s = {} THEN Zero ELSE Plus(N[s \ {Chosen(s)}], f[Chosen(s)])
  BY <1>9, Zenon
<1> DEFINE P == {s \in SUBSET D : N[s] \in Rationals}
<1>11. {} \in P
  BY <1>5, <1>10
<1>12. ASSUME NEW s \in SUBSET D, s # {}, s \ {Chosen(s)} \in P
       PROVE  s \in P
  <2>1. f[Chosen(s)] \in Rationals /\ N[s \ {Chosen(s)}] \in Rationals
    BY <1>2, <1>12
  <2>2. N[s] = Plus(N[s \ {Chosen(s)}], f[Chosen(s)])
    BY <1>10, <1>12
  <2>3. N[s] \in Rationals
    BY <2>1, <2>2, PlusIsRational
  <2> QED
    BY <2>3
<1> HIDE DEF P
<1>13. SUBSET D \subseteq P
  BY <1>11, <1>12, ChosenInduction
<1>14. \A s \in SUBSET D : N[s] \in Rationals
  BY <1>13 DEF P
<1> QED
  BY <1>1, <1>10, <1>14 DEF N

-----------------------------------------------------------------------------
\* Records and their cells

RawRecords == [cell : Cells, variant : Variants, repeat : Nat, status : STRING,
            root : Nat \ {0}, memory : Int, drift : Int]

\* What the harness writes: finitely many records of declared cells.
Recorded(records) == IsFiniteSet(records) /\ records \subseteq RawRecords

\* A group of records is a set of records.
LEMMA GroupsAreRecorded ==
    ASSUME NEW records, Recorded(records), NEW c, NEW v
    PROVE  Recorded(Group(records, c, v))
BY FS_Subset DEF Recorded, Group

\* The repeats of an arm are finitely many, and name its records.
LEMMA RepeatsAreFinite ==
    ASSUME NEW arm, Recorded(arm)
    PROVE  /\ IsFiniteSet(RepeatsOf(arm)) /\ RepeatsOf(arm) \subseteq Nat
           /\ Cardinality(RepeatsOf(arm)) <= Cardinality(arm)
           /\ Sampled(arm) => \A r, s \in arm : r.repeat = s.repeat => r = s
<1> DEFINE f == [r \in arm |-> r.repeat]
<1>1. f \in Surjection(arm, RepeatsOf(arm))
  BY DEF Surjection, RepeatsOf
<1>2. IsFiniteSet(arm)
  BY DEF Recorded
<1>3. /\ IsFiniteSet(RepeatsOf(arm)) /\ Cardinality(RepeatsOf(arm)) <= Cardinality(arm)
      /\ Cardinality(RepeatsOf(arm)) = Cardinality(arm) <=> f \in Injection(arm, RepeatsOf(arm))
  BY <1>1, <1>2, FS_Surjection
<1>4. RepeatsOf(arm) \subseteq Nat
  BY DEF RepeatsOf, Recorded, RawRecords
<1>5. ASSUME Sampled(arm)
      PROVE  \A r, s \in arm : r.repeat = s.repeat => r = s
  <2>1. f \in Injection(arm, RepeatsOf(arm))
    BY <1>3, <1>5 DEF Sampled
  <2> QED
    BY <2>1 DEF Injection, IsInjective
<1> QED
  BY <1>3, <1>4, <1>5

\* Every repeat of an arm has a time, that of one of its records.
LEMMA RootIsPositive ==
    ASSUME NEW arm, Recorded(arm), NEW k \in RepeatsOf(arm)
    PROVE  /\ Root(arm, k) \in Nat \ {0}
           /\ \E r \in arm : r.repeat = k /\ Root(arm, k) = r.root
<1>1. PICK r \in arm : r.repeat = k
  BY DEF RepeatsOf
<1>2. (CHOOSE s \in arm : s.repeat = k) \in arm /\ (CHOOSE s \in arm : s.repeat = k).repeat = k
  BY <1>1
<1> QED
  BY <1>2 DEF Root, Recorded, RawRecords

\* The product of the times drawn is positive.
LEMMA GeomeanIsPositive ==
    ASSUME NEW arm, Recorded(arm), NEW D, IsFiniteSet(D), NEW draw \in [D -> RepeatsOf(arm)]
    PROVE  Geomean(arm, draw) \in Nat \ {0}
<1> DEFINE f == [i \in D |-> Root(arm, draw[i])]
<1>1. f \in [D -> Nat \ {0}]
  BY RootIsPositive
<1>2. Geomean(arm, draw) = PartProducts(f)[D]
  BY PartProductsAreTheFold DEF Geomean
<1> HIDE DEF f
<1> QED
  BY <1>1, <1>2, PartProductsAreDefined

\* Both arms over the repeats they were measured in.
LEMMA IdentityIsADraw ==
    ASSUME NEW base, NEW cand, Recorded(base), Recorded(cand), RepeatsOf(base) = RepeatsOf(cand)
    PROVE  /\ Identity(base) \in [RepeatsOf(base) -> RepeatsOf(base)]
           /\ Geomean(base, Identity(base)) \in Nat \ {0}
           /\ Geomean(cand, Identity(base)) \in Nat \ {0}
           /\ Identity(cand) = Identity(base)
<1>1. Identity(base) \in [RepeatsOf(base) -> RepeatsOf(base)] /\ Identity(cand) = Identity(base)
  BY DEF Identity
<1> QED
  BY <1>1, RepeatsAreFinite, GeomeanIsPositive

\* What a cell is declared with.
LEMMA CellIsDeclared ==
    ASSUME NEW c \in Cells
    PROVE  /\ Cell[c].weight \in Nat \ {0}
           /\ Cell[c].achieved[1] \in Nat \ {0} /\ Cell[c].achieved[2] \in Nat \ {0}
           /\ Cell[c].floor[1] \in Nat \ {0} /\ Cell[c].floor[2] \in Nat \ {0}
           /\ Cell[c].achieved[1] < Cell[c].achieved[2] /\ Cell[c].floor[1] < Cell[c].floor[2]
BY CellsAssumption

\* A product of positive numbers is positive.
LEMMA ProductIsPositive ==
    ASSUME NEW a \in Nat \ {0}, NEW b \in Nat \ {0}
    PROVE  a * b \in Nat \ {0}
OBVIOUS

\* The floor of a cell is a positive share of its gap.
LEMMA FloorIsPositive ==
    ASSUME NEW c \in Cells
    PROVE  FloorGap(c) \in Rationals /\ FloorGap(c)[1] > 0
<1> DEFINE a == Cell[c].achieved
           f == Cell[c].floor
           r == <<a[1] * f[1], (f[2] - f[1]) * (a[2] - a[1])>>
<1>1. /\ a[1] * f[1] \in Nat \ {0}
      /\ f[2] - f[1] \in Nat \ {0} /\ a[2] - a[1] \in Nat \ {0}
  BY CellIsDeclared, ProductIsPositive
<1>2. (f[2] - f[1]) * (a[2] - a[1]) \in Nat \ {0}
  BY <1>1, ProductIsPositive
<1>3. r \in Rationals /\ r[1] > 0
  BY <1>1, <1>2 DEF Rationals
<1>4. Reduced(r) \in Rationals /\ Reduced(r)[1] > 0
  BY <1>3, ReducedIsTheSame, ReducedCompares
<1>5. <<1, 1>> \in Rationals
  BY DEF Rationals
<1> QED
  BY <1>4, <1>5 DEF FloorGap, FloorAsGap

\* A gap in the bracket of the card that ran.
LEMMA GapIsRational ==
    ASSUME NEW c \in Cells, NEW run \in Nat \ {0}, NEW b \in Nat \ {0}, NEW t \in Nat \ {0}
    PROVE  Gap(RunCeiling(c, run), b, t) \in Rationals
<1> DEFINE ceiling == RunCeiling(c, run)
           remaining == ceiling[2] * b - ceiling[1]
<1>1. ceiling[1] \in Nat /\ ceiling[2] \in Nat
  BY CellIsDeclared DEF RunCeiling
<1>2. remaining \in Int
  BY <1>1
<1>3. Zero \in Rationals
  BY DEF Zero, Rationals
<1>4. ASSUME ~(remaining <= 0)
      PROVE  Reduced(<<ceiling[1] * (b - t), t * remaining>>) \in Rationals
  <2>1. t * remaining \in Nat \ {0} /\ ceiling[1] * (b - t) \in Int
    BY <1>1, <1>2, <1>4, ProductIsPositive
  <2> QED
    BY <2>1, ReducedIsTheSame DEF Rationals
<1> QED
  BY <1>3, <1>4 DEF Gap

-----------------------------------------------------------------------------
\* The score of a cell, and of a run

\* The samples of a cell that can be scored.
Samples(c, base, cand) ==
    c \in Cells /\ Recorded(base) /\ Recorded(cand) /\ Scorable(c, base, cand)

\* A cell is scored with fractions.
LEMMA CellScoreIsRational ==
    ASSUME NEW c, NEW base, NEW cand, Samples(c, base, cand)
    PROVE  /\ ScoreCell(c, base, cand).gap \in Rationals
           /\ ScoreCell(c, base, cand).credited \in Rationals
<1> DEFINE b == Geomean(base, Identity(base))
           t == Geomean(cand, Identity(cand))
<1>1. b \in Nat \ {0} /\ t \in Nat \ {0}
  BY IdentityIsADraw DEF Samples, Scorable, Paired
<1>2. Gap(RunCeiling(c, b), b, t) \in Rationals
  BY <1>1, GapIsRational DEF Samples
<1>3. Zero \in Rationals
  BY DEF Zero, Rationals
<1> QED
  BY <1>2, <1>3 DEF ScoreCell

\* A weighted sum over cells is the total of its parts.
LEMMA TotalOfParts ==
    ASSUME NEW D \in SUBSET Cells, IsFiniteSet(D), NEW value \in [D -> Rationals]
    PROVE  /\ Weighted(value) \in [D -> Rationals]
           /\ Total(value) = PartTotals(Weighted(value))[D]
           /\ Total(value) \in Rationals
<1>1. \A c \in D : <<value[c][1] * Cell[c].weight, value[c][2]>> \in Rationals
  BY CellIsDeclared DEF Rationals
<1>2. Weighted(value) \in [D -> Rationals]
  BY <1>1 DEF Weighted
<1>3. Total(value) = PartTotals(Weighted(value))[D]
  BY <1>2, PartTotalsAreTheFold DEF Total
<1> QED
  BY <1>2, <1>3, PartTotalsAreDefined

\* The cells that are scored weigh something.
LEMMA WeightIsPositive ==
    ASSUME NEW D \in SUBSET Cells, IsFiniteSet(D), D # {}
    PROVE  WeightOf(D) \in Nat /\ WeightOf(D) > 0
<1> DEFINE w == [c \in D |-> Cell[c].weight]
           P == {s \in SUBSET D : s # {} => PartSums(w)[s] > 0}
<1>1. Terms(w, D) /\ \A c \in D : w[c] \in Nat \ {0}
  BY CellIsDeclared DEF Terms
<1>2. SumFunction(w) = WeightOf(D)
  BY DEF WeightOf
<1> HIDE DEF w
<1>3. {} \in P
  OBVIOUS
<1>4. ASSUME NEW s \in SUBSET D, s # {}, s \ {Chosen(s)} \in P
      PROVE  s \in P
  <2> DEFINE c == Chosen(s)
             rest == s \ {c}
  <2>1. c \in s /\ rest \in SUBSET D /\ (rest # {} => PartSums(w)[rest] > 0)
    BY <1>4, ChosenIsOne
  <2> HIDE DEF P, rest, c
  <2>2. PartSums(w)[s] = w[c] + PartSums(w)[rest]
    BY <1>1, <2>1, AnyIsAdded DEF rest
  <2>3. PartSums(w)[rest] \in Int
    BY <1>1, <2>1, PartSumsStep
  <2>4. rest = {} => PartSums(w)[rest] = 0
    BY <1>1, <2>1, PartSumsStep
  <2>5. w[c] \in Nat \ {0}
    BY <1>1, <2>1
  <2>6. PartSums(w)[s] > 0
    BY <2>1, <2>2, <2>3, <2>4, <2>5
  <2> QED
    BY <2>6 DEF P
<1> HIDE DEF P
<1>5. SUBSET D \subseteq P
  BY <1>3, <1>4, ChosenInduction
<1>6. PartSums(w)[D] > 0
  BY <1>5 DEF P
<1>7. SumFunction(w) \in Int
  BY <1>1, SumIsDefined
<1>8. SumFunction(w) = PartSums(w)[D]
  BY <1>1, SumIsPartSum
<1> QED
  BY <1>2, <1>6, <1>7, <1>8

\* The cells of a run that can be scored.
Scored(records) ==
    /\ Recorded(records) /\ records # {}
    /\ \A c \in ScoredCells(records) :
          Scorable(c, Group(records, c, "base"), Group(records, c, "candidate"))

\* Every cell with a record is scored, and can be.
LEMMA CellsAreScored ==
    ASSUME NEW records, Scored(records)
    PROVE  /\ ScoredCells(records) \in SUBSET Cells /\ IsFiniteSet(ScoredCells(records))
           /\ ScoredCells(records) # {} /\ DOMAIN PerCell(records) = ScoredCells(records)
           /\ \A c \in ScoredCells(records) :
                 Samples(c, Group(records, c, "base"), Group(records, c, "candidate"))
<1> DEFINE f == [r \in records |-> r.cell]
<1>1. f \in Surjection(records, ScoredCells(records))
  BY DEF Surjection, ScoredCells
<1>2. IsFiniteSet(ScoredCells(records))
  BY <1>1, FS_Surjection DEF Scored, Recorded
<1>3. ScoredCells(records) \in SUBSET Cells /\ ScoredCells(records) # {}
  BY DEF ScoredCells, Scored, Recorded, RawRecords
<1>4. \A c \in ScoredCells(records) :
        Samples(c, Group(records, c, "base"), Group(records, c, "candidate"))
  BY <1>3, GroupsAreRecorded DEF Scored, Samples
<1> QED
  BY <1>2, <1>3, <1>4 DEF PerCell

\* The gap of a run is a fraction.
LEMMA GapOfTheRunIsRational ==
    ASSUME NEW records, Scored(records)
    PROVE  /\ Aggregate(PerCell(records)).gap \in Rationals
           /\ [c \in ScoredCells(records) |-> PerCell(records)[c].credited]
                 \in [ScoredCells(records) -> Rationals]
<1> DEFINE D == ScoredCells(records)
           value == [c \in D |-> PerCell(records)[c].credited]
<1>1. value \in [D -> Rationals]
  BY CellsAreScored, CellScoreIsRational DEF PerCell
<1>2. Total(value) \in Rationals
  BY <1>1, CellsAreScored, TotalOfParts
<1>3. WeightOf(D) \in Nat \ {0}
  <2>1. D \in SUBSET Cells /\ IsFiniteSet(D) /\ D # {}
    BY CellsAreScored
  <2> HIDE DEF D
  <2>2. WeightOf(D) \in Nat /\ WeightOf(D) > 0
    BY <2>1, WeightIsPositive
  <2> QED
    BY <2>2
<1>4. <<Total(value)[1], Total(value)[2] * WeightOf(D)>> \in Rationals
  BY <1>2, <1>3, ProductIsPositive DEF Rationals
<1>5. Aggregate(PerCell(records)).gap = Reduced(<<Total(value)[1], Total(value)[2] * WeightOf(D)>>)
  BY CellsAreScored DEF Aggregate
<1> QED
  BY <1>1, <1>4, <1>5, ReducedIsTheSame

\* A receipt credits a share of the gap, and never a negative one.
LEMMA CreditIsNotNegative ==
    ASSUME NEW raw, Recorded(raw.records), NEW partial \in BOOLEAN
    PROVE  /\ Score(raw, partial).credited \in Rationals
           /\ AtMost(Zero, Score(raw, partial).credited)
           /\ Score(raw, partial).credited # Zero => Less(Zero, Score(raw, partial).credited)
<1>1. Zero \in Rationals /\ AtMost(Zero, Zero)
  BY DEF Zero, Rationals, AtMost, Less
<1>2. ASSUME Score(raw, partial).credited # Zero
      PROVE  /\ Score(raw, partial).credited \in Rationals
             /\ Less(Zero, Score(raw, partial).credited)
  <2>1. /\ Scored(raw.records)
        /\ Score(raw, partial) = BuildReceipt(raw)
    BY <1>2 DEF Score, Refused, Computable, Scored
  <2> DEFINE gap == Aggregate(PerCell(raw.records)).gap
  <2>2. /\ Score(raw, partial).credited = gap
        /\ BuildReceipt(raw).status = "FRONTIER_EXPANDED"
    BY <1>2, <2>1 DEF BuildReceipt, CreditingStatuses
  <2>3. gap[1] > 0
    BY <2>2 DEF BuildReceipt, DecideStatus
  <2>4. gap \in Rationals
    BY <2>1, GapOfTheRunIsRational
  <2>5. Less(Zero, gap)
    BY <2>3, <2>4 DEF Less, Zero, Rationals
  <2> QED
    BY <2>2, <2>4, <2>5
<1>3. \A r \in Rationals : Less(Zero, r) => AtMost(Zero, r)
  BY DEF Less, AtMost, Zero, Rationals
<1> QED
  BY <1>1, <1>2, <1>3

-----------------------------------------------------------------------------
\* A cell whose candidate is the base

Copy(base) == {[r EXCEPT !.variant = "candidate"] : r \in base}
Copied(records, c) ==
    {r \in records : r.cell # c \/ r.variant = "base"} \cup Copy(Group(records, c, "base"))

\* An arm that is copied is sampled as it was, and as fast.
LEMMA CopyIsSampled ==
    ASSUME NEW base, Recorded(base), \A r \in base : r.variant = "base"
    PROVE  /\ Recorded(Copy(base)) /\ RepeatsOf(Copy(base)) = RepeatsOf(base)
           /\ base # {} => Copy(base) # {}
           /\ Sampled(base) =>
                /\ Sampled(Copy(base))
                /\ \A k \in RepeatsOf(base) : Root(Copy(base), k) = Root(base, k)
<1> DEFINE copy(r) == [r EXCEPT !.variant = "candidate"]
           f == [r \in base |-> copy(r)]
<1>1. ASSUME NEW r \in base
      PROVE  /\ copy(r) \in RawRecords /\ copy(r).repeat = r.repeat /\ copy(r).root = r.root
             /\ copy(r).status = r.status /\ r = [copy(r) EXCEPT !.variant = "base"]
  <2>1. r \in RawRecords
    BY DEF Recorded
  <2>2. r.variant = "base"
    OBVIOUS
  <2> QED
    BY <2>1, <2>2 DEF RawRecords, Variants
<1> HIDE DEF copy
<1>2. f \in Surjection(base, Copy(base)) /\ f \in Injection(base, Copy(base))
  <2>1. \A r, s \in base : copy(r) = copy(s) => r = s
    BY <1>1
  <2>2. Copy(base) = {copy(r) : r \in base}
    BY DEF Copy, copy
  <2> QED
    BY <2>1, <2>2 DEF Surjection, Injection, IsInjective
<1>3. IsFiniteSet(Copy(base)) /\ Cardinality(Copy(base)) = Cardinality(base)
  BY <1>2, FS_Surjection DEF Recorded
<1>4. Copy(base) = {copy(r) : r \in base}
  BY DEF Copy, copy
<1>5. Recorded(Copy(base))
  BY <1>1, <1>3, <1>4 DEF Recorded
<1>6. RepeatsOf(Copy(base)) = RepeatsOf(base)
  BY <1>1, <1>4 DEF RepeatsOf
<1>7. ASSUME Sampled(base)
      PROVE  Sampled(Copy(base))
  BY <1>1, <1>3, <1>4, <1>6, <1>7 DEF Sampled
<1>8. ASSUME Sampled(base), NEW k \in RepeatsOf(base)
      PROVE  Root(Copy(base), k) = Root(base, k)
  <2>1. PICK r \in base : r.repeat = k /\ Root(base, k) = r.root
    BY RootIsPositive
  <2>2. PICK s \in Copy(base) : s.repeat = k /\ Root(Copy(base), k) = s.root
    BY <1>5, <1>6, RootIsPositive
  <2>3. copy(r) \in Copy(base) /\ copy(r).repeat = k
    BY <1>1, <1>4, <2>1
  <2>4. s = copy(r)
    BY <1>5, <1>7, <1>8, <2>2, <2>3, RepeatsAreFinite
  <2> QED
    BY <1>1, <2>1, <2>2, <2>4
<1> QED
  BY <1>4, <1>5, <1>6, <1>7, <1>8

\* The base itself, filed as the candidate, has the same times.
LEMMA CopyIsAsFast ==
    ASSUME NEW base, Recorded(base), \A r \in base : r.variant = "base", Sampled(base),
           NEW D, NEW d \in [D -> RepeatsOf(base)]
    PROVE  Geomean(Copy(base), d) = Geomean(base, d)
<1>1. \A i \in DOMAIN d : Root(Copy(base), d[i]) = Root(base, d[i])
  BY CopyIsSampled
<1>2. [i \in DOMAIN d |-> Root(Copy(base), d[i])] = [i \in DOMAIN d |-> Root(base, d[i])]
  BY <1>1
<1> QED
  BY <1>2 DEF Geomean

\* Zero leaves no remainder.
LEMMA RemainderOfZero ==
    ASSUME NEW n \in Nat \ {0}
    PROVE  Rest(0, n) = 0
BY DEF Rest

\* A fraction of numerator zero is Zero.
LEMMA ReducedZero ==
    ASSUME NEW n \in Nat \ {0}
    PROVE  Reduced(<<0, n>>) = Zero
<1>1. Rest(0, n) = 0
  BY RemainderOfZero
<1>2. GCD[<<0, n>>] = n
  <2>1. GCD[<<0, n>>] = GCD[<<n, Rest(0, n)>>] /\ GCD[<<n, 0>>] = n
    BY GCDIsDefined
  <2> QED
    BY <1>1, <2>1
<1>3. Size(0) = 0 /\ 0 \div n = 0 /\ n \div n = 1
  BY ExactQuotient DEF Size
<1> QED
  BY <1>2, <1>3 DEF Reduced, Zero

\* As fast as the base is no gap closed.
LEMMA NoGapIsZero ==
    ASSUME NEW c \in Cells, NEW run \in Nat \ {0}, NEW b \in Nat \ {0}
    PROVE  Gap(RunCeiling(c, run), b, b) = Zero
<1> DEFINE ceiling == RunCeiling(c, run)
           remaining == ceiling[2] * b - ceiling[1]
<1>1. ceiling[1] \in Nat /\ ceiling[2] \in Nat
  BY CellIsDeclared DEF RunCeiling
<1>2. remaining \in Int
  BY <1>1
<1>3. ASSUME ~(remaining <= 0)
      PROVE  Reduced(<<ceiling[1] * (b - b), b * remaining>>) = Zero
  <2>1. b * remaining \in Nat \ {0} /\ ceiling[1] * (b - b) = 0
    BY <1>1, <1>2, <1>3, ProductIsPositive
  <2> QED
    BY <2>1, ReducedZero
<1> QED
  BY <1>3 DEF Gap

\* A copy of a cell that can be scored can be scored, and does not resolve.
LEMMA CopyDoesNotResolve ==
    ASSUME NEW c, NEW base, NEW cand, Samples(c, base, cand), \A r \in base : r.variant = "base"
    PROVE  /\ Samples(c, base, Copy(base))
           /\ ScoreCell(c, base, Copy(base)).resolved = FALSE
           /\ ScoreCell(c, base, Copy(base)).credited = Zero
<1> DEFINE b == Geomean(base, Identity(base))
<1>1. /\ c \in Cells /\ Recorded(base) /\ Sampled(base) /\ base # {}
      /\ Cardinality(RepeatsOf(base)) >= Repeats
  BY DEF Samples, Scorable, Paired
<1>2. /\ Recorded(Copy(base)) /\ RepeatsOf(Copy(base)) = RepeatsOf(base)
      /\ Copy(base) # {} /\ Sampled(Copy(base))
  BY <1>1, CopyIsSampled
<1>3. /\ b \in Nat \ {0} /\ Identity(base) \in [RepeatsOf(base) -> RepeatsOf(base)]
      /\ Identity(Copy(base)) = Identity(base)
  BY <1>1, <1>2, IdentityIsADraw
<1>4. Geomean(Copy(base), Identity(Copy(base))) = b
  BY <1>1, <1>3, CopyIsAsFast
<1>5. Paired(base, Copy(base))
  BY <1>1, <1>2 DEF Paired
<1>6. AboveTheCeiling(c, base, Copy(base))
  <2>1. Cell[c].achieved[2] * b > Cell[c].achieved[1] * b
    BY <1>1, <1>3, CellIsDeclared, TimesOrder
  <2> QED
    BY <1>4, <2>1 DEF AboveTheCeiling, RunCeiling
<1>7. Samples(c, base, Copy(base))
  BY <1>2, <1>5, <1>6 DEF Samples, Scorable
<1>8. \A d \in Draws(base) :
        Gap(RunCeiling(c, b), Geomean(base, d), Geomean(Copy(base), d)) = Zero
  <2> SUFFICES ASSUME NEW d \in [1 .. Repeats -> RepeatsOf(base)]
               PROVE  Gap(RunCeiling(c, b), Geomean(base, d), Geomean(Copy(base), d)) = Zero
    BY DEF Draws
  <2>1. Geomean(Copy(base), d) = Geomean(base, d)
    BY <1>1, CopyIsAsFast
  <2>2. Repeats \in Int /\ IsFiniteSet(1 .. Repeats)
    BY CellsAssumption, FS_Interval
  <2>3. Geomean(base, d) \in Nat \ {0}
    BY <1>1, <2>2, GeomeanIsPositive
  <2> QED
    BY <1>1, <1>3, <2>1, <2>3, NoGapIsZero
<1>9. \E d : d \in Draws(base)
  <2>1. PICK k : k \in RepeatsOf(base)
    BY <1>1 DEF RepeatsOf
  <2>2. [i \in 1 .. Repeats |-> k] \in Draws(base)
    BY <2>1 DEF Draws
  <2> QED
    BY <2>2
<1>10. Resampled(c, base, Copy(base)) = {Zero}
  BY <1>8, <1>9 DEF Resampled
<1>11. /\ Least(Resampled(c, base, Copy(base))) = Zero
       /\ Greatest(Resampled(c, base, Copy(base))) = Zero
  <2>1. ~Less(Zero, Zero)
    BY DEF Less, Zero
  <2> QED
    BY <1>10, <2>1 DEF Least, Greatest
<1>12. ~Resolves(c, Zero, Zero)
  <2>1. FloorGap(c) \in Rationals /\ FloorGap(c)[1] > 0
    BY <1>1, FloorIsPositive
  <2>2. ~Less(FloorGap(c), Zero) /\ ~Less(Zero, Minus(FloorGap(c)))
    BY <2>1 DEF Less, Zero, Minus, Rationals
  <2> QED
    BY <2>2 DEF Resolves
<1> QED
  BY <1>7, <1>11, <1>12 DEF ScoreCell

\* The run with one cell's candidate replaced by its base.
LEMMA CopiedGroups ==
    ASSUME NEW records, Recorded(records), NEW c,
           Group(records, c, "base") # {}
    PROVE  /\ Recorded(Copied(records, c))
           /\ ScoredCells(Copied(records, c)) = ScoredCells(records)
           /\ \A k \in Cells \ {c}, v \in Variants :
                 Group(Copied(records, c), k, v) = Group(records, k, v)
           /\ Group(Copied(records, c), c, "base") = Group(records, c, "base")
           /\ Group(Copied(records, c), c, "candidate") = Copy(Group(records, c, "base"))
<1> DEFINE base == Group(records, c, "base")
           kept == {r \in records : r.cell # c \/ r.variant = "base"}
<1>1. /\ Recorded(base) /\ Recorded(kept) /\ \A r \in base : r.variant = "base" /\ r.cell = c
  BY FS_Subset DEF Recorded, Group
<1>2. Recorded(Copy(base))
  BY <1>1, CopyIsSampled
<1>3. ASSUME NEW r \in Copy(base)
      PROVE  r.cell = c /\ r.variant = "candidate" /\ r \in RawRecords
  BY <1>1, <1>2 DEF Copy, Recorded, RawRecords, Variants
<1>4. Copied(records, c) = kept \cup Copy(base)
  BY DEF Copied
<1>5. Recorded(Copied(records, c))
  BY <1>1, <1>2, <1>4, FS_Union DEF Recorded
<1>6. ScoredCells(Copied(records, c)) = ScoredCells(records)
  <2>1. PICK r \in base : TRUE
    OBVIOUS
  <2>2. r \in records /\ r \in kept /\ r.cell = c
    BY <2>1 DEF Group
  <2>3. \A k : (\E s \in Copied(records, c) : s.cell = k) <=> (\E s \in records : s.cell = k)
    BY <1>3, <1>4, <2>2
  <2> QED
    BY <2>3 DEF ScoredCells
<1>7. \A k \in Cells \ {c}, v \in Variants :
         Group(Copied(records, c), k, v) = Group(records, k, v)
  BY <1>3, <1>4 DEF Group
<1>8. Group(Copied(records, c), c, "base") = base
  BY <1>1, <1>3, <1>4 DEF Group
<1>9. Group(Copied(records, c), c, "candidate") = Copy(base)
  BY <1>3, <1>4 DEF Group
<1> QED
  BY <1>5, <1>6, <1>7, <1>8, <1>9

\* A cell that did not resolve may as well have been left untouched.
LEMMA UnresolvedCountsForNothing ==
    ASSUME NEW records, Scored(records), NEW c \in ScoredCells(records),
           ~PerCell(records)[c].resolved
    PROVE  /\ Scored(Copied(records, c))
           /\ Aggregate(PerCell(Copied(records, c))) = Aggregate(PerCell(records))
<1> DEFINE other == Copied(records, c)
           D == ScoredCells(records)
           was == PerCell(records)
           is == PerCell(other)
<1>1. /\ D \in SUBSET Cells /\ c \in Cells
      /\ Samples(c, Group(records, c, "base"), Group(records, c, "candidate"))
  BY CellsAreScored
<1>2. Group(records, c, "base") # {} /\ Recorded(records)
  BY <1>1 DEF Samples, Scorable, Paired, Scored
<1>3. /\ Recorded(other) /\ ScoredCells(other) = D
      /\ \A k \in Cells \ {c}, v \in Variants : Group(other, k, v) = Group(records, k, v)
      /\ Group(other, c, "base") = Group(records, c, "base")
      /\ Group(other, c, "candidate") = Copy(Group(records, c, "base"))
  BY <1>2, CopiedGroups
<1> HIDE DEF other
<1>4. \A r \in Group(records, c, "base") : r.variant = "base"
  BY DEF Group
<1>5. /\ Samples(c, Group(other, c, "base"), Group(other, c, "candidate"))
      /\ ScoreCell(c, Group(other, c, "base"), Group(other, c, "candidate")).resolved = FALSE
      /\ ScoreCell(c, Group(other, c, "base"), Group(other, c, "candidate")).credited = Zero
  BY <1>1, <1>3, <1>4, CopyDoesNotResolve
<1>6. Scored(other)
  <2>1. \A k \in D : Scorable(k, Group(other, k, "base"), Group(other, k, "candidate"))
    BY <1>1, <1>3, <1>5 DEF Scored, Samples, Variants
  <2>2. other # {}
    BY <1>3 DEF ScoredCells
  <2> QED
    BY <1>3, <2>1, <2>2 DEF Scored
<1>7. \A k \in D \ {c} : is[k] = was[k]
  BY <1>1, <1>3 DEF PerCell, Variants
<1>8. is[c].resolved = FALSE /\ is[c].credited = Zero
  BY <1>3, <1>5 DEF PerCell
<1>9. was[c].credited = Zero
  BY DEF PerCell, ScoreCell
<1>10. DOMAIN is = D /\ DOMAIN was = D
  BY <1>3 DEF PerCell
<1> HIDE DEF is, was
<1>11. [k \in D |-> is[k].credited] = [k \in D |-> was[k].credited]
  BY <1>7, <1>8, <1>9
<1> DEFINE resolved == {k \in D : was[k].resolved}
<1>12. {k \in D : is[k].resolved} = resolved /\ resolved \subseteq D \ {c}
  BY <1>7, <1>8 DEF was
<1>13. /\ [k \in resolved |-> is[k].lower] = [k \in resolved |-> was[k].lower]
       /\ [k \in resolved |-> is[k].upper] = [k \in resolved |-> was[k].upper]
  BY <1>7, <1>12
<1>14. Aggregate(is) = Aggregate(was)
  BY <1>10, <1>11, <1>12, <1>13 DEF Aggregate
<1> QED
  BY <1>6, <1>14 DEF is, was, other
-----------------------------------------------------------------------------
\* What credit is a share of

\* A fraction that is at most m, and one that is at most k, add up to at most m + k.
Within(a, m) == a[1] <= m * a[2]

\* Bounds on two fractions add up.
LEMMA PlusIsWithin ==
    ASSUME NEW a \in Rationals, NEW b \in Rationals, NEW m \in Nat, NEW k \in Nat,
           Within(a, m), Within(b, k)
    PROVE  Within(Plus(a, b), m + k)
<1> DEFINE n == a[1] * b[2] + b[1] * a[2]
           d == a[2] * b[2]
           r == <<n, d>>
<1>1. PICK a1 \in Int, a2 \in Nat \ {0} : a1 = a[1] /\ a2 = a[2]
  BY DEF Rationals
<1>2. PICK b1 \in Int, b2 \in Nat \ {0} : b1 = b[1] /\ b2 = b[2]
  BY DEF Rationals
<1>3. a1 <= m * a2 /\ b1 <= k * b2
  BY <1>1, <1>2 DEF Within
<1>4. a1 * b2 <= (m * a2) * b2 /\ b1 * a2 <= (k * b2) * a2
  BY <1>3, TimesOrder
<1>5. (m * a2) * b2 = m * (a2 * b2) /\ (k * b2) * a2 = k * (a2 * b2)
  OBVIOUS
<1>6. m * (a2 * b2) + k * (a2 * b2) = (m + k) * (a2 * b2)
  OBVIOUS
<1>7. n <= (m + k) * d
  BY <1>1, <1>2, <1>4, <1>5, <1>6
<1>8. r \in Rationals
  BY <1>1, <1>2, ProductIsPositive DEF Rationals
<1>9. Plus(a, b) = Reduced(r)
  BY DEF Plus
<1>10. r[1] = n /\ r[2] = d
  OBVIOUS
<1> HIDE DEF n, d, r
<1>11. PICK g \in Nat \ {0} : n = Reduced(r)[1] * g /\ d = Reduced(r)[2] * g
  BY <1>8, <1>10, ReducedIsTheSame
<1>12. Reduced(r)[1] \in Int /\ Reduced(r)[2] \in Int
  BY <1>8, ReducedIsTheSame DEF Rationals
<1>13. (m + k) * (Reduced(r)[2] * g) = ((m + k) * Reduced(r)[2]) * g
  BY <1>12
<1>14. Reduced(r)[1] * g <= ((m + k) * Reduced(r)[2]) * g
  BY <1>7, <1>11, <1>13
<1>15. Reduced(r)[1] <= (m + k) * Reduced(r)[2]
  BY <1>12, <1>14, TimesOrder
<1> QED
  BY <1>9, <1>15 DEF Within

\* What no cell exceeds, their total does not exceed.
LEMMA TotalIsWithin ==
    ASSUME NEW D \in SUBSET Cells, IsFiniteSet(D), NEW value \in [D -> Rationals],
           NEW w, Terms(w, D), \A c \in D : w[c] \in Nat /\ Within(Weighted(value)[c], w[c])
    PROVE  Within(Total(value), SumFunction(w)) /\ SumFunction(w) \in Nat
<1> DEFINE v == Weighted(value)
           P == {s \in SUBSET D : PartSums(w)[s] \in Nat /\ Within(PartTotals(v)[s], PartSums(w)[s])}
<1>1. v \in [D -> Rationals] /\ Total(value) = PartTotals(v)[D]
  BY TotalOfParts
<1>2. SumFunction(w) = PartSums(w)[D]
  BY SumIsPartSum
<1>3. \A c \in D : w[c] \in Nat /\ Within(v[c], w[c])
  OBVIOUS
<1> HIDE DEF v
<1>4. PartTotals(v)[{}] = Zero
  BY <1>1, PartTotalsAreDefined
<1>5. PartSums(w)[{}] = 0
  BY PartSumsStep
<1>6. {} \in P
  <2>1. Within(Zero, 0)
    BY DEF Within, Zero
  <2> QED
    BY <1>4, <1>5, <2>1
<1>7. ASSUME NEW s \in SUBSET D, s # {}, s \ {Chosen(s)} \in P
      PROVE  s \in P
  <2> DEFINE c == Chosen(s)
             rest == s \ {c}
  <2>1. c \in s /\ rest \in SUBSET D /\ PartSums(w)[rest] \in Nat
        /\ Within(PartTotals(v)[rest], PartSums(w)[rest])
    BY <1>7, ChosenIsOne
  <2> HIDE DEF P
  <2>2. \A e \in SUBSET D :
          /\ PartTotals(v)[e] \in Rationals
          /\ e # {} => PartTotals(v)[e] = Plus(PartTotals(v)[e \ {Chosen(e)}], v[Chosen(e)])
    BY <1>1, PartTotalsAreDefined
  <2>3. PartTotals(v)[s] = Plus(PartTotals(v)[rest], v[c])
    BY <1>7, <2>2
  <2> HIDE DEF rest, c
  <2>4. PartTotals(v)[rest] \in Rationals /\ PartTotals(v)[s] = Plus(PartTotals(v)[rest], v[c])
    BY <2>1, <2>2, <2>3
  <2>5. PartSums(w)[s] = w[c] + PartSums(w)[rest]
    BY <2>1, AnyIsAdded DEF rest
  <2>6. w[c] \in Nat /\ Within(v[c], w[c]) /\ v[c] \in Rationals
    BY <1>1, <1>3, <2>1
  <2>7. Within(Plus(PartTotals(v)[rest], v[c]), PartSums(w)[rest] + w[c])
    BY <2>1, <2>4, <2>6, PlusIsWithin
  <2>8. PartSums(w)[s] = PartSums(w)[rest] + w[c] /\ PartSums(w)[s] \in Nat
    BY <2>1, <2>5, <2>6
  <2>9. Within(PartTotals(v)[s], PartSums(w)[s])
    BY <2>4, <2>7, <2>8
  <2> QED
    BY <2>8, <2>9 DEF P
<1> HIDE DEF P
<1>8. SUBSET D \subseteq P
  BY <1>6, <1>7, ChosenInduction
<1>9. D \in P
  BY <1>8
<1> QED
  BY <1>1, <1>2, <1>9 DEF P

\* A total is positive only if the value of some cell is.
LEMMA SomeIsPositive ==
    ASSUME NEW D \in SUBSET Cells, IsFiniteSet(D), NEW value \in [D -> Rationals],
           Total(value)[1] > 0
    PROVE  \E c \in D : value[c][1] > 0
<1> SUFFICES ASSUME \A c \in D : ~(value[c][1] > 0)
             PROVE  FALSE
  OBVIOUS
<1> DEFINE w == [c \in D |-> 0]
<1>1. Terms(w, D) /\ \A c \in D : w[c] = 0
  BY DEF Terms
<1>2. ASSUME NEW c \in D
      PROVE  Within(Weighted(value)[c], 0)
  <2>1. value[c][1] \in Int /\ value[c][1] <= 0 /\ value[c][2] \in Nat
    BY DEF Rationals
  <2>2. Cell[c].weight \in Nat \ {0}
    BY CellIsDeclared
  <2>3. value[c][1] * Cell[c].weight <= 0 * Cell[c].weight
    BY <2>1, <2>2, TimesOrder
  <2>4. Weighted(value)[c] = <<value[c][1] * Cell[c].weight, value[c][2]>>
    BY DEF Weighted
  <2> QED
    BY <2>1, <2>2, <2>3, <2>4 DEF Within
<1> HIDE DEF w
<1>3. Within(Total(value), SumFunction(w)) /\ SumFunction(w) \in Nat
  BY <1>1, <1>2, TotalIsWithin
<1>4. \A c \in D : w[c] = -w[c]
  BY <1>1
<1>5. SumFunction(w) = -SumFunction(w)
  BY <1>1, <1>4, SumOfNegatives
<1>6. SumFunction(w) = 0
  BY <1>3, <1>5
<1>7. Total(value) \in Rationals
  BY TotalOfParts
<1> QED
  BY <1>3, <1>6, <1>7 DEF Within, Rationals

\* A run credits at most all of the gap.
LEMMA MeanIsWithinOne ==
    ASSUME NEW D \in SUBSET Cells, IsFiniteSet(D), D # {}, NEW value \in [D -> Rationals],
           \A c \in D : Within(value[c], 1)
    PROVE  Within(Reduced(<<Total(value)[1], Total(value)[2] * WeightOf(D)>>), 1)
<1> DEFINE w == [c \in D |-> Cell[c].weight]
           W == WeightOf(D)
<1>1. Terms(w, D) /\ \A c \in D : w[c] = Cell[c].weight /\ w[c] \in Nat
  BY CellIsDeclared DEF Terms
<1>2. SumFunction(w) = W
  BY DEF WeightOf
<1>3. ASSUME NEW c \in D
      PROVE  Within(Weighted(value)[c], w[c])
  <2>1. value[c][1] \in Int /\ value[c][2] \in Nat /\ value[c][1] <= value[c][2]
    BY DEF Rationals, Within
  <2>2. Cell[c].weight \in Nat \ {0}
    BY CellIsDeclared
  <2>3. value[c][1] * Cell[c].weight <= value[c][2] * Cell[c].weight
    BY <2>1, <2>2, TimesOrder
  <2>4. Weighted(value)[c] = <<value[c][1] * Cell[c].weight, value[c][2]>>
    BY DEF Weighted
  <2>5. value[c][2] * Cell[c].weight = Cell[c].weight * value[c][2]
    BY <2>1, <2>2
  <2> QED
    BY <1>1, <2>3, <2>4, <2>5 DEF Within
<1> HIDE DEF w
<1>4. Within(Total(value), W)
  BY <1>1, <1>2, <1>3, TotalIsWithin
<1>5. W \in Nat \ {0}
  BY WeightIsPositive
<1> HIDE DEF W
<1>6. PICK t1 \in Int, t2 \in Nat \ {0} : t1 = Total(value)[1] /\ t2 = Total(value)[2]
  BY TotalOfParts DEF Rationals
<1>7. t1 <= W * t2
  BY <1>4, <1>6 DEF Within
<1> DEFINE r == <<t1, t2 * W>>
<1>8. r \in Rationals /\ r[1] = t1 /\ r[2] = t2 * W
  BY <1>5, <1>6, ProductIsPositive DEF Rationals
<1> HIDE DEF r
<1>9. PICK g \in Nat \ {0} : t1 = Reduced(r)[1] * g /\ t2 * W = Reduced(r)[2] * g
  BY <1>8, ReducedIsTheSame
<1>10. Reduced(r)[1] \in Int /\ Reduced(r)[2] \in Int
  BY <1>8, ReducedIsTheSame DEF Rationals
<1>11. Reduced(r)[1] * g <= Reduced(r)[2] * g
  BY <1>5, <1>6, <1>7, <1>9
<1>12. Reduced(r)[1] <= Reduced(r)[2]
  BY <1>10, <1>11, TimesOrder
<1> QED
  BY <1>6, <1>10, <1>12 DEF Within, r, W
-----------------------------------------------------------------------------
\* What a gap says of the two arms

\* The gap of a candidate that is above the ceiling, as a fraction.
LEMMA GapIsAFraction ==
    ASSUME NEW c \in Cells, NEW b \in Nat \ {0}, NEW t \in Nat \ {0}
    PROVE  LET a == Cell[c].achieved
               r == <<(a[1] * b) * (b - t), t * (a[2] * b - a[1] * b)>>
           IN r \in Rationals /\ Gap(RunCeiling(c, b), b, t) = Reduced(r)
<1> DEFINE a1 == Cell[c].achieved[1]
           a2 == Cell[c].achieved[2]
           r == <<(a1 * b) * (b - t), t * (a2 * b - a1 * b)>>
<1>1. a1 \in Nat \ {0} /\ a2 \in Nat \ {0} /\ a1 < a2
  BY CellIsDeclared
<1>2. RunCeiling(c, b) = <<a1 * b, a2>>
  BY DEF RunCeiling
<1> HIDE DEF a1, a2
<1>3. a1 * b < a2 * b
  BY <1>1, TimesOrder
<1>4. a1 * b \in Nat /\ a2 * b \in Nat
  BY <1>1
<1>5. a2 * b - a1 * b \in Nat \ {0}
  BY <1>3, <1>4
<1>6. t * (a2 * b - a1 * b) \in Nat \ {0}
  BY <1>5, ProductIsPositive
<1>7. (a1 * b) * (b - t) \in Int
  BY <1>1
<1>8. r \in Rationals
  BY <1>6, <1>7 DEF Rationals
<1>9. ~(a2 * b - a1 * b <= 0)
  BY <1>5
<1>10. Gap(RunCeiling(c, b), b, t) = Reduced(r)
  BY <1>2, <1>9 DEF Gap
<1> QED
  BY <1>8, <1>10 DEF a1, a2

\* A candidate that gains is faster.
LEMMA GainIsFaster ==
    ASSUME NEW c \in Cells, NEW run \in Nat \ {0}, NEW b \in Nat \ {0}, NEW t \in Nat \ {0},
           Gap(RunCeiling(c, run), b, t)[1] > 0
    PROVE  t < b
<1> DEFINE k == RunCeiling(c, run)
           left == k[2] * b - k[1]
           r == <<k[1] * (b - t), t * left>>
<1>1. k[1] \in Nat \ {0} /\ k[2] \in Nat \ {0}
  BY CellIsDeclared, ProductIsPositive DEF RunCeiling
<1>2. Gap(k, b, t) = Reduced(r) /\ ~(left <= 0)
  BY DEF Gap, Zero
<1>3. left \in Nat \ {0}
  BY <1>1, <1>2
<1>4. t * left \in Nat \ {0}
  BY <1>3, ProductIsPositive
<1>5. r \in Rationals /\ r[1] = k[1] * (b - t)
  BY <1>1, <1>4 DEF Rationals
<1>6. r[1] > 0
  <2> HIDE DEF r, k
  <2> QED
    BY <1>2, <1>5, ReducedCompares DEF k
<1> HIDE DEF k, r
<1>7. k[1] * (b - t) > 0
  BY <1>5, <1>6
<1>8. b - t \in Int
  OBVIOUS
<1>9. 0 * k[1] < (b - t) * k[1]
  BY <1>1, <1>7
<1>10. 0 < b - t
  BY <1>1, <1>8, <1>9, TimesOrder
<1> QED
  BY <1>10

\* A candidate above the ceiling closes at most the gap.
LEMMA GapIsWithinOne ==
    ASSUME NEW c \in Cells, NEW b \in Nat \ {0}, NEW t \in Nat \ {0},
           Cell[c].achieved[2] * t > Cell[c].achieved[1] * b
    PROVE  Within(Gap(RunCeiling(c, b), b, t), 1)
<1> DEFINE a1 == Cell[c].achieved[1]
           a2 == Cell[c].achieved[2]
           r == <<(a1 * b) * (b - t), t * (a2 * b - a1 * b)>>
<1>1. a1 \in Nat \ {0} /\ a2 \in Nat \ {0}
  BY CellIsDeclared
<1>2. r \in Rationals /\ Gap(RunCeiling(c, b), b, t) = Reduced(r)
  BY GapIsAFraction
<1>3. r[1] = (a1 * b) * (b - t) /\ r[2] = t * (a2 * b - a1 * b)
  OBVIOUS
<1>4. a1 * b < a2 * t
  OBVIOUS
<1> HIDE DEF a1, a2, r
<1>5. (a1 * b) * b < (a2 * t) * b
  BY <1>1, <1>4, TimesOrder
<1>6. (a1 * b) * (b - t) = (a1 * b) * b - (a1 * b) * t
  BY <1>1
<1>7. t * (a2 * b - a1 * b) = (a2 * t) * b - (a1 * b) * t
  BY <1>1
<1>8. r[1] <= r[2]
  BY <1>1, <1>3, <1>5, <1>6, <1>7
<1>9. PICK g \in Nat \ {0} : r[1] = Reduced(r)[1] * g /\ r[2] = Reduced(r)[2] * g
  BY <1>2, ReducedIsTheSame
<1>10. Reduced(r)[1] \in Int /\ Reduced(r)[2] \in Int
  BY <1>2, ReducedIsTheSame DEF Rationals
<1>11. Reduced(r)[1] <= Reduced(r)[2]
  BY <1>8, <1>9, <1>10, TimesOrder
<1> QED
  BY <1>2, <1>10, <1>11 DEF Within

\* A gain beyond the floor of the cell is one in seconds.
LEMMA GapAboveFloor ==
    ASSUME NEW c \in Cells, NEW b \in Nat \ {0}, NEW t \in Nat \ {0},
           Cell[c].achieved[2] * t > Cell[c].achieved[1] * b,
           Less(FloorGap(c), Gap(RunCeiling(c, b), b, t))
    PROVE  t * Cell[c].floor[2] < b * (Cell[c].floor[2] - Cell[c].floor[1])
<1> DEFINE a1 == Cell[c].achieved[1]
           a2 == Cell[c].achieved[2]
           f1 == Cell[c].floor[1]
           f2 == Cell[c].floor[2]
           r == <<(a1 * b) * (b - t), t * (a2 * b - a1 * b)>>
           q == <<a1 * f1, (f2 - f1) * (a2 - a1)>>
<1>1. /\ a1 \in Nat \ {0} /\ a2 \in Nat \ {0} /\ a1 < a2
      /\ f1 \in Nat \ {0} /\ f2 \in Nat \ {0} /\ f1 < f2
  BY CellIsDeclared
<1>2. r \in Rationals /\ Gap(RunCeiling(c, b), b, t) = Reduced(r)
  BY GapIsAFraction
<1>3. Within(Reduced(r), 1)
  BY <1>2, GapIsWithinOne
<1>4. FloorGap(c) = IF a1 * f2 >= a2 * (f2 - f1) THEN <<1, 1>> ELSE Reduced(q)
  BY DEF FloorGap, FloorAsGap
<1>5. r[1] = (a1 * b) * (b - t) /\ r[2] = t * (a2 * b - a1 * b)
  OBVIOUS
<1>6. q[1] = a1 * f1 /\ q[2] = (f2 - f1) * (a2 - a1)
  OBVIOUS
<1>7. q = <<q[1], q[2]>>
  OBVIOUS
<1> HIDE DEF a1, a2, f1, f2, r, q
<1>8. f2 - f1 \in Nat \ {0} /\ a2 - a1 \in Nat \ {0}
  BY <1>1
<1>9. q \in Rationals
  <2>1. q[1] \in Int /\ q[2] \in Nat \ {0}
    BY <1>1, <1>6, <1>8, ProductIsPositive
  <2> QED
    BY <1>7, <2>1 DEF Rationals
<1>10. FloorGap(c) = Reduced(q)
  <2>1. Reduced(r) \in Rationals
    BY <1>2, ReducedIsTheSame
  <2>2. ~Less(<<1, 1>>, Reduced(r))
    BY <1>3, <2>1 DEF Within, Less, Rationals
  <2> QED
    BY <1>2, <1>4, <2>2
<1>11. Less(q, r)
  <2>1. Reduced(q) \in Rationals /\ Reduced(r) \in Rationals
    BY <1>2, <1>9, ReducedIsTheSame
  <2>2. Less(Reduced(q), r)
    BY <1>2, <1>9, <1>10, <2>1, ReducedCompares
  <2> QED
    BY <1>2, <1>9, <2>2, ReducedCompares
<1>12. q[1] * r[2] < r[1] * q[2]
  BY <1>11 DEF Less
<1> DEFINE m == a2 - a1
           k == f2 - f1
           z == (a1 * b) * m
<1>13. m \in Nat \ {0} /\ k \in Nat \ {0}
  BY <1>8
<1>14. a2 * b - a1 * b = m * b
  BY <1>1
<1>15. z \in Nat \ {0}
  BY <1>1, <1>13, ProductIsPositive
<1>16. q[1] * r[2] = (a1 * f1) * (t * (m * b)) /\ r[1] * q[2] = ((a1 * b) * (b - t)) * (k * m)
  BY <1>5, <1>6, <1>14
<1> HIDE DEF m, k
<1>17. (a1 * f1) * (t * (m * b)) = (f1 * t) * z
  BY <1>1, <1>13
<1>18. ((a1 * b) * (b - t)) * (k * m) = ((b - t) * k) * z
  BY <1>1, <1>13
<1> HIDE DEF z
<1>19. (f1 * t) * z < ((b - t) * k) * z
  BY <1>12, <1>16, <1>17, <1>18
<1>20. f1 * t < (b - t) * k
  <2>1. f1 * t \in Int /\ (b - t) * k \in Int
    BY <1>1, <1>13
  <2> QED
    BY <1>15, <1>19, <2>1, TimesOrder
<1>21. f1 * t < (b - t) * (f2 - f1)
  BY <1>20 DEF k
<1>22. (b - t) * (f2 - f1) = b * (f2 - f1) - t * f2 + f1 * t
  BY <1>1
<1>23. t * f2 < b * (f2 - f1)
  BY <1>1, <1>21, <1>22
<1> QED
  BY <1>23 DEF f1, f2
-----------------------------------------------------------------------------
\* The resamples of a cell

\* A product grows with its factors.
LEMMA ProductGrows ==
    ASSUME NEW D, IsFiniteSet(D), NEW f \in [D -> (Nat \ {0})], NEW g \in [D -> (Nat \ {0})],
           \A i \in D : f[i] <= g[i]
    PROVE  Product(f) <= Product(g)
<1> DEFINE F == PartProducts(f)
           G == PartProducts(g)
           P == {s \in SUBSET D : F[s] <= G[s]}
<1>1. /\ F[{}] = 1
      /\ \A s \in SUBSET D : /\ F[s] \in Nat \ {0}
                             /\ s # {} => F[s] = F[s \ {Chosen(s)}] * f[Chosen(s)]
  BY PartProductsAreDefined
<1>2. /\ G[{}] = 1
      /\ \A s \in SUBSET D : /\ G[s] \in Nat \ {0}
                             /\ s # {} => G[s] = G[s \ {Chosen(s)}] * g[Chosen(s)]
  BY PartProductsAreDefined
<1>3. Product(f) = F[D] /\ Product(g) = G[D]
  BY PartProductsAreTheFold
<1>4. \A i \in D : f[i] \in Nat \ {0} /\ g[i] \in Nat \ {0} /\ f[i] <= g[i]
  OBVIOUS
<1> HIDE DEF F, G
<1>5. {} \in P
  BY <1>1, <1>2
<1>6. ASSUME NEW s \in SUBSET D, s # {}, s \ {Chosen(s)} \in P
      PROVE  s \in P
  <2> DEFINE c == Chosen(s)
             rest == s \ {c}
  <2>1. rest \in SUBSET D /\ F[rest] <= G[rest]
    BY <1>6
  <2>2. c \in D
    BY <1>6, ChosenIsOne
  <2>3. F[s] = F[rest] * f[c] /\ G[s] = G[rest] * g[c]
    BY <1>1, <1>2, <1>6
  <2> HIDE DEF P, c, rest
  <2>4. F[rest] \in Nat \ {0} /\ G[rest] \in Nat \ {0}
    BY <1>1, <1>2, <2>1
  <2>5. f[c] \in Nat \ {0} /\ g[c] \in Nat \ {0} /\ f[c] <= g[c]
    BY <1>4, <2>2
  <2>6. F[rest] * f[c] <= G[rest] * f[c]
    BY <2>1, <2>4, <2>5, TimesOrder
  <2>7. f[c] * G[rest] <= g[c] * G[rest]
    BY <2>4, <2>5, TimesOrder
  <2>8. F[s] <= G[s]
    BY <2>3, <2>4, <2>5, <2>6, <2>7
  <2> QED
    BY <2>8 DEF P
<1> HIDE DEF P
<1>7. SUBSET D \subseteq P
  BY <1>5, <1>6, ChosenInduction
<1>8. D \in P
  BY <1>7
<1> QED
  BY <1>3, <1>8 DEF P

\* Of two fractions one is at most the other.
LEMMA AtMostIsTotal ==
    ASSUME NEW a \in Rationals, NEW b \in Rationals
    PROVE  /\ AtMost(a, b) \/ AtMost(b, a)
           /\ Less(a, b) => AtMost(a, b)
BY DEF AtMost, Less, Rationals

\* What is above a positive fraction is positive.
LEMMA AboveIsPositive ==
    ASSUME NEW a \in Rationals, NEW b \in Rationals, a[1] > 0, Less(a, b)
    PROVE  b[1] > 0
<1>1. PICK a1 \in Nat \ {0}, a2 \in Nat \ {0} : a1 = a[1] /\ a2 = a[2]
  BY DEF Rationals
<1>2. PICK b1 \in Int, b2 \in Nat \ {0} : b1 = b[1] /\ b2 = b[2]
  BY DEF Rationals
<1>3. a1 * b2 < b1 * a2
  BY <1>1, <1>2 DEF Less
<1>4. a1 * b2 \in Nat \ {0}
  BY ProductIsPositive
<1>5. 0 * a2 < b1 * a2
  BY <1>3, <1>4
<1>6. 0 < b1
  BY <1>5, TimesOrder
<1> QED
  BY <1>2, <1>6

\* Of finitely many fractions one is the least, and one is the greatest.
LEMMA ExtremesExist ==
    ASSUME NEW S, IsFiniteSet(S), S \in SUBSET Rationals, S # {}
    PROVE  /\ Least(S) \in S /\ \A r \in S : AtMost(Least(S), r)
           /\ Greatest(S) \in S /\ \A r \in S : AtMost(r, Greatest(S))
<1> DEFINE low(s) == \E r \in s : \A q \in s : AtMost(r, q)
           high(s) == \E r \in s : \A q \in s : AtMost(q, r)
           P == {s \in SUBSET S : s # {} => low(s) /\ high(s)}
<1>1. {} \in P
  OBVIOUS
<1>2. ASSUME NEW s \in SUBSET S, s # {}, s \ {Chosen(s)} \in P
      PROVE  s \in P
  <2> DEFINE c == Chosen(s)
             rest == s \ {c}
  <2>1. c \in s /\ (rest # {} => low(rest) /\ high(rest)) /\ s = rest \cup {c}
    BY <1>2, ChosenIsOne
  <2>2. s \in SUBSET Rationals /\ rest \in SUBSET Rationals /\ c \in Rationals
    BY <1>2, <2>1
  <2> HIDE DEF P, c, rest
  <2>3. AtMost(c, c)
    BY <2>2, AtMostIsTotal
  <2>4. CASE rest = {}
    <3>1. s = {c}
      BY <2>1, <2>4
    <3>2. low(s) /\ high(s)
      BY <2>3, <3>1
    <3> QED
      BY <3>2 DEF P
  <2>5. CASE rest # {}
    <3>1. PICK l \in rest : \A q \in rest : AtMost(l, q)
      BY <2>1, <2>5
    <3>2. PICK h \in rest : \A q \in rest : AtMost(q, h)
      BY <2>1, <2>5
    <3>3. low(s)
      <4>1. CASE AtMost(l, c)
        BY <2>1, <3>1, <4>1
      <4>2. CASE AtMost(c, l)
        <5>1. \A q \in rest : AtMost(c, q)
          BY <2>2, <3>1, <4>2, AtMostTransitive
        <5> QED
          BY <2>1, <2>3, <5>1
      <4> QED
        BY <2>2, <3>1, <4>1, <4>2, AtMostIsTotal
    <3>4. high(s)
      <4>1. CASE AtMost(c, h)
        BY <2>1, <3>2, <4>1
      <4>2. CASE AtMost(h, c)
        <5>1. \A q \in rest : AtMost(q, c)
          BY <2>2, <3>2, <4>2, AtMostTransitive
        <5> QED
          BY <2>1, <2>3, <5>1
      <4> QED
        BY <2>2, <3>2, <4>1, <4>2, AtMostIsTotal
    <3> QED
      BY <3>3, <3>4 DEF P
  <2> QED
    BY <2>4, <2>5
<1> HIDE DEF P
<1>3. SUBSET S \subseteq P
  BY <1>1, <1>2, ChosenInduction
<1>4. low(S) /\ high(S)
  BY <1>3 DEF P
<1>5. /\ \E r \in S : \A q \in S : ~Less(q, r)
      /\ \E r \in S : \A q \in S : ~Less(r, q)
  BY <1>4 DEF AtMost
<1>6. Least(S) \in S /\ \A q \in S : ~Less(q, Least(S))
  BY <1>5 DEF Least
<1>7. Greatest(S) \in S /\ \A q \in S : ~Less(Greatest(S), q)
  BY <1>5 DEF Greatest
<1> QED
  BY <1>6, <1>7 DEF AtMost

\* A draw of the two arms, and the gap it gives.
LEMMA DrawIsMeasured ==
    ASSUME NEW base, Recorded(base), NEW cand, Recorded(cand),
           RepeatsOf(base) = RepeatsOf(cand), NEW d \in Draws(base)
    PROVE  Geomean(base, d) \in Nat \ {0} /\ Geomean(cand, d) \in Nat \ {0}
<1> DEFINE D == 1 .. Repeats
<1>1. IsFiniteSet(D)
  <2>1. 1 \in Int /\ Repeats \in Int
    BY CellsAssumption
  <2> QED
    BY <2>1, FS_Interval
<1>2. d \in [D -> RepeatsOf(base)]
  BY DEF Draws
<1> HIDE DEF D
<1> QED
  BY <1>1, <1>2, GeomeanIsPositive

\* The samples of a cell in the repeats of the generation.
InRepeats(arm) == RepeatsOf(arm) \subseteq 1 .. Repeats

\* An arm with as many repeats as there are has each of them.
LEMMA RepeatsAreAll ==
    ASSUME NEW arm, InRepeats(arm), Cardinality(RepeatsOf(arm)) >= Repeats
    PROVE  RepeatsOf(arm) = 1 .. Repeats /\ Cardinality(RepeatsOf(arm)) = Repeats
<1> DEFINE D == 1 .. Repeats
           R == RepeatsOf(arm)
<1>1. Repeats \in Nat /\ Repeats >= 2
  BY CellsAssumption
<1>2. IsFiniteSet(D) /\ Cardinality(D) = Repeats
  <2>1. 1 \in Int /\ Repeats \in Int
    BY <1>1
  <2>2. IsFiniteSet(1 .. Repeats)
        /\ Cardinality(1 .. Repeats) = IF 1 > Repeats THEN 0 ELSE Repeats - 1 + 1
    BY <2>1, FS_Interval
  <2> QED
    BY <1>1, <2>2
<1>3. R \in SUBSET D
  BY DEF InRepeats
<1> HIDE DEF D, R
<1>4. /\ IsFiniteSet(R) /\ Cardinality(R) <= Cardinality(D)
      /\ Cardinality(D) = Cardinality(R) => D = R
  BY <1>2, <1>3, FS_Subset
<1>5. Cardinality(R) \in Nat /\ Cardinality(R) >= Repeats
  BY <1>4, FS_CardinalityType DEF R
<1> QED
  BY <1>1, <1>2, <1>4, <1>5 DEF D, R

\* The gaps of the resamples are finitely many, the one of the run among them.
LEMMA ResamplesAreFinite ==
    ASSUME NEW c, NEW base, NEW cand, Samples(c, base, cand), InRepeats(base)
    PROVE  /\ IsFiniteSet(Resampled(c, base, cand))
           /\ Resampled(c, base, cand) \in SUBSET Rationals
           /\ ScoreCell(c, base, cand).gap \in Resampled(c, base, cand)
<1> DEFINE b == Geomean(base, Identity(base))
           k == RunCeiling(c, b)
           h(d) == Gap(k, Geomean(base, d), Geomean(cand, d))
           f == [d \in Draws(base) |-> h(d)]
           S == Resampled(c, base, cand)
<1>1. /\ c \in Cells /\ Recorded(base) /\ Recorded(cand) /\ RepeatsOf(base) = RepeatsOf(cand)
      /\ Cardinality(RepeatsOf(base)) >= Repeats
  BY DEF Samples, Scorable, Paired
<1>2. RepeatsOf(base) = 1 .. Repeats
  BY <1>1, RepeatsAreAll
<1>3. b \in Nat \ {0} /\ Identity(base) \in [RepeatsOf(base) -> RepeatsOf(base)]
      /\ Identity(cand) = Identity(base)
  BY <1>1, IdentityIsADraw
<1>4. Identity(base) \in Draws(base)
  BY <1>2, <1>3 DEF Draws
<1>5. ASSUME NEW d \in Draws(base)
      PROVE  h(d) \in Rationals
  <2>1. Geomean(base, d) \in Nat \ {0} /\ Geomean(cand, d) \in Nat \ {0}
    BY <1>1, DrawIsMeasured
  <2> QED
    BY <1>1, <1>3, <2>1, GapIsRational
<1>6. S = {h(d) : d \in Draws(base)}
  BY DEF Resampled
<1>7. IsFiniteSet(Draws(base))
  <2> DEFINE D == 1 .. Repeats
  <2>1. IsFiniteSet(D) /\ RepeatsOf(base) = D
    BY <1>1, <1>2, RepeatsAreFinite
  <2>2. D # {}
    BY CellsAssumption
  <2>3. Draws(base) = [D -> D]
    BY <2>1 DEF Draws
  <2> HIDE DEF D
  <2> QED
    BY <2>1, <2>2, <2>3, DrawsAreFinite
<1>8. ScoreCell(c, base, cand).gap = h(Identity(base))
  BY <1>3 DEF ScoreCell
<1>9. h(Identity(base)) \in S
  BY <1>4, <1>6
<1>10. S \in SUBSET Rationals
  BY <1>5, <1>6
<1>11. f \in Surjection(Draws(base), S)
  BY <1>6 DEF Surjection
<1> HIDE DEF S, f
<1>12. IsFiniteSet(S)
  BY <1>7, <1>11, FS_Surjection
<1> QED
  BY <1>8, <1>9, <1>10, <1>12 DEF S

\* A cell that adds to the credit resolved above its floor, in every resample.
LEMMA CreditIsAboveTheFloor ==
    ASSUME NEW c, NEW base, NEW cand, Samples(c, base, cand), InRepeats(base),
           ScoreCell(c, base, cand).credited[1] > 0
    PROVE  /\ ScoreCell(c, base, cand).resolved /\ ScoreCell(c, base, cand).gap[1] > 0
           /\ \A g \in Resampled(c, base, cand) : Less(FloorGap(c), g)
<1> DEFINE cell == ScoreCell(c, base, cand)
           S == Resampled(c, base, cand)
           low == Least(S)
           high == Greatest(S)
           floor == FloorGap(c)
<1>1. cell.resolved = Resolves(c, low, high)
  BY DEF ScoreCell
<1>2. cell.credited = IF cell.resolved THEN cell.gap ELSE Zero
  BY DEF ScoreCell
<1>3. Zero[1] = 0
  BY DEF Zero
<1>4. cell.resolved /\ cell.gap[1] > 0
  BY <1>2, <1>3
<1>5. IsFiniteSet(S) /\ S \in SUBSET Rationals /\ cell.gap \in S
  BY ResamplesAreFinite
<1>6. low \in S /\ high \in S /\ \A r \in S : AtMost(low, r) /\ AtMost(r, high)
  BY <1>5, ExtremesExist
<1>7. floor \in Rationals /\ floor[1] > 0
  BY FloorIsPositive DEF Samples
<1>8. Less(floor, low) \/ Less(high, Minus(floor))
  BY <1>1, <1>4 DEF Resolves
<1> DEFINE gap == cell.gap
<1>9. gap \in S /\ gap[1] > 0 /\ AtMost(gap, high)
  BY <1>4, <1>5, <1>6
<1> HIDE DEF cell, S, low, high, floor, gap
<1>10. ~Less(high, Minus(floor))
  <2> SUFFICES ASSUME Less(high, Minus(floor))
               PROVE  FALSE
    OBVIOUS
  <2>1. PICK h1 \in Int, h2 \in Nat \ {0} : h1 = high[1] /\ h2 = high[2]
    BY <1>5, <1>6 DEF Rationals
  <2>2. PICK g1 \in Int, g2 \in Nat \ {0} : g1 = gap[1] /\ g2 = gap[2]
    BY <1>5, <1>9 DEF Rationals
  <2>3. PICK f1 \in Int, f2 \in Nat \ {0} : f1 = floor[1] /\ f2 = floor[2]
    BY <1>7 DEF Rationals
  <2>4. h1 * f2 < -f1 * h2
    BY <2>1, <2>3 DEF Less, Minus
  <2>5. f1 > 0 /\ g1 > 0
    BY <1>7, <1>9, <2>2, <2>3
  <2>6. f1 * h2 > 0 /\ g1 * h2 > 0
    BY <2>1, <2>2, <2>3, <2>5, ProductIsPositive
  <2>7. h1 * f2 < 0 * f2
    BY <2>1, <2>3, <2>4, <2>6
  <2>8. h1 < 0
    BY <2>1, <2>3, <2>7, TimesOrder
  <2>9. ~(h1 * g2 < g1 * h2)
    BY <1>9, <2>1, <2>2 DEF AtMost, Less
  <2>10. h1 * g2 < 0 * g2
    BY <2>2, <2>8, TimesOrder
  <2> QED
    BY <2>1, <2>2, <2>6, <2>9, <2>10
<1>11. ASSUME NEW g \in S
       PROVE  Less(floor, g)
  <2>1. Less(floor, low) /\ AtMost(low, g)
    BY <1>6, <1>8, <1>10, <1>11
  <2>2. low \in Rationals /\ g \in Rationals
    BY <1>5, <1>6, <1>11
  <2>3. AtMost(floor, low)
    BY <1>7, <2>1, <2>2, AtMostIsTotal
  <2> QED
    BY <1>7, <2>1, <2>2, <2>3, AtMostTransitive
<1> QED
  BY <1>4, <1>11 DEF cell, S, floor

\* Such a cell is faster in every repeat, and by more than its floor in the mean.
LEMMA CreditIsAGain ==
    ASSUME NEW c, NEW base, NEW cand, Samples(c, base, cand), InRepeats(base),
           ScoreCell(c, base, cand).credited[1] > 0
    PROVE  /\ \A k \in RepeatsOf(base) : Root(cand, k) < Root(base, k)
           /\ Geomean(cand, Identity(cand)) * Cell[c].floor[2]
                < Geomean(base, Identity(base)) * (Cell[c].floor[2] - Cell[c].floor[1])
<1> DEFINE b == Geomean(base, Identity(base))
           t == Geomean(cand, Identity(cand))
           S == Resampled(c, base, cand)
<1>1. /\ c \in Cells /\ Recorded(base) /\ Recorded(cand) /\ RepeatsOf(base) = RepeatsOf(cand)
      /\ AboveTheCeiling(c, base, cand)
  BY DEF Samples, Scorable, Paired
<1>2. b \in Nat \ {0} /\ t \in Nat \ {0}
  BY <1>1, IdentityIsADraw
<1>3. \A g \in S : Less(FloorGap(c), g)
  BY CreditIsAboveTheFloor
<1>4. S \in SUBSET Rationals /\ ScoreCell(c, base, cand).gap \in S
  BY ResamplesAreFinite
<1>5. ScoreCell(c, base, cand).gap = Gap(RunCeiling(c, b), b, t)
  BY DEF ScoreCell
<1>6. Cell[c].achieved[2] * t > Cell[c].achieved[1] * b
  BY DEF AboveTheCeiling, RunCeiling, Samples, Scorable
<1>7. t * Cell[c].floor[2] < b * (Cell[c].floor[2] - Cell[c].floor[1])
  <2>1. Less(FloorGap(c), Gap(RunCeiling(c, b), b, t))
    BY <1>3, <1>4, <1>5
  <2> HIDE DEF b, t
  <2> QED
    BY <1>1, <1>2, <1>6, <2>1, GapAboveFloor
<1>8. ASSUME NEW k \in RepeatsOf(base)
      PROVE  Root(cand, k) < Root(base, k)
  <2> DEFINE D == 1 .. Repeats
             d == [i \in D |-> k]
             f == [i \in D |-> Root(base, k)]
             g == [i \in D |-> Root(cand, k)]
             bk == Geomean(base, d)
             tk == Geomean(cand, d)
             gap == Gap(RunCeiling(c, b), bk, tk)
  <2>1. d \in Draws(base)
    BY DEF Draws
  <2>2. bk \in Nat \ {0} /\ tk \in Nat \ {0}
    BY <1>1, <2>1, DrawIsMeasured
  <2>3. gap \in S
    BY <2>1 DEF Resampled
  <2>4. Less(FloorGap(c), gap) /\ gap \in Rationals
    BY <1>3, <1>4, <2>3
  <2>5. FloorGap(c) \in Rationals /\ FloorGap(c)[1] > 0
    BY <1>1, FloorIsPositive
  <2>6. bk = Product(f) /\ tk = Product(g)
    BY DEF Geomean
  <2>7. Root(base, k) \in Nat \ {0} /\ Root(cand, k) \in Nat \ {0}
    BY <1>1, RootIsPositive
  <2>8. f \in [D -> (Nat \ {0})] /\ g \in [D -> (Nat \ {0})]
    BY <2>7
  <2>9. \A i \in D : f[i] = Root(base, k) /\ g[i] = Root(cand, k)
    OBVIOUS
  <2>10. IsFiniteSet(D)
    <3>1. 1 \in Int /\ Repeats \in Int
      BY CellsAssumption
    <3> QED
      BY <3>1, FS_Interval
  <2>11. gap[1] > 0
    BY <2>4, <2>5, AboveIsPositive
  <2>12. tk < bk
    <3> HIDE DEF bk, tk, b
    <3> QED
      BY <1>1, <1>2, <2>2, <2>11, GainIsFaster DEF b
  <2> HIDE DEF D, d, f, g, bk, tk, gap
  <2>13. ~(Product(f) <= Product(g))
    BY <2>2, <2>6, <2>12
  <2>14. ~(Root(base, k) <= Root(cand, k))
    BY <2>8, <2>9, <2>10, <2>13, ProductGrows
  <2> QED
    BY <2>7, <2>14
<1> QED
  BY <1>7, <1>8
-----------------------------------------------------------------------------
\* What moves the frontier

\* A metric is clamped to its range.
LEMMA NormalizeIsBounded ==
    ASSUME NEW s \in Int, NEW m \in Nat
    PROVE  Normalize(s, m) \in 0 .. m
BY DEF Normalize

\* The seconds of a record are positive.
LEMMA SecondsArePositive ==
    ASSUME NEW arm, Recorded(arm), NEW r \in arm
    PROVE  Seconds(r) \in Nat \ {0}
<1> DEFINE D == 1 .. Repeats
           f == [k \in D |-> r.root]
<1>1. r.root \in Nat \ {0}
  BY DEF Recorded, RawRecords
<1>2. f \in [D -> (Nat \ {0})]
  BY <1>1
<1>3. IsFiniteSet(D)
  <2>1. 1 \in Int /\ Repeats \in Int
    BY CellsAssumption
  <2> QED
    BY <2>1, FS_Interval
<1>4. Seconds(r) = PartProducts(f)[D]
  BY PartProductsAreTheFold DEF Seconds
<1> HIDE DEF D, f
<1> QED
  BY <1>2, <1>3, <1>4, PartProductsAreDefined

\* The operating points of an arm, on the scale of their objectives.
LEMMA PointsAreScaled ==
    ASSUME NEW c \in Cells, NEW b \in Nat \ {0}, NEW arm, Recorded(arm),
           NEW top, top = (3 * Cell[c].achieved[2] - 2 * Cell[c].achieved[1]) * b
                            + MaxMemory + MaxDrift
    PROVE  ArePoints(Points(c, b, arm), Corner, top)
<1> DEFINE a1 == Cell[c].achieved[1]
           a2 == Cell[c].achieved[2]
           m == (3 * a2 - 2 * a1) * b
           told == {r \in arm : r.memory # NotReported}
           D == DOMAIN Corner
           f == [r \in told |-> Point(c, b, r)]
<1>1. a1 \in Nat \ {0} /\ a2 \in Nat \ {0} /\ a1 < a2
  BY CellIsDeclared
<1>2. MaxMemory \in Nat /\ MaxDrift \in Nat
  BY BoundsAssumption
<1>3. m \in Nat
  <2>1. 3 * a2 - 2 * a1 \in Nat
    BY <1>1
  <2> QED
    BY <2>1
<1>4. top \in Nat /\ m <= top /\ MaxMemory <= top /\ MaxDrift <= top /\ top = m + MaxMemory + MaxDrift
  <2> HIDE DEF m
  <2>1. top = m + MaxMemory + MaxDrift
    BY DEF m
  <2> QED
    BY <1>2, <1>3, <2>1
<1>5. D = 1 .. 3 /\ Corner \in [D -> Nat]
  BY DEF Corner
<1>6. ASSUME NEW r \in told
      PROVE  Point(c, b, r) \in [D -> 0 .. top]
  <2>1. Seconds(r) \in Int /\ r.memory \in Int /\ r.drift \in Int
    BY SecondsArePositive DEF Recorded, RawRecords
  <2>2. a2 * (3 * b - 2 * Seconds(r)) \in Int
    BY <1>1, <2>1
  <2>3. Speed(c, b, r) \in 0 .. m
    <3>1. Speed(c, b, r) = Normalize(a2 * (3 * b - 2 * Seconds(r)), m)
      BY DEF Speed
    <3> HIDE DEF m, a2
    <3> QED
      BY <1>3, <2>2, <3>1, NormalizeIsBounded
  <2> DEFINE memory == MaxMemory - r.memory
             drift == MaxDrift - r.drift
  <2>4. memory \in Int /\ drift \in Int
    BY <1>2, <2>1
  <2>5. /\ Normalize(memory, MaxMemory) \in 0 .. MaxMemory
        /\ Normalize(drift, MaxDrift) \in 0 .. MaxDrift
    <3> HIDE DEF memory, drift
    <3> QED
      BY <1>2, <2>4, NormalizeIsBounded
  <2> HIDE DEF m
  <2> QED
    BY <1>2, <1>3, <1>4, <1>5, <2>3, <2>5 DEF Point
<1>7. f \in Surjection(told, Points(c, b, arm))
  BY DEF Surjection, Points
<1>8. IsFiniteSet(told)
  BY FS_Subset DEF Recorded
<1>9. IsFiniteSet(Points(c, b, arm))
  BY <1>7, <1>8, FS_Surjection
<1>10. Points(c, b, arm) \in SUBSET [D -> 0 .. top]
  BY <1>6 DEF Points
<1>11. IsFiniteSet(D)
  <2>1. 1 \in Int /\ 3 \in Int
    OBVIOUS
  <2>2. IsFiniteSet(1 .. 3)
    BY <2>1, FS_Interval
  <2> QED
    BY <1>5, <2>2
<1> QED
  BY <1>4, <1>5, <1>9, <1>10, <1>11 DEF ArePoints, IsCorner

\* A cell whose frontier moves out has a point that the base is not as good as.
LEMMA CellIsExpanded ==
    ASSUME NEW c, NEW base, NEW cand, Samples(c, base, cand)
    PROVE  /\ RelativeDelta(CellFrontier(c, base, cand)) \in Rationals
           /\ RelativeDelta(CellFrontier(c, base, cand))[1] > 0
                => CellFrontier(c, base, cand).gained # {}
<1> DEFINE b == Geomean(base, Identity(base))
           top == (3 * Cell[c].achieved[2] - 2 * Cell[c].achieved[1]) * b + MaxMemory + MaxDrift
           B == Points(c, b, base)
           C == Points(c, b, cand)
           d == FrontierDelta(B, C, Corner)
           r == <<d.delta, d.base>>
<1>1. c \in Cells /\ Recorded(base) /\ Recorded(cand) /\ b \in Nat \ {0}
  BY IdentityIsADraw DEF Samples, Scorable, Paired
<1>2. ArePoints(B, Corner, top) /\ ArePoints(C, Corner, top)
  <2> DEFINE t == top
  <2>1. t = (3 * Cell[c].achieved[2] - 2 * Cell[c].achieved[1]) * b + MaxMemory + MaxDrift
    OBVIOUS
  <2> HIDE DEF t
  <2>2. ArePoints(B, Corner, t) /\ ArePoints(C, Corner, t)
    <3> HIDE DEF b
    <3> QED
      BY <1>1, <2>1, PointsAreScaled
  <2> QED
    BY <2>2 DEF t
<1>3. DOMAIN Corner = 1 .. 3 /\ 3 \in Nat \ {0}
  BY DEF Corner
<1>4. CellFrontier(c, base, cand) = d
  BY DEF CellFrontier
<1>5. d.base = Hypervolume(B, Corner) /\ d.delta = Hypervolume(C, Corner) - Hypervolume(B, Corner)
  BY DEF FrontierDelta
<1> HIDE DEF top, B, C
<1>6. Hypervolume(B, Corner) \in Nat /\ Hypervolume(C, Corner) \in Nat
  BY <1>2, <1>3, VolumeIsACount
<1>7. d.delta > 0 => d.gained # {}
  BY <1>2, <1>3, MoreVolumeIsGained
<1>8. d.base \in Nat /\ d.delta \in Int
  BY <1>5, <1>6
<1> HIDE DEF d
<1>9. CASE d.base > 0
  <2>1. r \in Rationals /\ r[1] = d.delta
    BY <1>8, <1>9 DEF Rationals
  <2>2. RelativeDelta(d) = Reduced(r)
    BY <1>9 DEF RelativeDelta
  <2> HIDE DEF r
  <2>3. Reduced(r) \in Rationals /\ (Reduced(r)[1] > 0 <=> r[1] > 0)
    BY <2>1, ReducedIsTheSame, ReducedCompares
  <2> QED
    BY <1>4, <1>7, <2>1, <2>2, <2>3
<1>10. CASE ~(d.base > 0)
  <2>1. RelativeDelta(d) = Zero /\ Zero \in Rationals /\ ~(Zero[1] > 0)
    BY <1>10 DEF RelativeDelta, Zero, Rationals
  <2> QED
    BY <1>4, <2>1
<1> QED
  BY <1>9, <1>10

\* A run that expands the frontier does so in some cell.
LEMMA SomeCellExpands ==
    ASSUME NEW records, Scored(records), Expansion(records)[1] > 0
    PROVE  \E c \in ScoredCells(records) :
              CellFrontier(c, Group(records, c, "base"), Group(records, c, "candidate")).gained # {}
<1> DEFINE D == ScoredCells(records)
           front(c) == CellFrontier(c, Group(records, c, "base"), Group(records, c, "candidate"))
           value == [c \in D |-> RelativeDelta(front(c))]
<1>1. D \in SUBSET Cells /\ IsFiniteSet(D)
  BY CellsAreScored
<1>2. \A c \in D : /\ RelativeDelta(front(c)) \in Rationals
                   /\ RelativeDelta(front(c))[1] > 0 => front(c).gained # {}
  BY CellsAreScored, CellIsExpanded
<1>3. value \in [D -> Rationals] /\ \A c \in D : value[c] = RelativeDelta(front(c))
  BY <1>2
<1>4. Total(value)[1] > 0
  BY DEF Expansion
<1> HIDE DEF D, front, value
<1>5. PICK c \in D : value[c][1] > 0
  BY <1>1, <1>3, <1>4, SomeIsPositive
<1>6. front(c).gained # {}
  BY <1>2, <1>3, <1>5
<1> QED
  BY <1>6 DEF front, D

\* A cell adds at most the whole of its gap.
LEMMA CellIsWithinOne ==
    ASSUME NEW c, NEW base, NEW cand, Samples(c, base, cand)
    PROVE  Within(ScoreCell(c, base, cand).credited, 1)
<1> DEFINE b == Geomean(base, Identity(base))
           t == Geomean(cand, Identity(cand))
<1>1. c \in Cells /\ b \in Nat \ {0} /\ t \in Nat \ {0}
  BY IdentityIsADraw DEF Samples, Scorable, Paired
<1>2. Cell[c].achieved[2] * t > Cell[c].achieved[1] * b
  BY DEF AboveTheCeiling, RunCeiling, Samples, Scorable
<1>3. ScoreCell(c, base, cand).credited \in {Gap(RunCeiling(c, b), b, t), Zero}
  BY DEF ScoreCell
<1> HIDE DEF b, t
<1>4. Within(Gap(RunCeiling(c, b), b, t), 1)
  BY <1>1, <1>2, GapIsWithinOne
<1>5. Within(Zero, 1)
  BY DEF Within, Zero
<1> QED
  BY <1>3, <1>4, <1>5

\* The gap a run is credited is at most all of it, and comes from some cell.
LEMMA CreditIsFromACell ==
    ASSUME NEW records, Scored(records)
    PROVE  /\ Within(Aggregate(PerCell(records)).gap, 1)
           /\ Aggregate(PerCell(records)).gap[1] > 0
                => \E c \in ScoredCells(records) : PerCell(records)[c].credited[1] > 0
<1> DEFINE D == ScoredCells(records)
           value == [c \in D |-> PerCell(records)[c].credited]
           W == WeightOf(D)
           r == <<Total(value)[1], Total(value)[2] * W>>
           gap == Aggregate(PerCell(records)).gap
<1>1. D \in SUBSET Cells /\ IsFiniteSet(D) /\ D # {} /\ DOMAIN PerCell(records) = D
  BY CellsAreScored
<1>2. value \in [D -> Rationals]
  BY GapOfTheRunIsRational
<1>3. \A c \in D : value[c] = PerCell(records)[c].credited
  OBVIOUS
<1>4. \A c \in D : Within(value[c], 1)
  BY CellsAreScored, CellIsWithinOne DEF PerCell
<1>5. gap = Reduced(r)
  BY <1>1 DEF Aggregate
<1> HIDE DEF D, value, gap
<1>6. Within(Reduced(r), 1)
  BY <1>1, <1>2, <1>4, MeanIsWithinOne
<1>7. ASSUME gap[1] > 0
      PROVE  \E c \in D : value[c][1] > 0
  <2>1. Total(value) \in Rationals
    BY <1>1, <1>2, TotalOfParts
  <2>2. W \in Nat \ {0}
    BY <1>1, WeightIsPositive
  <2>3. Total(value)[2] * W \in Nat \ {0} /\ Total(value)[1] \in Int
    BY <2>1, <2>2, ProductIsPositive DEF Rationals
  <2>4. r \in Rationals /\ r[1] = Total(value)[1]
    BY <2>3 DEF Rationals
  <2> HIDE DEF r
  <2>5. r[1] > 0
    BY <1>5, <1>7, <2>4, ReducedCompares
  <2>6. Total(value)[1] > 0
    BY <2>4, <2>5
  <2> QED
    BY <1>1, <1>2, <2>6, SomeIsPositive
<1>8. gap[1] > 0 => \E c \in D : PerCell(records)[c].credited[1] > 0
  BY <1>3, <1>7
<1> QED
  BY <1>5, <1>6, <1>8 DEF gap, D

\* The root of a repeat is that of its record.
LEMMA RootOfARecord ==
    ASSUME NEW arm, Recorded(arm), Sampled(arm), NEW r \in arm
    PROVE  r.repeat \in RepeatsOf(arm) /\ Root(arm, r.repeat) = r.root
<1>1. r.repeat \in RepeatsOf(arm)
  BY DEF RepeatsOf
<1>2. PICK s \in arm : s.repeat = r.repeat /\ Root(arm, r.repeat) = s.root
  BY <1>1, RootIsPositive
<1>3. s = r
  BY <1>2, RepeatsAreFinite
<1> QED
  BY <1>1, <1>2, <1>3

\* The mean of an arm is a time.
LEMMA MeanIsMeasured ==
    ASSUME NEW arm, Recorded(arm)
    PROVE  Geomean(arm, Identity(arm)) \in Nat \ {0}
BY IdentityIsADraw

\* A positive share of the gap, and at most all of it.
LEMMA ShareOfTheGap ==
    ASSUME NEW g \in Rationals
    PROVE  /\ Less(Zero, g) <=> g[1] > 0
           /\ Within(g, 1) <=> ~Less(<<1, 1>>, g)
<1>1. PICK n \in Int, d \in Nat \ {0} : n = g[1] /\ d = g[2]
  BY DEF Rationals
<1>2. Less(Zero, g) <=> n > 0
  BY <1>1 DEF Less, Zero
<1>3. Within(g, 1) <=> n <= d
  BY <1>1 DEF Within
<1>4. Less(<<1, 1>>, g) <=> d < n
  BY <1>1 DEF Less
<1> QED
  BY <1>1, <1>2, <1>3, <1>4

\* What holds up at the held-out shape is faster there by more than the floor.
LEMMA HeldUpInSeconds ==
    ASSUME NEW held, NEW c, HeldUp(held, c)
    PROVE  LET base == Group(held, c, "base")
               cand == Group(held, c, "candidate")
               both == Shared(base, cand)
               f == Cell[c].floor
           IN Elapsed(cand, both) * (f[2] + f[1]) ^ Cardinality(both)
                <= Elapsed(base, both) * f[2] ^ Cardinality(both)
BY DEF HeldUp

\* Of two times, one is less.
LEMMA OneIsFaster ==
    ASSUME NEW m \in Nat, NEW n \in Nat, m < n
    PROVE  ~(n < m)
OBVIOUS

-----------------------------------------------------------------------------
\* Fractions on a common scale

\* The fraction a is n of N.
IsOf(a, n, N) == a[1] * N = n * a[2]

\* Over a common denominator, fractions compare as their numerators do.
LEMMA OnScaleCompares ==
    ASSUME NEW N \in Nat \ {0}, NEW a \in Rationals, NEW p \in Int, IsOf(a, p, N),
           NEW b \in Rationals, NEW q \in Int, IsOf(b, q, N)
    PROVE  /\ Less(a, b) <=> p < q
           /\ AtMost(a, b) <=> p <= q
           /\ a[1] > 0 <=> p > 0
<1>1. PICK a1 \in Int, a2 \in Nat \ {0} : a1 = a[1] /\ a2 = a[2]
  BY DEF Rationals
<1>2. PICK b1 \in Int, b2 \in Nat \ {0} : b1 = b[1] /\ b2 = b[2]
  BY DEF Rationals
<1>3. a1 * N = p * a2 /\ b1 * N = q * b2
  BY <1>1, <1>2 DEF IsOf
<1> DEFINE k == a2 * b2
<1>4. k \in Nat \ {0}
  BY ProductIsPositive
<1>5. (a1 * b2) * N = (a1 * N) * b2 /\ (b1 * a2) * N = (b1 * N) * a2
  OBVIOUS
<1>6. (p * a2) * b2 = p * k /\ (q * b2) * a2 = q * k
  OBVIOUS
<1>7. (a1 * b2) * N = p * k /\ (b1 * a2) * N = q * k
  BY <1>3, <1>5, <1>6
<1> HIDE DEF k
<1>8. a1 * b2 \in Int /\ b1 * a2 \in Int
  OBVIOUS
<1>9. (a1 * b2) * N < (b1 * a2) * N <=> p < q
  BY <1>4, <1>7, TimesOrder
<1>10. a1 * b2 < b1 * a2 <=> p < q
  BY <1>8, <1>9, TimesOrder
<1>11. b1 * a2 < a1 * b2 <=> q < p
  <2>1. (b1 * a2) * N < (a1 * b2) * N <=> q < p
    BY <1>4, <1>7, TimesOrder
  <2> QED
    BY <1>8, <2>1, TimesOrder
<1>12. 0 < a1 <=> 0 < p
  <2>1. 0 * N < a1 * N <=> 0 < a1
    BY TimesOrder
  <2>2. 0 * a2 < p * a2 <=> 0 < p
    BY TimesOrder
  <2> QED
    BY <1>3, <2>1, <2>2
<1>13. Less(a, b) <=> p < q
  BY <1>1, <1>2, <1>10 DEF Less
<1>14. AtMost(a, b) <=> p <= q
  <2>1. AtMost(a, b) <=> ~(b1 * a2 < a1 * b2)
    BY <1>1, <1>2 DEF AtMost, Less
  <2> QED
    BY <1>11, <2>1
<1>15. a[1] > 0 <=> p > 0
  BY <1>1, <1>12
<1> QED
  BY <1>13, <1>14, <1>15

\* A reduced fraction is of the scales of the fraction.
LEMMA ReducedIsOf ==
    ASSUME NEW N \in Nat \ {0}, NEW r \in Rationals, NEW p \in Int, IsOf(r, p, N)
    PROVE  IsOf(Reduced(r), p, N)
<1> DEFINE d == Reduced(r)
<1>1. PICK g \in Nat \ {0} : r[1] = d[1] * g /\ r[2] = d[2] * g
  BY ReducedIsTheSame
<1>2. d[1] \in Int /\ d[2] \in Int
  BY ReducedIsTheSame DEF Rationals
<1> HIDE DEF d
<1>3. (d[1] * g) * N = p * (d[2] * g)
  BY <1>1 DEF IsOf
<1>4. (d[1] * N) * g = (p * d[2]) * g
  BY <1>2, <1>3
<1>5. d[1] * N \in Int /\ p * d[2] \in Int
  BY <1>2
<1>6. d[1] * N = p * d[2]
  BY <1>4, <1>5, TimesOrder
<1> QED
  BY <1>6 DEF IsOf, d

\* Over a common denominator, numerators add.
LEMMA PlusIsOf ==
    ASSUME NEW N \in Nat \ {0}, NEW a \in Rationals, NEW p \in Int, IsOf(a, p, N),
           NEW b \in Rationals, NEW q \in Int, IsOf(b, q, N)
    PROVE  IsOf(Plus(a, b), p + q, N)
<1>1. PICK a1 \in Int, a2 \in Nat \ {0} : a1 = a[1] /\ a2 = a[2]
  BY DEF Rationals
<1>2. PICK b1 \in Int, b2 \in Nat \ {0} : b1 = b[1] /\ b2 = b[2]
  BY DEF Rationals
<1> DEFINE r == <<a1 * b2 + b1 * a2, a2 * b2>>
<1>3. r \in Rationals /\ r[1] = a1 * b2 + b1 * a2 /\ r[2] = a2 * b2
  BY ProductIsPositive DEF Rationals
<1>4. Plus(a, b) = Reduced(r)
  BY <1>1, <1>2 DEF Plus
<1> HIDE DEF r
<1>5. a1 * N = p * a2 /\ b1 * N = q * b2
  BY <1>1, <1>2 DEF IsOf
<1>6. (a1 * b2 + b1 * a2) * N = (a1 * N) * b2 + (b1 * N) * a2
  OBVIOUS
<1>7. (p * a2) * b2 + (q * b2) * a2 = (p + q) * (a2 * b2)
  OBVIOUS
<1>8. r[1] * N = (p + q) * r[2]
  BY <1>3, <1>5, <1>6, <1>7
<1>9. p + q \in Int
  OBVIOUS
<1> QED
  BY <1>3, <1>4, <1>8, <1>9, ReducedIsOf DEF IsOf

\* Products, regrouped.
LEMMA TimesAssociates ==
    ASSUME NEW x \in Int, NEW y \in Int, NEW z \in Int
    PROVE  x * (y * z) = (x * y) * z
OBVIOUS

\* Of N a fraction is one number at most.
LEMMA OnlyOneOf ==
    ASSUME NEW N \in Nat \ {0}, NEW a \in Rationals,
           NEW p \in Int, IsOf(a, p, N), NEW q \in Int, IsOf(a, q, N)
    PROVE  p = q
<1>1. PICK d \in Nat \ {0} : d = a[2]
  BY DEF Rationals
<1>2. p * d = q * d
  BY <1>1 DEF IsOf
<1> QED
  BY <1>2, TimesOrder

\* A multiple of a common denominator is one.
LEMMA ScaleGrows ==
    ASSUME NEW a \in Rationals, NEW N \in Nat \ {0}, NEW M \in Nat \ {0},
           NEW p \in Int, IsOf(a, p, N)
    PROVE  IsOf(a, p * M, N * M)
<1>1. a[1] \in Int /\ a[2] \in Int /\ a[1] * N = p * a[2]
  BY DEF Rationals, IsOf
<1>2. (a[1] * N) * M = (p * M) * a[2]
  BY <1>1
<1>3. a[1] * (N * M) = (p * M) * a[2]
  BY <1>1, <1>2
<1> QED
  BY <1>3 DEF IsOf

\* Each fraction is some of N.
OnScale(fractions, N) == \A a \in fractions : \E n \in Int : IsOf(a, n, N)

\* Finitely many fractions have a common denominator.
LEMMA ScaleExists ==
    ASSUME NEW S, IsFiniteSet(S), S \in SUBSET Rationals
    PROVE  \E N \in Nat \ {0} : OnScale(S, N)
<1> DEFINE P == {s \in SUBSET S : \E N \in Nat \ {0} : OnScale(s, N)}
<1>1. {} \in P
  <2>1. OnScale({}, 1)
    BY DEF OnScale
  <2> QED
    BY <2>1
<1>2. ASSUME NEW s \in SUBSET S, s # {}, s \ {Chosen(s)} \in P
      PROVE  s \in P
  <2> DEFINE c == Chosen(s)
             rest == s \ {c}
  <2>1. PICK N \in Nat \ {0} : OnScale(rest, N)
    BY <1>2
  <2>2. c \in Rationals /\ rest \in SUBSET Rationals /\ s = rest \cup {c}
    BY <1>2, ChosenIsOne
  <2>3. PICK n \in Int, M \in Nat \ {0} : n = c[1] /\ M = c[2]
    BY <2>2 DEF Rationals
  <2>4. N * M \in Nat \ {0}
    BY ProductIsPositive
  <2> HIDE DEF P, c, rest
  <2>5. IsOf(c, n * N, N * M) /\ n * N \in Int
    <3>1. n * (N * M) = (n * N) * M
      BY TimesAssociates
    <3>2. n * N \in Int
      OBVIOUS
    <3>3. c[1] * (N * M) = (n * N) * c[2]
      BY <2>3, <3>1
    <3> QED
      BY <3>2, <3>3 DEF IsOf
  <2>6. ASSUME NEW a \in rest
        PROVE  \E m \in Int : IsOf(a, m, N * M)
    <3>1. PICK p \in Int : IsOf(a, p, N)
      BY <2>1 DEF OnScale
    <3>2. a \in Rationals
      BY <2>2
    <3>3. IsOf(a, p * M, N * M)
      BY <3>1, <3>2, ScaleGrows
    <3>4. p * M \in Int
      OBVIOUS
    <3> QED
      BY <3>3, <3>4
  <2>7. OnScale(s, N * M)
    BY <2>2, <2>5, <2>6 DEF OnScale
  <2> QED
    BY <2>4, <2>7 DEF P
<1> HIDE DEF P
<1>3. SUBSET S \subseteq P
  BY <1>1, <1>2, ChosenInduction
<1>4. S \in P
  BY <1>3
<1> QED
  BY <1>4 DEF P

\* A weighted sum of fractions, on their common scale.
Numerator(a, N) == CHOOSE n \in Int : IsOf(a, n, N)
Numerators(value, D, N) == [c \in D |-> Numerator(value[c], N) * Cell[c].weight]

\* The numerator over a common denominator.
LEMMA NumeratorIsOf ==
    ASSUME NEW S, NEW N, OnScale(S, N), NEW a \in S
    PROVE  Numerator(a, N) \in Int /\ IsOf(a, Numerator(a, N), N)
BY DEF OnScale, Numerator

\* Over a common denominator, a total of fractions is a sum of numerators.
LEMMA TotalOnScale ==
    ASSUME NEW D \in SUBSET Cells, IsFiniteSet(D), NEW value \in [D -> Rationals],
           NEW N \in Nat \ {0}, NEW S, OnScale(S, N), \A c \in D : value[c] \in S
    PROVE  /\ Terms(Numerators(value, D, N), D)
           /\ SumFunction(Numerators(value, D, N)) \in Int
           /\ Total(value) \in Rationals
           /\ IsOf(Total(value), SumFunction(Numerators(value, D, N)), N)
<1> DEFINE v == Weighted(value)
           w == Numerators(value, D, N)
           P == {s \in SUBSET D : IsOf(PartTotals(v)[s], PartSums(w)[s], N)}
<1>1. v \in [D -> Rationals] /\ Total(value) = PartTotals(v)[D] /\ Total(value) \in Rationals
  BY TotalOfParts
<1>2. ASSUME NEW c \in D
      PROVE  w[c] \in Int /\ IsOf(v[c], w[c], N)
  <2> DEFINE n == Numerator(value[c], N)
             k == Cell[c].weight
  <2>1. n \in Int /\ IsOf(value[c], n, N) /\ k \in Nat
    BY NumeratorIsOf, CellIsDeclared
  <2>2. w[c] = n * k /\ v[c] = <<value[c][1] * k, value[c][2]>>
    BY DEF Numerators, Weighted
  <2>3. PICK a1 \in Int, a2 \in Int : a1 = value[c][1] /\ a2 = value[c][2]
    BY DEF Rationals
  <2> HIDE DEF n, k, w, v
  <2>4. a1 * N = n * a2
    BY <2>1, <2>3 DEF IsOf
  <2>5. (a1 * k) * N = (n * k) * a2
    BY <2>1, <2>4
  <2>6. v[c][1] = a1 * k /\ v[c][2] = a2
    BY <2>2, <2>3
  <2>7. IsOf(v[c], w[c], N)
    BY <2>2, <2>5, <2>6 DEF IsOf
  <2> QED
    BY <2>1, <2>2, <2>7
<1>3. Terms(w, D)
  <2>1. w \in [D -> Int]
    BY <1>2 DEF Numerators
  <2> QED
    BY <2>1 DEF Terms
<1> HIDE DEF v, w
<1>4. /\ PartTotals(v)[{}] = Zero
      /\ \A s \in SUBSET D :
            /\ PartTotals(v)[s] \in Rationals
            /\ s # {} => PartTotals(v)[s] = Plus(PartTotals(v)[s \ {Chosen(s)}], v[Chosen(s)])
  BY <1>1, PartTotalsAreDefined
<1>5. PartSums(w)[{}] = 0
  BY <1>3, PartSumsStep
<1>6. {} \in P
  <2>1. IsOf(Zero, 0, N)
    BY DEF IsOf, Zero
  <2> QED
    BY <1>4, <1>5, <2>1
<1>7. ASSUME NEW s \in SUBSET D, s # {}, s \ {Chosen(s)} \in P
      PROVE  s \in P
  <2> DEFINE c == Chosen(s)
             rest == s \ {c}
  <2>1. c \in s /\ rest \in SUBSET D /\ IsOf(PartTotals(v)[rest], PartSums(w)[rest], N)
    BY <1>7, ChosenIsOne
  <2> HIDE DEF P
  <2>2. PartTotals(v)[s] = Plus(PartTotals(v)[rest], v[c])
    BY <1>4, <1>7
  <2> HIDE DEF c, rest
  <2>3. PartTotals(v)[rest] \in Rationals
    BY <1>4, <2>1
  <2>4. PartSums(w)[s] = w[c] + PartSums(w)[rest]
    BY <1>3, <2>1, AnyIsAdded DEF rest
  <2>5. PartSums(w)[rest] \in Int
    BY <1>3, <2>1, PartSumsStep
  <2>6. w[c] \in Int /\ IsOf(v[c], w[c], N) /\ v[c] \in Rationals
    BY <1>1, <1>2, <2>1
  <2>7. IsOf(Plus(PartTotals(v)[rest], v[c]), PartSums(w)[rest] + w[c], N)
    BY <2>1, <2>3, <2>5, <2>6, PlusIsOf
  <2>8. PartSums(w)[s] = PartSums(w)[rest] + w[c]
    BY <2>4, <2>5, <2>6
  <2> QED
    BY <2>2, <2>7, <2>8 DEF P
<1> HIDE DEF P
<1>8. SUBSET D \subseteq P
  BY <1>6, <1>7, ChosenInduction
<1>9. D \in P
  BY <1>8
<1>10. SumFunction(w) = PartSums(w)[D] /\ SumFunction(w) \in Int
  BY <1>3, SumIsPartSum, SumIsDefined
<1> QED
  BY <1>1, <1>3, <1>9, <1>10 DEF P, w

\* What is left out of a sum is zero.
LEMMA SumOverPart ==
    ASSUME NEW D, NEW f, Terms(f, D), NEW S \in SUBSET D, NEW g, Terms(g, S), Equal(f, g, S),
           \A x \in D \ S : f[x] = 0
    PROVE  SumFunction(f) = SumFunction(g)
<1> DEFINE T == D \ S
           z == [x \in T |-> 0]
<1>1. D = S \cup T /\ S \cap T = {} /\ T \in SUBSET D
  OBVIOUS
<1>2. Terms(z, T)
  <2>1. IsFiniteSet(T)
    BY <1>1, FS_Subset DEF Terms
  <2>2. z \in [T -> Int]
    OBVIOUS
  <2> QED
    BY <2>1, <2>2 DEF Terms
<1>3. \A x \in T : z[x] = 0
  OBVIOUS
<1>4. Equal(f, z, T)
  BY DEF Equal
<1> HIDE DEF T, z
<1>5. \A x \in T : z[x] = -z[x]
  BY <1>3
<1>6. SumFunction(z) = -SumFunction(z) /\ SumFunction(z) \in Int
  BY <1>2, <1>5, SumOfNegatives, SumIsDefined
<1>7. SumFunction(z) = 0
  BY <1>6
<1>8. SumFunction(f) = SumFunction(g) + SumFunction(z)
  BY <1>1, <1>2, <1>4, SumSplits
<1>9. SumFunction(g) \in Int
  BY SumIsDefined
<1> QED
  BY <1>7, <1>8, <1>9

\* The image of a finite set is finite.
LEMMA ImageIsFinite ==
    ASSUME NEW D, IsFiniteSet(D), NEW f
    PROVE  IsFiniteSet({f[c] : c \in D})
<1> DEFINE T == {f[c] : c \in D}
           h == [c \in D |-> f[c]]
<1>1. h \in Surjection(D, T)
  BY DEF Surjection
<1> HIDE DEF T, h
<1>2. IsFiniteSet(T)
  BY <1>1, FS_Surjection
<1> QED
  BY <1>2 DEF T

\* A total grows with its values.
LEMMA TotalGrows ==
    ASSUME NEW D \in SUBSET Cells, IsFiniteSet(D), NEW v \in [D -> Rationals],
           NEW w \in [D -> Rationals], \A c \in D : AtMost(v[c], w[c])
    PROVE  /\ AtMost(Total(v), Total(w))
           /\ Total(v)[1] > 0 => Total(w)[1] > 0
<1> DEFINE V == {v[c] : c \in D}
           W == {w[c] : c \in D}
           S == V \cup W
<1>1. IsFiniteSet(V) /\ IsFiniteSet(W) /\ S \in SUBSET Rationals
  BY ImageIsFinite
<1>2. IsFiniteSet(S)
  <2> HIDE DEF V, W
  <2> QED
    BY <1>1, FS_Union
<1>3. \A c \in D : v[c] \in S /\ w[c] \in S
  OBVIOUS
<1> HIDE DEF S
<1>4. PICK N \in Nat \ {0} : OnScale(S, N)
  BY <1>1, <1>2, ScaleExists
<1> DEFINE p == Numerators(v, D, N)
           q == Numerators(w, D, N)
<1>5. /\ Terms(p, D) /\ SumFunction(p) \in Int /\ Total(v) \in Rationals
      /\ IsOf(Total(v), SumFunction(p), N)
  BY <1>3, <1>4, TotalOnScale
<1>6. /\ Terms(q, D) /\ SumFunction(q) \in Int /\ Total(w) \in Rationals
      /\ IsOf(Total(w), SumFunction(q), N)
  BY <1>3, <1>4, TotalOnScale
<1>7. ASSUME NEW c \in D
      PROVE  p[c] <= q[c]
  <2> DEFINE m == Numerator(v[c], N)
             n == Numerator(w[c], N)
             k == Cell[c].weight
  <2>1. m \in Int /\ n \in Int /\ IsOf(v[c], m, N) /\ IsOf(w[c], n, N)
    BY <1>3, <1>4, NumeratorIsOf
  <2>2. k \in Nat \ {0} /\ v[c] \in Rationals /\ w[c] \in Rationals
    BY CellIsDeclared
  <2>3. p[c] = m * k /\ q[c] = n * k
    BY DEF Numerators
  <2> HIDE DEF m, n, k, p, q
  <2>4. m <= n
    BY <2>1, <2>2, OnScaleCompares
  <2> QED
    BY <2>1, <2>2, <2>3, <2>4, TimesOrder
<1> HIDE DEF p, q
<1>8. Below(p, q, D)
  BY <1>7 DEF Below
<1>9. SumFunction(p) <= SumFunction(q)
  BY <1>5, <1>6, <1>8, SumIsMonotone
<1>10. AtMost(Total(v), Total(w))
  BY <1>5, <1>6, <1>9, OnScaleCompares
<1>11. Total(v)[1] > 0 => SumFunction(p) > 0
  BY <1>5, OnScaleCompares
<1>12. SumFunction(q) > 0 => Total(w)[1] > 0
  BY <1>6, OnScaleCompares
<1> QED
  BY <1>5, <1>6, <1>9, <1>10, <1>11, <1>12

-----------------------------------------------------------------------------
\* A run that is no slower

\* The score of a cell: its gap within its interval.
IsCell(x, c) ==
    /\ x.gap \in Rationals /\ x.lower \in Rationals /\ x.upper \in Rationals
    /\ AtMost(x.lower, x.gap) /\ AtMost(x.gap, x.upper)
    /\ x.resolved = Resolves(c, x.lower, x.upper)
    /\ x.credited = IF x.resolved THEN x.gap ELSE Zero

\* The gap and its interval are no lower.
NoSlower(x, y) == AtMost(x.lower, y.lower) /\ AtMost(x.gap, y.gap) /\ AtMost(x.upper, y.upper)

\* Over a common denominator, the opposite has the opposite numerator.
LEMMA MinusIsOf ==
    ASSUME NEW N \in Nat \ {0}, NEW a \in Rationals, NEW p \in Int, IsOf(a, p, N)
    PROVE  Minus(a) \in Rationals /\ -p \in Int /\ IsOf(Minus(a), -p, N)
<1>1. PICK n \in Int, d \in Nat \ {0} : n = a[1] /\ d = a[2]
  BY DEF Rationals
<1>2. n * N = p * d
  BY <1>1 DEF IsOf
<1>3. (-n) * N = (-p) * d
  BY <1>2
<1>4. -n \in Int /\ -p \in Int
  OBVIOUS
<1>5. Minus(a) = <<-n, d>>
  BY <1>1 DEF Minus
<1>6. Minus(a) \in Rationals /\ Minus(a)[1] = -n /\ Minus(a)[2] = d
  BY <1>4, <1>5 DEF Rationals
<1> QED
  BY <1>3, <1>4, <1>6 DEF IsOf

\* Zero is over every denominator.
LEMMA ZeroIsOf ==
    ASSUME NEW N \in Nat \ {0}
    PROVE  Zero \in Rationals /\ IsOf(Zero, 0, N)
BY DEF Zero, Rationals, IsOf

\* On the scale of a cell, when it resolves.
LEMMA ResolvesOnScale ==
    ASSUME NEW c \in Cells, NEW N \in Nat \ {0}, NEW f \in Int, IsOf(FloorGap(c), f, N),
           NEW a \in Rationals, NEW l \in Int, IsOf(a, l, N),
           NEW b \in Rationals, NEW u \in Int, IsOf(b, u, N)
    PROVE  f > 0 /\ (Resolves(c, a, b) <=> f < l \/ u < -f)
<1>1. FloorGap(c) \in Rationals /\ FloorGap(c)[1] > 0
  BY FloorIsPositive
<1>2. f > 0
  BY <1>1, OnScaleCompares
<1>3. Less(FloorGap(c), a) <=> f < l
  BY <1>1, OnScaleCompares
<1> DEFINE g == -f
<1>4. Minus(FloorGap(c)) \in Rationals /\ g \in Int /\ IsOf(Minus(FloorGap(c)), g, N)
  BY <1>1, MinusIsOf
<1> HIDE DEF g
<1>5. Less(b, Minus(FloorGap(c))) <=> u < g
  BY <1>4, OnScaleCompares
<1> QED
  BY <1>2, <1>3, <1>5 DEF Resolves, g

\* A cell that is no slower is credited no less.  If it no longer resolves it was a
\* loss, and if it only now resolves it is a gain.
LEMMA CellGrows ==
    ASSUME NEW c \in Cells, NEW x, NEW y, IsCell(x, c), IsCell(y, c), NoSlower(x, y)
    PROVE  /\ AtMost(x.credited, y.credited)
           /\ x.resolved /\ ~y.resolved => Less(x.lower, FloorGap(c))
           /\ ~x.resolved /\ y.resolved => Less(FloorGap(c), y.lower)
<1> DEFINE S == {x.gap, x.lower, x.upper, y.gap, y.lower, y.upper, FloorGap(c)}
<1>1. S \in SUBSET Rationals
  BY FloorIsPositive DEF IsCell
<1>2. IsFiniteSet(S)
  <2> DEFINE h == <<x.gap, x.lower, x.upper, y.gap, y.lower, y.upper, FloorGap(c)>>
             D == 1 .. 7
  <2>1. S = {h[i] : i \in D}
    OBVIOUS
  <2>2. IsFiniteSet(D)
    <3>1. 1 \in Int /\ 7 \in Int
      OBVIOUS
    <3> QED
      BY <3>1, FS_Interval
  <2> HIDE DEF S, h, D
  <2> QED
    BY <2>1, <2>2, ImageIsFinite
<1>3. PICK N \in Nat \ {0} : OnScale(S, N)
  BY <1>1, <1>2, ScaleExists
<1>4. /\ x.gap \in S /\ x.lower \in S /\ x.upper \in S
      /\ y.gap \in S /\ y.lower \in S /\ y.upper \in S /\ FloorGap(c) \in S
  OBVIOUS
<1> HIDE DEF S
<1>5. PICK g \in Int, l \in Int, u \in Int :
        IsOf(x.gap, g, N) /\ IsOf(x.lower, l, N) /\ IsOf(x.upper, u, N)
  BY <1>3, <1>4 DEF OnScale
<1>6. PICK gg \in Int, ll \in Int, uu \in Int :
        IsOf(y.gap, gg, N) /\ IsOf(y.lower, ll, N) /\ IsOf(y.upper, uu, N)
  BY <1>3, <1>4 DEF OnScale
<1>7. PICK f \in Int : IsOf(FloorGap(c), f, N)
  BY <1>3, <1>4 DEF OnScale
<1>8. /\ x.gap \in Rationals /\ x.lower \in Rationals /\ x.upper \in Rationals
      /\ y.gap \in Rationals /\ y.lower \in Rationals /\ y.upper \in Rationals
      /\ FloorGap(c) \in Rationals
  BY <1>1, <1>4
<1>9. l <= g /\ g <= u /\ ll <= gg /\ gg <= uu
  BY <1>5, <1>6, <1>8, OnScaleCompares DEF IsCell
<1>10. l <= ll /\ g <= gg /\ u <= uu
  BY <1>5, <1>6, <1>8, OnScaleCompares DEF NoSlower
<1>11. f > 0 /\ (x.resolved <=> f < l \/ u < -f)
  BY <1>5, <1>7, <1>8, ResolvesOnScale DEF IsCell
<1>12. y.resolved <=> f < ll \/ uu < -f
  BY <1>6, <1>7, <1>8, ResolvesOnScale DEF IsCell
<1>13. ASSUME x.resolved, ~y.resolved
       PROVE  Less(x.lower, FloorGap(c)) /\ g < 0
  <2>1. l < f /\ g < 0
    BY <1>9, <1>10, <1>11, <1>12, <1>13
  <2> QED
    BY <1>5, <1>7, <1>8, <2>1, OnScaleCompares
<1>14. ASSUME ~x.resolved, y.resolved
       PROVE  Less(FloorGap(c), y.lower) /\ gg > 0
  <2>1. f < ll /\ gg > 0
    BY <1>9, <1>10, <1>11, <1>12, <1>14
  <2> QED
    BY <1>6, <1>7, <1>8, <2>1, OnScaleCompares
<1>15. Zero \in Rationals /\ IsOf(Zero, 0, N) /\ 0 \in Int
  BY ZeroIsOf
<1>16. AtMost(x.credited, y.credited)
  <2>1. CASE x.resolved /\ y.resolved
    BY <2>1 DEF IsCell, NoSlower
  <2>2. CASE x.resolved /\ ~y.resolved
    <3>1. g <= 0
      BY <1>13, <2>2
    <3>2. AtMost(x.gap, Zero)
      BY <1>5, <1>8, <1>15, <3>1, OnScaleCompares
    <3> QED
      BY <2>2, <3>2 DEF IsCell
  <2>3. CASE ~x.resolved /\ y.resolved
    <3>1. 0 <= gg
      BY <1>14, <2>3
    <3>2. AtMost(Zero, y.gap)
      BY <1>6, <1>8, <1>15, <3>1, OnScaleCompares
    <3> QED
      BY <2>3, <3>2 DEF IsCell
  <2>4. CASE ~x.resolved /\ ~y.resolved
    <3>1. AtMost(Zero, Zero)
      BY <1>15, AtMostIsTotal
    <3> QED
      BY <2>4, <3>1 DEF IsCell
  <2> QED
    BY <2>1, <2>2, <2>3, <2>4 DEF IsCell, Resolves
<1> QED
  BY <1>13, <1>14, <1>16

\* The scores of the cells of a run, and the fractions in them.
AreCells(x, D) ==
    /\ D \in SUBSET Cells /\ IsFiniteSet(D) /\ D # {} /\ DOMAIN x = D
    /\ \A c \in D : IsCell(x[c], c)

Values(x, D) ==
    ({x[c].lower : c \in D} \cup {x[c].gap : c \in D}) \cup {FloorGap(c) : c \in D} \cup {Zero}

\* What a run compares is finitely many fractions.
LEMMA ValuesAreFinite ==
    ASSUME NEW x, NEW D, AreCells(x, D)
    PROVE  IsFiniteSet(Values(x, D)) /\ Values(x, D) \in SUBSET Rationals
<1> DEFINE low == [c \in D |-> x[c].lower]
           gap == [c \in D |-> x[c].gap]
           flo == [c \in D |-> FloorGap(c)]
           A == {low[c] : c \in D}
           B == {gap[c] : c \in D}
           C == {flo[c] : c \in D}
           E == {Zero}
<1>1. IsFiniteSet(D)
  BY DEF AreCells
<1>2. Values(x, D) = (A \cup B) \cup C \cup E
  BY DEF Values
<1>3. /\ A \in SUBSET Rationals /\ B \in SUBSET Rationals
      /\ C \in SUBSET Rationals /\ E \in SUBSET Rationals
  BY FloorIsPositive, ZeroIsOf DEF AreCells, IsCell
<1>4. IsFiniteSet(E)
  BY FS_Singleton
<1> HIDE DEF low, gap, flo, E
<1>5. IsFiniteSet(A) /\ IsFiniteSet(B) /\ IsFiniteSet(C)
  BY <1>1, ImageIsFinite
<1> HIDE DEF A, B, C
<1>6. IsFiniteSet((A \cup B) \cup C \cup E)
  BY <1>4, <1>5, FS_Union
<1> QED
  BY <1>2, <1>3, <1>6

\* What a cell adds to the test of the run: how far it is above its floor.
Surplus(x, D, N) ==
    [c \in D |-> IF x[c].resolved
                 THEN (Numerator(x[c].lower, N) - Numerator(FloorGap(c), N)) * Cell[c].weight
                 ELSE 0]

\* A run resolves when its cells together exceed their floors.
LEMMA SurplusDecides ==
    ASSUME NEW x, NEW D, AreCells(x, D), NEW N \in Nat \ {0},
           NEW S, OnScale(S, N), Values(x, D) \subseteq S
    PROVE  LET resolved == {c \in D : x[c].resolved}
           IN /\ Terms(Surplus(x, D, N), D) /\ SumFunction(Surplus(x, D, N)) \in Int
              /\ Less(Total([c \in resolved |-> FloorGap(c)]),
                      Total([c \in resolved |-> x[c].lower]))
                    <=> SumFunction(Surplus(x, D, N)) > 0
<1> DEFINE R == {c \in D : x[c].resolved}
           flo == [c \in R |-> FloorGap(c)]
           low == [c \in R |-> x[c].lower]
           p == Numerators(flo, R, N)
           q == Numerators(low, R, N)
           s == Surplus(x, D, N)
           d == [c \in R |-> s[c]]
<1>1. /\ D \in SUBSET Cells /\ IsFiniteSet(D) /\ \A c \in D : IsCell(x[c], c)
      /\ R \in SUBSET D /\ R \in SUBSET Cells
  BY DEF AreCells
<1>2. IsFiniteSet(R)
  BY <1>1, FS_Subset
<1>3. /\ \A c \in D : x[c].lower \in S /\ FloorGap(c) \in S
      /\ \A c \in R : flo[c] \in S /\ low[c] \in S
  BY DEF Values
<1>4. flo \in [R -> Rationals] /\ low \in [R -> Rationals]
  BY <1>1, FloorIsPositive DEF IsCell
<1>5. \A c \in R : c \in D /\ x[c].resolved /\ flo[c] = FloorGap(c) /\ low[c] = x[c].lower
  OBVIOUS
<1>6. \A c \in D \ R : s[c] = 0
  BY DEF Surplus
<1>7. \A c \in R : s[c] = (Numerator(low[c], N) - Numerator(flo[c], N)) * Cell[c].weight
  BY DEF Surplus
<1>8. DOMAIN s = D /\ s = [c \in D |-> s[c]]
  BY DEF Surplus
<1> HIDE DEF R, flo, low, s
<1>9. /\ Terms(p, R) /\ SumFunction(p) \in Int /\ Total(flo) \in Rationals
      /\ IsOf(Total(flo), SumFunction(p), N)
  BY <1>1, <1>2, <1>3, <1>4, TotalOnScale
<1>10. /\ Terms(q, R) /\ SumFunction(q) \in Int /\ Total(low) \in Rationals
       /\ IsOf(Total(low), SumFunction(q), N)
  BY <1>1, <1>2, <1>3, <1>4, TotalOnScale
<1>11. ASSUME NEW c \in R
       PROVE  d[c] \in Int /\ d[c] = q[c] - p[c]
  <2> DEFINE m == Numerator(low[c], N)
             n == Numerator(flo[c], N)
             k == Cell[c].weight
  <2>1. m \in Int /\ n \in Int
    BY <1>3, NumeratorIsOf
  <2>2. k \in Nat
    BY <1>1, CellIsDeclared
  <2>3. q[c] = m * k /\ p[c] = n * k /\ d[c] = (m - n) * k
    BY <1>7 DEF Numerators
  <2> HIDE DEF m, n, k, p, q, d
  <2> QED
    BY <2>1, <2>2, <2>3
<1>12. Terms(d, R)
  <2>1. d \in [R -> Int]
    BY <1>11
  <2> QED
    BY <1>2, <2>1 DEF Terms
<1>13. Terms(s, D)
  <2>1. ASSUME NEW c \in D
        PROVE  s[c] \in Int
    <3>1. c \in R => s[c] = d[c]
      OBVIOUS
    <3> QED
      BY <1>6, <1>11, <3>1
  <2>2. s \in [D -> Int]
    BY <1>8, <2>1
  <2> QED
    BY <1>1, <2>2 DEF Terms
<1>14. Equal(s, d, R)
  BY DEF Equal
<1> HIDE DEF p, q, d
<1>15. Difference(d, q, p, R)
  BY <1>11 DEF Difference
<1>16. SumFunction(d) = SumFunction(q) - SumFunction(p)
  BY <1>9, <1>10, <1>12, <1>15, SumOfDifferences
<1>17. SumFunction(s) = SumFunction(d)
  BY <1>1, <1>6, <1>12, <1>13, <1>14, SumOverPart
<1>18. Less(Total(flo), Total(low)) <=> SumFunction(p) < SumFunction(q)
  BY <1>9, <1>10, OnScaleCompares
<1>19. SumFunction(s) \in Int /\ (SumFunction(p) < SumFunction(q) <=> SumFunction(s) > 0)
  BY <1>9, <1>10, <1>16, <1>17
<1> QED
  BY <1>13, <1>18, <1>19 DEF R, flo, low, s

\* A run that is credited something did not resolve as a loss.
LEMMA CreditIsNoLoss ==
    ASSUME NEW x, NEW D, AreCells(x, D), Total([c \in D |-> x[c].credited])[1] > 0
    PROVE  LET resolved == {c \in D : x[c].resolved}
           IN ~Less(Total([c \in resolved |-> x[c].upper]),
                    Minus(Total([c \in resolved |-> FloorGap(c)])))
<1> DEFINE R == {c \in D : x[c].resolved}
           cre == [c \in D |-> x[c].credited]
           gap == [c \in R |-> x[c].gap]
           upp == [c \in R |-> x[c].upper]
           flo == [c \in R |-> FloorGap(c)]
           nil == [c \in R |-> Zero]
           S == Values(x, D)
<1>1. /\ D \in SUBSET Cells /\ IsFiniteSet(D) /\ \A c \in D : IsCell(x[c], c)
      /\ R \in SUBSET D /\ R \in SUBSET Cells
  BY DEF AreCells
<1>2. IsFiniteSet(R)
  BY <1>1, FS_Subset
<1>3. /\ cre \in [D -> Rationals] /\ gap \in [R -> Rationals] /\ upp \in [R -> Rationals]
      /\ flo \in [R -> Rationals]
  BY <1>1, ZeroIsOf, FloorIsPositive DEF IsCell
<1>4. \A c \in D : cre[c] \in S
  BY <1>1 DEF Values, IsCell
<1>5. \A c \in R : gap[c] \in S /\ cre[c] = gap[c] /\ flo[c] \in S
  BY <1>1 DEF Values, IsCell
<1>6. \A c \in D \ R : cre[c] = Zero
  BY <1>1 DEF IsCell
<1>7. \A c \in R : AtMost(gap[c], upp[c])
  BY <1>1 DEF IsCell
<1>8. Zero \in S
  BY DEF Values
<1>9. IsFiniteSet(S) /\ S \in SUBSET Rationals
  BY ValuesAreFinite
<1>10. \A c \in R : FloorGap(c) \in Rationals /\ FloorGap(c)[1] > 0 /\ flo[c] = FloorGap(c)
  BY <1>1, FloorIsPositive
<1>11. Total(cre)[1] > 0
  OBVIOUS
<1> HIDE DEF R, cre, gap, upp, flo, S
<1>12. PICK N \in Nat \ {0} : OnScale(S, N)
  BY <1>9, ScaleExists
<1> DEFINE p == Numerators(cre, D, N)
           q == Numerators(gap, R, N)
           r == Numerators(flo, R, N)
<1>13. /\ Terms(p, D) /\ SumFunction(p) \in Int /\ Total(cre) \in Rationals
       /\ IsOf(Total(cre), SumFunction(p), N)
  BY <1>1, <1>3, <1>4, <1>12, TotalOnScale
<1>14. /\ Terms(q, R) /\ SumFunction(q) \in Int /\ Total(gap) \in Rationals
       /\ IsOf(Total(gap), SumFunction(q), N)
  BY <1>1, <1>2, <1>3, <1>5, <1>12, TotalOnScale
<1>15. /\ Terms(r, R) /\ SumFunction(r) \in Int /\ Total(flo) \in Rationals
       /\ IsOf(Total(flo), SumFunction(r), N)
  BY <1>1, <1>2, <1>3, <1>5, <1>12, TotalOnScale
<1>16. Equal(p, q, R)
  BY <1>1, <1>5 DEF Equal, Numerators
<1>17. ASSUME NEW c \in D \ R
       PROVE  p[c] = 0
  <2>1. Numerator(Zero, N) = 0
    <3>1. Numerator(Zero, N) \in Int /\ IsOf(Zero, Numerator(Zero, N), N)
      BY <1>8, <1>12, NumeratorIsOf
    <3>2. Zero \in Rationals /\ IsOf(Zero, 0, N) /\ 0 \in Int
      BY ZeroIsOf
    <3> QED
      BY <3>1, <3>2, OnlyOneOf
  <2>2. Cell[c].weight \in Nat
    BY <1>1, CellIsDeclared
  <2>3. p[c] = Numerator(Zero, N) * Cell[c].weight
    BY <1>6 DEF Numerators
  <2> QED
    BY <2>1, <2>2, <2>3
<1>18. ASSUME NEW c \in R
       PROVE  r[c] >= 0
  <2> DEFINE n == Numerator(flo[c], N)
             k == Cell[c].weight
  <2>1. n \in Int /\ IsOf(flo[c], n, N)
    BY <1>5, <1>12, NumeratorIsOf
  <2>2. k \in Nat
    BY <1>1, CellIsDeclared
  <2>3. r[c] = n * k
    BY DEF Numerators
  <2> HIDE DEF n, k, r
  <2>4. n > 0
    BY <1>10, <2>1, OnScaleCompares
  <2> QED
    BY <2>1, <2>2, <2>3, <2>4
<1> HIDE DEF p, q, r
<1>19. SumFunction(p) = SumFunction(q)
  BY <1>1, <1>13, <1>14, <1>16, <1>17, SumOverPart
<1>20. SumFunction(r) >= 0
  BY <1>15, <1>18, SumIsNatural
<1>21. Total(gap)[1] > 0
  <2>1. SumFunction(p) > 0
    BY <1>11, <1>13, OnScaleCompares
  <2>2. SumFunction(q) > 0
    BY <1>19, <2>1
  <2> QED
    BY <1>14, <2>2, OnScaleCompares
<1>22. Total(upp) \in Rationals /\ Total(upp)[1] > 0
  BY <1>1, <1>2, <1>3, <1>7, <1>21, TotalGrows, TotalOfParts
<1> DEFINE t == Total(flo)
           v == Total(upp)
<1>23. AtMost(Zero, t)
  <2>1. 0 <= SumFunction(r)
    BY <1>15, <1>20
  <2> QED
    BY <1>15, <2>1, ZeroIsOf, OnScaleCompares
<1>24. v \in Rationals /\ v[1] > 0 /\ t \in Rationals
  BY <1>15, <1>22
<1> HIDE DEF t, v
<1>25. ~Less(v, Minus(t))
  <2>1. PICK t1 \in Int, t2 \in Nat \ {0} : t1 = t[1] /\ t2 = t[2]
    BY <1>24 DEF Rationals
  <2>2. PICK v1 \in Nat \ {0}, v2 \in Nat \ {0} : v1 = v[1] /\ v2 = v[2]
    BY <1>24 DEF Rationals
  <2>3. t1 >= 0
    BY <1>23, <2>1 DEF AtMost, Less, Zero
  <2>4. v1 * t2 \in Nat \ {0}
    BY ProductIsPositive
  <2>5. t1 * v2 >= 0
    BY <2>3
  <2>6. (-t1) * v2 = -(t1 * v2)
    OBVIOUS
  <2>7. ~(v1 * t2 < (-t1) * v2)
    BY <2>4, <2>5, <2>6
  <2> QED
    BY <2>1, <2>2, <2>7 DEF Less, Minus
<1> QED
  BY <1>25 DEF t, v, flo, upp, R

\* The mean of a total over the weights of the cells.
LEMMA MeanIsOf ==
    ASSUME NEW N \in Nat \ {0}, NEW a \in Rationals, NEW p \in Int, IsOf(a, p, N),
           NEW W \in Nat \ {0}
    PROVE  /\ Reduced(<<a[1], a[2] * W>>) \in Rationals
           /\ IsOf(Reduced(<<a[1], a[2] * W>>), p, N * W)
<1> DEFINE r == <<a[1], a[2] * W>>
           M == N * W
<1>1. a[1] \in Int /\ a[2] \in Nat \ {0} /\ a[1] * N = p * a[2]
  BY DEF Rationals, IsOf
<1>2. a[2] * W \in Nat \ {0} /\ M \in Nat \ {0}
  BY <1>1, ProductIsPositive
<1>3. r \in Rationals /\ r[1] = a[1] /\ r[2] = a[2] * W
  BY <1>1, <1>2 DEF Rationals
<1>4. a[1] * (N * W) = p * (a[2] * W)
  <2>1. (a[1] * N) * W = (p * a[2]) * W
    BY <1>1
  <2> QED
    BY <1>1, <2>1
<1> HIDE DEF r
<1>5. IsOf(r, p, M)
  BY <1>3, <1>4 DEF IsOf
<1> HIDE DEF M
<1>6. Reduced(r) \in Rationals /\ IsOf(Reduced(r), p, M)
  BY <1>2, <1>3, <1>5, ReducedIsOf, ReducedIsTheSame
<1> QED
  BY <1>6 DEF r, M

\* A run whose cells are no slower is credited no less, and resolves if it did.
LEMMA AggregateGrows ==
    ASSUME NEW x, NEW y, NEW D, AreCells(x, D), AreCells(y, D),
           \A c \in D : NoSlower(x[c], y[c]),
           Aggregate(x).resolved, Aggregate(x).gap[1] > 0
    PROVE  /\ Aggregate(y).resolved
           /\ AtMost(Aggregate(x).gap, Aggregate(y).gap)
           /\ Aggregate(y).gap[1] > 0
<1> DEFINE R == {c \in D : x[c].resolved}
           T == {c \in D : y[c].resolved}
           cx == [c \in D |-> x[c].credited]
           cy == [c \in D |-> y[c].credited]
           W == WeightOf(D)
           S == Values(x, D) \cup Values(y, D)
<1>1. /\ D \in SUBSET Cells /\ IsFiniteSet(D) /\ D # {} /\ DOMAIN x = D /\ DOMAIN y = D
      /\ \A c \in D : IsCell(x[c], c) /\ IsCell(y[c], c)
  BY DEF AreCells
<1>2. cx \in [D -> Rationals] /\ cy \in [D -> Rationals]
  BY <1>1, ZeroIsOf DEF IsCell
<1>3. \A c \in D : /\ AtMost(cx[c], cy[c])
                   /\ x[c].resolved /\ ~y[c].resolved => Less(x[c].lower, FloorGap(c))
                   /\ ~x[c].resolved /\ y[c].resolved => Less(FloorGap(c), y[c].lower)
  BY <1>1, CellGrows
<1>4. IsFiniteSet(S) /\ S \in SUBSET Rationals
  <2>1. /\ IsFiniteSet(Values(x, D)) /\ Values(x, D) \in SUBSET Rationals
        /\ IsFiniteSet(Values(y, D)) /\ Values(y, D) \in SUBSET Rationals
    BY ValuesAreFinite
  <2> QED
    BY <2>1, FS_Union
<1>5. \A c \in D : /\ cx[c] \in S /\ cy[c] \in S
                   /\ x[c].lower \in S /\ y[c].lower \in S /\ FloorGap(c) \in S
  BY <1>1 DEF Values, IsCell
<1>6. Values(x, D) \subseteq S /\ Values(y, D) \subseteq S
  OBVIOUS
<1>7. /\ Aggregate(x).gap = Reduced(<<Total(cx)[1], Total(cx)[2] * W>>)
      /\ Aggregate(y).gap = Reduced(<<Total(cy)[1], Total(cy)[2] * W>>)
  BY <1>1 DEF Aggregate
<1>8. W \in Nat \ {0}
  BY <1>1, WeightIsPositive
<1> HIDE DEF S
<1>9. PICK N \in Nat \ {0} : OnScale(S, N)
  BY <1>4, ScaleExists
<1> DEFINE p == SumFunction(Numerators(cx, D, N))
           q == SumFunction(Numerators(cy, D, N))
           M == N * W
<1>10. p \in Int /\ Total(cx) \in Rationals /\ IsOf(Total(cx), p, N)
  BY <1>1, <1>2, <1>5, <1>9, TotalOnScale
<1>11. q \in Int /\ Total(cy) \in Rationals /\ IsOf(Total(cy), q, N)
  BY <1>1, <1>2, <1>5, <1>9, TotalOnScale
<1>12. M \in Nat \ {0}
  BY <1>8, ProductIsPositive
<1>13. Aggregate(x).gap \in Rationals /\ IsOf(Aggregate(x).gap, p, M)
  <2> HIDE DEF p, cx, W
  <2> QED
    BY <1>7, <1>8, <1>10, MeanIsOf
<1>14. Aggregate(y).gap \in Rationals /\ IsOf(Aggregate(y).gap, q, M)
  <2> HIDE DEF q, cy, W
  <2> QED
    BY <1>7, <1>8, <1>11, MeanIsOf
<1>15. AtMost(Total(cx), Total(cy))
  BY <1>1, <1>2, <1>3, TotalGrows
<1>16. Total(cx)[1] > 0 /\ AtMost(Aggregate(x).gap, Aggregate(y).gap) /\ Aggregate(y).gap[1] > 0
  <2> HIDE DEF p, q, M, cx, cy
  <2>1. p > 0
    BY <1>10, <1>12, <1>13, OnScaleCompares
  <2>2. p <= q
    BY <1>10, <1>11, <1>15, OnScaleCompares
  <2>3. Total(cx)[1] > 0
    BY <1>10, <2>1, OnScaleCompares
  <2>4. AtMost(Aggregate(x).gap, Aggregate(y).gap)
    BY <1>10, <1>11, <1>12, <1>13, <1>14, <2>2, OnScaleCompares
  <2>5. q > 0
    BY <1>10, <1>11, <2>1, <2>2
  <2>6. Aggregate(y).gap[1] > 0
    BY <1>11, <1>12, <1>14, <2>5, OnScaleCompares
  <2> QED
    BY <2>3, <2>4, <2>6
<1> DEFINE s == Surplus(x, D, N)
           t == Surplus(y, D, N)
<1>17. /\ Terms(s, D) /\ SumFunction(s) \in Int
       /\ Less(Total([c \in R |-> FloorGap(c)]), Total([c \in R |-> x[c].lower]))
            <=> SumFunction(s) > 0
  BY <1>6, <1>9, SurplusDecides
<1>18. /\ Terms(t, D) /\ SumFunction(t) \in Int
       /\ Less(Total([c \in T |-> FloorGap(c)]), Total([c \in T |-> y[c].lower]))
            <=> SumFunction(t) > 0
  BY <1>6, <1>9, SurplusDecides
<1>19. SumFunction(s) > 0
  <2>1. ~Less(Total([c \in R |-> x[c].upper]), Minus(Total([c \in R |-> FloorGap(c)])))
    BY <1>16, CreditIsNoLoss
  <2>2. Less(Total([c \in R |-> FloorGap(c)]), Total([c \in R |-> x[c].lower]))
    BY <1>1, <2>1 DEF Aggregate
  <2> QED
    BY <1>17, <2>2
<1>20. ASSUME NEW c \in D
       PROVE  s[c] <= t[c]
  <2> DEFINE f == Numerator(FloorGap(c), N)
             l == Numerator(x[c].lower, N)
             m == Numerator(y[c].lower, N)
             k == Cell[c].weight
  <2>1. /\ f \in Int /\ IsOf(FloorGap(c), f, N)
        /\ l \in Int /\ IsOf(x[c].lower, l, N)
        /\ m \in Int /\ IsOf(y[c].lower, m, N)
    BY <1>5, <1>9, NumeratorIsOf
  <2>2. k \in Nat \ {0}
    BY <1>1, CellIsDeclared
  <2>3. /\ s[c] = IF x[c].resolved THEN (l - f) * k ELSE 0
        /\ t[c] = IF y[c].resolved THEN (m - f) * k ELSE 0
    BY DEF Surplus
  <2>4. FloorGap(c) \in Rationals /\ x[c].lower \in Rationals /\ y[c].lower \in Rationals
    BY <1>4, <1>5
  <2> HIDE DEF f, l, m, k, s, t
  <2>5. l <= m
    <3>1. AtMost(x[c].lower, y[c].lower)
      BY DEF NoSlower
    <3> QED
      BY <2>1, <2>4, <3>1, OnScaleCompares
  <2>6. x[c].resolved /\ ~y[c].resolved => l < f
    BY <1>3, <2>1, <2>4, OnScaleCompares
  <2>7. ~x[c].resolved /\ y[c].resolved => f < m
    BY <1>3, <2>1, <2>4, OnScaleCompares
  <2> DEFINE i == l - f
             j == m - f
  <2>8. i \in Int /\ j \in Int /\ i <= j /\ 0 \in Int
    BY <2>1, <2>5
  <2>9. /\ x[c].resolved /\ ~y[c].resolved => i <= 0
        /\ ~x[c].resolved /\ y[c].resolved => 0 <= j
    BY <2>1, <2>6, <2>7
  <2> HIDE DEF i, j
  <2>10. i * k <= j * k /\ (i <= 0 => i * k <= 0 * k) /\ (0 <= j => 0 * k <= j * k) /\ 0 * k = 0
    BY <2>2, <2>8, TimesOrder
  <2>11. /\ s[c] = IF x[c].resolved THEN i * k ELSE 0
         /\ t[c] = IF y[c].resolved THEN j * k ELSE 0
    BY <2>3 DEF i, j
  <2>12. 0 <= 0
    OBVIOUS
  <2> QED
    BY <2>9, <2>10, <2>11, <2>12
<1>21. Below(s, t, D)
  BY <1>20 DEF Below
<1> HIDE DEF s, t
<1>22. SumFunction(t) > 0
  <2>1. SumFunction(s) <= SumFunction(t)
    BY <1>17, <1>18, <1>21, SumIsMonotone
  <2> QED
    BY <1>17, <1>18, <1>19, <2>1
<1>23. Less(Total([c \in T |-> FloorGap(c)]), Total([c \in T |-> y[c].lower]))
  BY <1>18, <1>22
<1>24. T # {}
  <2> SUFFICES ASSUME T = {}
               PROVE  FALSE
    OBVIOUS
  <2>1. \A c \in D : ~y[c].resolved
    OBVIOUS
  <2>2. \A c \in D : t[c] = 0
    BY <2>1 DEF t, Surplus
  <2>3. \A c \in D : t[c] = -t[c]
    BY <2>2
  <2>4. SumFunction(t) = -SumFunction(t)
    BY <1>18, <2>3, SumOfNegatives
  <2> QED
    BY <1>18, <1>22, <2>4
<1>25. Aggregate(y).resolved
  BY <1>1, <1>23, <1>24 DEF Aggregate
<1> QED
  BY <1>16, <1>25

-----------------------------------------------------------------------------
\* An arm that is no slower

\* Of two fractions of the same gap, that of the faster candidate is no less.
LEMMA FasterFraction ==
    ASSUME NEW k \in Nat \ {0}, NEW left \in Nat \ {0}, NEW b \in Nat \ {0},
           NEW s \in Nat \ {0}, NEW t \in Nat \ {0}, s <= t
    PROVE  ~((k * (b - s)) * (t * left) < (k * (b - t)) * (s * left))
<1> DEFINE n == k * left
           x == (b - s) * t
           y == (b - t) * s
<1>1. n \in Nat \ {0}
  BY ProductIsPositive
<1>2. (k * (b - s)) * (t * left) = x * n
  OBVIOUS
<1>3. (k * (b - t)) * (s * left) = y * n
  OBVIOUS
<1>4. y <= x
  <2>1. s * b <= t * b
    BY TimesOrder
  <2>2. x = t * b - s * t /\ y = s * b - s * t
    OBVIOUS
  <2>3. s * b \in Int /\ t * b \in Int /\ s * t \in Int
    OBVIOUS
  <2> QED
    BY <2>1, <2>2, <2>3
<1>5. x \in Int /\ y \in Int
  OBVIOUS
<1> HIDE DEF n, x, y
<1>6. y * n <= x * n /\ y * n \in Int /\ x * n \in Int
  BY <1>1, <1>4, <1>5, TimesOrder
<1>7. ~(x * n < y * n)
  BY <1>6
<1> QED
  BY <1>2, <1>3, <1>7

\* A faster candidate closes at least as much of the gap.
LEMMA GapGrows ==
    ASSUME NEW c \in Cells, NEW run \in Nat \ {0}, NEW b \in Nat \ {0},
           NEW s \in Nat \ {0}, NEW t \in Nat \ {0}, s <= t
    PROVE  AtMost(Gap(RunCeiling(c, run), b, t), Gap(RunCeiling(c, run), b, s))
<1> DEFINE k == RunCeiling(c, run)
           left == k[2] * b - k[1]
           q == <<k[1] * (b - s), s * left>>
           r == <<k[1] * (b - t), t * left>>
<1>1. k[1] \in Nat \ {0} /\ k[2] \in Nat \ {0}
  BY CellIsDeclared, ProductIsPositive DEF RunCeiling
<1>2. left \in Int
  BY <1>1
<1>3. /\ Gap(k, b, s) = IF left <= 0 THEN Zero ELSE Reduced(q)
      /\ Gap(k, b, t) = IF left <= 0 THEN Zero ELSE Reduced(r)
  BY DEF Gap
<1>4. CASE left <= 0
  <2>1. AtMost(Zero, Zero)
    BY DEF AtMost, Less, Zero
  <2> QED
    BY <1>3, <1>4, <2>1
<1>5. CASE ~(left <= 0)
  <2> DEFINE k1 == k[1]
  <2>1. k1 \in Nat \ {0} /\ left \in Nat \ {0}
    BY <1>1, <1>2, <1>5
  <2>2. q = <<k1 * (b - s), s * left>> /\ r = <<k1 * (b - t), t * left>>
    OBVIOUS
  <2> HIDE DEF k1, left, q, r
  <2>3. /\ q[1] = k1 * (b - s) /\ q[2] = s * left
        /\ r[1] = k1 * (b - t) /\ r[2] = t * left
    BY <2>2
  <2>4. s * left \in Nat \ {0} /\ t * left \in Nat \ {0}
    BY <2>1, ProductIsPositive
  <2>5. k1 * (b - s) \in Int /\ k1 * (b - t) \in Int
    BY <2>1
  <2>6. q \in Rationals /\ r \in Rationals
    BY <2>2, <2>4, <2>5 DEF Rationals
  <2>7. ~((k1 * (b - s)) * (t * left) < (k1 * (b - t)) * (s * left))
    BY <2>1, FasterFraction
  <2>8. ~Less(q, r)
    BY <2>3, <2>7 DEF Less
  <2>9. ~Less(Reduced(q), Reduced(r))
    <3>1. Reduced(r) \in Rationals
      BY <2>6, ReducedIsTheSame
    <3> QED
      BY <2>6, <2>8, <3>1, ReducedCompares
  <2> QED
    BY <1>3, <1>5, <2>9 DEF AtMost
<1> QED
  BY <1>4, <1>5

\* The arm is the other one, but no slower in any repeat.
IsAsFast(quick, cand) ==
    /\ RepeatsOf(quick) = RepeatsOf(cand)
    /\ \A k \in RepeatsOf(cand) : Root(quick, k) <= Root(cand, k)
    /\ \A r \in cand : \E q \in quick :
          q.root <= r.root /\ q.memory = r.memory /\ q.drift = r.drift

\* A faster arm has the lesser product, in every draw.
LEMMA GeomeanGrows ==
    ASSUME NEW cand, Recorded(cand), NEW quick, Recorded(quick), IsAsFast(quick, cand),
           NEW D, IsFiniteSet(D), NEW d \in [D -> RepeatsOf(cand)]
    PROVE  Geomean(quick, d) <= Geomean(cand, d)
<1> DEFINE f == [i \in D |-> Root(quick, d[i])]
           g == [i \in D |-> Root(cand, d[i])]
<1>1. \A i \in D : d[i] \in RepeatsOf(cand) /\ d[i] \in RepeatsOf(quick)
  BY DEF IsAsFast
<1>2. \A i \in D : Root(quick, d[i]) \in Nat \ {0} /\ Root(cand, d[i]) \in Nat \ {0}
  BY <1>1, RootIsPositive
<1>3. f \in [D -> (Nat \ {0})] /\ g \in [D -> (Nat \ {0})]
  BY <1>2
<1>4. \A i \in D : f[i] <= g[i]
  BY <1>1 DEF IsAsFast
<1>5. Geomean(quick, d) = Product(f) /\ Geomean(cand, d) = Product(g)
  BY DEF Geomean
<1> HIDE DEF f, g
<1>6. Product(f) <= Product(g)
  BY <1>3, <1>4, ProductGrows
<1> QED
  BY <1>5, <1>6

\* Of either candidate, the gap of a draw.
LEMMA DrawGrows ==
    ASSUME NEW c, NEW base, NEW cand, NEW quick, Samples(c, base, cand),
           Samples(c, base, quick), IsAsFast(quick, cand), NEW d \in Draws(base)
    PROVE  LET k == RunCeiling(c, Geomean(base, Identity(base)))
           IN AtMost(Gap(k, Geomean(base, d), Geomean(cand, d)),
                     Gap(k, Geomean(base, d), Geomean(quick, d)))
<1> DEFINE run == Geomean(base, Identity(base))
           b == Geomean(base, d)
           t == Geomean(cand, d)
           s == Geomean(quick, d)
           D == 1 .. Repeats
<1>1. /\ c \in Cells /\ Recorded(base) /\ Recorded(cand) /\ Recorded(quick)
      /\ RepeatsOf(base) = RepeatsOf(cand) /\ RepeatsOf(base) = RepeatsOf(quick)
  BY DEF Samples, Scorable, Paired
<1>2. run \in Nat \ {0}
  BY <1>1, MeanIsMeasured
<1>3. b \in Nat \ {0} /\ t \in Nat \ {0} /\ s \in Nat \ {0}
  BY <1>1, DrawIsMeasured
<1>4. IsFiniteSet(D)
  <2>1. 1 \in Int /\ Repeats \in Int
    BY CellsAssumption
  <2> QED
    BY <2>1, FS_Interval
<1>5. d \in [D -> RepeatsOf(cand)]
  BY <1>1 DEF Draws
<1>6. s <= t
  <2> HIDE DEF D
  <2> QED
    BY <1>1, <1>4, <1>5, GeomeanGrows
<1> HIDE DEF run, b, t, s, D
<1>7. AtMost(Gap(RunCeiling(c, run), b, t), Gap(RunCeiling(c, run), b, s))
  BY <1>1, <1>2, <1>3, <1>6, GapGrows
<1> QED
  BY <1>7 DEF run, b, t, s

\* What a cell is scored: a gap within its interval.
LEMMA ScoreIsACell ==
    ASSUME NEW c, NEW base, NEW cand, Samples(c, base, cand), InRepeats(base)
    PROVE  IsCell(ScoreCell(c, base, cand), c)
<1> DEFINE x == ScoreCell(c, base, cand)
           S == Resampled(c, base, cand)
<1>1. IsFiniteSet(S) /\ S \in SUBSET Rationals /\ x.gap \in S
  BY ResamplesAreFinite
<1>2. x.lower = Least(S) /\ x.upper = Greatest(S)
  BY DEF ScoreCell
<1>3. /\ x.resolved = Resolves(c, x.lower, x.upper)
      /\ x.credited = IF x.resolved THEN x.gap ELSE Zero
  BY DEF ScoreCell
<1> HIDE DEF x, S
<1>4. x.lower \in S /\ x.upper \in S /\ \A r \in S : AtMost(x.lower, r) /\ AtMost(r, x.upper)
  BY <1>1, <1>2, ExtremesExist
<1>5. x.gap \in Rationals /\ x.lower \in Rationals /\ x.upper \in Rationals
  BY <1>1, <1>4
<1>6. AtMost(x.lower, x.gap) /\ AtMost(x.gap, x.upper)
  BY <1>1, <1>4
<1> QED
  BY <1>3, <1>5, <1>6 DEF IsCell, x

\* The cell of an arm that is no slower is no slower.
LEMMA CellIsNoSlower ==
    ASSUME NEW c, NEW base, NEW cand, NEW quick, Samples(c, base, cand),
           Samples(c, base, quick), InRepeats(base), IsAsFast(quick, cand)
    PROVE  NoSlower(ScoreCell(c, base, cand), ScoreCell(c, base, quick))
<1> DEFINE k == RunCeiling(c, Geomean(base, Identity(base)))
           h(arm, d) == Gap(k, Geomean(base, d), Geomean(arm, d))
           x == ScoreCell(c, base, cand)
           y == ScoreCell(c, base, quick)
           S == Resampled(c, base, cand)
           T == Resampled(c, base, quick)
<1>1. /\ IsFiniteSet(S) /\ S \in SUBSET Rationals /\ x.gap \in S
      /\ IsFiniteSet(T) /\ T \in SUBSET Rationals /\ y.gap \in T
  BY ResamplesAreFinite
<1>2. /\ x.lower = Least(S) /\ x.upper = Greatest(S)
      /\ y.lower = Least(T) /\ y.upper = Greatest(T)
  BY DEF ScoreCell
<1>3. S = {h(cand, d) : d \in Draws(base)} /\ T = {h(quick, d) : d \in Draws(base)}
  BY DEF Resampled
<1>4. \A d \in Draws(base) : AtMost(h(cand, d), h(quick, d))
  BY DrawGrows
<1>5. AtMost(x.gap, y.gap)
  <2>1. /\ Recorded(base) /\ Recorded(cand) /\ Recorded(quick)
        /\ RepeatsOf(base) = RepeatsOf(cand) /\ RepeatsOf(base) = RepeatsOf(quick)
        /\ Cardinality(RepeatsOf(base)) >= Repeats
    BY DEF Samples, Scorable, Paired
  <2>2. RepeatsOf(base) = 1 .. Repeats
    BY <2>1, RepeatsAreAll
  <2>3. /\ Identity(base) \in [RepeatsOf(base) -> RepeatsOf(base)]
        /\ Identity(cand) = Identity(base) /\ Identity(quick) = Identity(base)
    BY <2>1, IdentityIsADraw
  <2>4. Identity(base) \in Draws(base)
    BY <2>2, <2>3 DEF Draws
  <2>5. x.gap = h(cand, Identity(base)) /\ y.gap = h(quick, Identity(base))
    BY <2>3 DEF ScoreCell
  <2> QED
    BY <1>4, <2>4, <2>5
<1> HIDE DEF h, x, y, S, T
<1>6. /\ x.lower \in S /\ x.upper \in S /\ \A r \in S : AtMost(x.lower, r) /\ AtMost(r, x.upper)
      /\ y.lower \in T /\ y.upper \in T /\ \A r \in T : AtMost(y.lower, r) /\ AtMost(r, y.upper)
  BY <1>1, <1>2, ExtremesExist
<1>7. AtMost(x.lower, y.lower)
  <2>1. PICK d \in Draws(base) : y.lower = h(quick, d)
    BY <1>3, <1>6
  <2>2. h(cand, d) \in S
    BY <1>3
  <2>3. AtMost(x.lower, h(cand, d)) /\ AtMost(h(cand, d), y.lower)
    BY <1>4, <1>6, <2>1, <2>2
  <2>4. x.lower \in Rationals /\ y.lower \in Rationals /\ h(cand, d) \in Rationals
    BY <1>1, <1>6, <2>2
  <2> QED
    BY <2>3, <2>4, AtMostTransitive
<1>8. AtMost(x.upper, y.upper)
  <2>1. PICK d \in Draws(base) : x.upper = h(cand, d)
    BY <1>3, <1>6
  <2>2. h(quick, d) \in T
    BY <1>3
  <2>3. AtMost(x.upper, h(quick, d)) /\ AtMost(h(quick, d), y.upper)
    BY <1>4, <1>6, <2>1, <2>2
  <2>4. x.upper \in Rationals /\ y.upper \in Rationals /\ h(quick, d) \in Rationals
    BY <1>1, <1>6, <2>2
  <2> QED
    BY <2>3, <2>4, AtMostTransitive
<1> QED
  BY <1>5, <1>7, <1>8 DEF NoSlower, x, y

-----------------------------------------------------------------------------
\* The frontier of an arm that is no slower

\* What more is covered is no less volume.
LEMMA VolumeGrows ==
    ASSUME NEW n \in Nat \ {0}, NEW points, NEW others, NEW ref, NEW top,
           ArePoints(points, ref, top), ArePoints(others, ref, top), DOMAIN ref = 1 .. n,
           \A p \in points : \E q \in others : \A i \in DOMAIN ref : q[i] >= p[i]
    PROVE  Hypervolume(points, ref) <= Hypervolume(others, ref)
<1> DEFINE P == CoveredBy(points, ref, top)
           Q == CoveredBy(others, ref, top)
<1>1. /\ IsFiniteSet(P) /\ Hypervolume(points, ref) = Cardinality(P)
      /\ IsFiniteSet(Q) /\ Hypervolume(others, ref) = Cardinality(Q)
  BY VolumeIsACount
<1>2. ASSUME NEW box \in P
      PROVE  box \in Q
  <2>1. PICK p \in points : \A i \in DOMAIN ref : p[i] > box[i]
    BY DEF CoveredBy
  <2>2. PICK q \in others : \A i \in DOMAIN ref : q[i] >= p[i]
    OBVIOUS
  <2>3. box \in Room(ref, top)
    BY DEF CoveredBy
  <2>4. \A i \in DOMAIN ref : box[i] \in Int /\ p[i] \in Int /\ q[i] \in Int
    BY <2>3 DEF Room, ArePoints
  <2>5. \A i \in DOMAIN ref : q[i] > box[i]
    BY <2>1, <2>2, <2>4
  <2> QED
    BY <2>3, <2>5 DEF CoveredBy
<1>3. P \in SUBSET Q
  BY <1>2
<1> HIDE DEF P, Q
<1>4. Cardinality(P) <= Cardinality(Q)
  BY <1>1, <1>3, FS_Subset
<1> QED
  BY <1>1, <1>4

\* Clamping keeps the order.
LEMMA NormalizeGrows ==
    ASSUME NEW x \in Int, NEW y \in Int, x <= y, NEW top \in Nat
    PROVE  Normalize(x, top) <= Normalize(y, top)
BY DEF Normalize

\* A record that is no slower, and the same otherwise, is a point as good.
LEMMA PointGrows ==
    ASSUME NEW c \in Cells, NEW b \in Nat \ {0}, NEW cand, Recorded(cand), NEW r \in cand,
           NEW quick, Recorded(quick), NEW q \in quick,
           q.root <= r.root, q.memory = r.memory, q.drift = r.drift
    PROVE  \A i \in DOMAIN Corner : Point(c, b, q)[i] >= Point(c, b, r)[i]
<1> DEFINE s == Seconds(q)
           t == Seconds(r)
           a1 == Cell[c].achieved[1]
           a2 == Cell[c].achieved[2]
           m == (3 * a2 - 2 * a1) * b
           x == a2 * (3 * b - 2 * t)
           y == a2 * (3 * b - 2 * s)
<1>1. s \in Nat \ {0} /\ t \in Nat \ {0}
  BY SecondsArePositive
<1>2. a1 \in Nat \ {0} /\ a2 \in Nat \ {0} /\ a1 < a2
  BY CellIsDeclared
<1>3. s <= t
  <2> DEFINE D == 1 .. Repeats
             f == [k \in D |-> q.root]
             g == [k \in D |-> r.root]
  <2>1. q.root \in Nat \ {0} /\ r.root \in Nat \ {0}
    BY DEF Recorded, RawRecords
  <2>2. f \in [D -> (Nat \ {0})] /\ g \in [D -> (Nat \ {0})] /\ \A k \in D : f[k] <= g[k]
    BY <2>1
  <2>3. IsFiniteSet(D)
    <3>1. 1 \in Int /\ Repeats \in Int
      BY CellsAssumption
    <3> QED
      BY <3>1, FS_Interval
  <2>4. s = Product(f) /\ t = Product(g)
    BY DEF Seconds
  <2> HIDE DEF D, f, g, s, t
  <2>5. Product(f) <= Product(g)
    BY <2>2, <2>3, ProductGrows
  <2> QED
    BY <2>4, <2>5
<1>4. m \in Nat
  <2>1. 3 * a2 - 2 * a1 \in Nat
    BY <1>2
  <2> QED
    BY <2>1
<1>5. x \in Int /\ y \in Int /\ x <= y
  <2> DEFINE i == 3 * b - 2 * t
             j == 3 * b - 2 * s
  <2>1. i \in Int /\ j \in Int /\ i <= j
    BY <1>1, <1>3
  <2>2. x = i * a2 /\ y = j * a2
    BY <1>1, <1>2
  <2> HIDE DEF i, j, x, y
  <2>3. i * a2 <= j * a2
    BY <1>2, <2>1, TimesOrder
  <2> QED
    BY <1>2, <2>1, <2>2, <2>3
<1>6. Speed(c, b, r) = Normalize(x, m) /\ Speed(c, b, q) = Normalize(y, m)
  BY DEF Speed
<1> HIDE DEF s, t, a1, a2, m, x, y
<1>7. Speed(c, b, r) <= Speed(c, b, q) /\ Speed(c, b, r) \in Int /\ Speed(c, b, q) \in Int
  BY <1>4, <1>5, <1>6, NormalizeGrows, NormalizeIsBounded
<1> DEFINE memory == Normalize(MaxMemory - r.memory, MaxMemory)
           drift == Normalize(MaxDrift - r.drift, MaxDrift)
<1>8. memory \in Int /\ drift \in Int
  <2> DEFINE u == MaxMemory - r.memory
             w == MaxDrift - r.drift
  <2>1. u \in Int /\ w \in Int /\ MaxMemory \in Nat /\ MaxDrift \in Nat
    BY BoundsAssumption DEF Recorded, RawRecords
  <2> HIDE DEF u, w
  <2>2. Normalize(u, MaxMemory) \in 0 .. MaxMemory /\ Normalize(w, MaxDrift) \in 0 .. MaxDrift
    BY <2>1, NormalizeIsBounded
  <2>3. Normalize(u, MaxMemory) \in Int /\ Normalize(w, MaxDrift) \in Int
    BY <2>1, <2>2
  <2> QED
    BY <2>3 DEF u, w
<1>9. /\ Point(c, b, r) = <<Speed(c, b, r), memory, drift>>
      /\ Point(c, b, q) = <<Speed(c, b, q), memory, drift>>
  BY DEF Point
<1> HIDE DEF memory, drift
<1>10. DOMAIN Corner = {1, 2, 3}
  BY DEF Corner
<1>11. /\ Point(c, b, q)[1] >= Point(c, b, r)[1]
       /\ Point(c, b, q)[2] >= Point(c, b, r)[2]
       /\ Point(c, b, q)[3] >= Point(c, b, r)[3]
  BY <1>7, <1>8, <1>9
<1> QED
  BY <1>10, <1>11

\* Of two volumes beside the same base, the larger expands it more.
LEMMA ExpansionOfTheBase ==
    ASSUME NEW n \in Nat, NEW u \in Nat, NEW w \in Nat, u <= w,
           NEW d, d.base = n, d.delta = u - n, NEW e, e.base = n, e.delta = w - n
    PROVE  /\ RelativeDelta(d) \in Rationals /\ RelativeDelta(e) \in Rationals
           /\ AtMost(RelativeDelta(d), RelativeDelta(e))
<1> DEFINE r == <<d.delta, d.base>>
           s == <<e.delta, e.base>>
<1>1. CASE n > 0
  <2>1. r \in Rationals /\ s \in Rationals
    BY <1>1 DEF Rationals
  <2>2. RelativeDelta(d) = Reduced(r) /\ RelativeDelta(e) = Reduced(s)
    BY <1>1 DEF RelativeDelta
  <2>3. ~Less(s, r)
    <3> DEFINE i == u - n
               j == w - n
    <3>1. i \in Int /\ j \in Int /\ i <= j
      OBVIOUS
    <3>2. r = <<i, n>> /\ s = <<j, n>>
      OBVIOUS
    <3> HIDE DEF i, j, r, s
    <3>3. i * n <= j * n /\ i * n \in Int /\ j * n \in Int
      BY <1>1, <3>1, TimesOrder
    <3>4. ~(j * n < i * n)
      BY <3>3
    <3> QED
      BY <3>2, <3>4 DEF Less
  <2> HIDE DEF r, s
  <2>4. Reduced(r) \in Rationals /\ Reduced(s) \in Rationals
    BY <2>1, ReducedIsTheSame
  <2>5. ~Less(Reduced(s), Reduced(r))
    BY <2>1, <2>3, <2>4, ReducedCompares
  <2> QED
    BY <2>2, <2>4, <2>5 DEF AtMost
<1>2. CASE ~(n > 0)
  <2>1. RelativeDelta(d) = Zero /\ RelativeDelta(e) = Zero
    BY <1>2 DEF RelativeDelta
  <2>2. Zero \in Rationals /\ AtMost(Zero, Zero)
    BY DEF Zero, Rationals, AtMost, Less
  <2> QED
    BY <2>1, <2>2
<1> QED
  BY <1>1, <1>2

\* The frontier of a cell moves out as far, or farther.
LEMMA FrontierGrows ==
    ASSUME NEW c, NEW base, NEW cand, NEW quick, Samples(c, base, cand),
           Samples(c, base, quick), IsAsFast(quick, cand)
    PROVE  /\ RelativeDelta(CellFrontier(c, base, cand)) \in Rationals
           /\ RelativeDelta(CellFrontier(c, base, quick)) \in Rationals
           /\ AtMost(RelativeDelta(CellFrontier(c, base, cand)),
                     RelativeDelta(CellFrontier(c, base, quick)))
<1> DEFINE b == Geomean(base, Identity(base))
           top == (3 * Cell[c].achieved[2] - 2 * Cell[c].achieved[1]) * b + MaxMemory + MaxDrift
           B == Points(c, b, base)
           C == Points(c, b, cand)
           Q == Points(c, b, quick)
           d == FrontierDelta(B, C, Corner)
           e == FrontierDelta(B, Q, Corner)
<1>1. c \in Cells /\ Recorded(base) /\ Recorded(cand) /\ Recorded(quick) /\ b \in Nat \ {0}
  BY MeanIsMeasured DEF Samples
<1>2. ArePoints(B, Corner, top) /\ ArePoints(C, Corner, top) /\ ArePoints(Q, Corner, top)
  <2> DEFINE t == top
  <2>1. t = (3 * Cell[c].achieved[2] - 2 * Cell[c].achieved[1]) * b + MaxMemory + MaxDrift
    OBVIOUS
  <2> HIDE DEF t
  <2>2. ArePoints(B, Corner, t) /\ ArePoints(C, Corner, t) /\ ArePoints(Q, Corner, t)
    <3> HIDE DEF b
    <3> QED
      BY <1>1, <2>1, PointsAreScaled
  <2> QED
    BY <2>2 DEF t
<1>3. DOMAIN Corner = 1 .. 3 /\ 3 \in Nat \ {0}
  BY DEF Corner
<1>4. CellFrontier(c, base, cand) = d /\ CellFrontier(c, base, quick) = e
  BY DEF CellFrontier
<1>5. /\ d.base = Hypervolume(B, Corner) /\ d.delta = Hypervolume(C, Corner) - Hypervolume(B, Corner)
      /\ e.base = Hypervolume(B, Corner) /\ e.delta = Hypervolume(Q, Corner) - Hypervolume(B, Corner)
  BY DEF FrontierDelta
<1>6. ASSUME NEW p \in C
      PROVE  \E q \in Q : \A i \in DOMAIN Corner : q[i] >= p[i]
  <2>1. PICK r \in cand : r.memory # NotReported /\ p = Point(c, b, r)
    BY DEF Points
  <2>2. PICK q \in quick : q.root <= r.root /\ q.memory = r.memory /\ q.drift = r.drift
    BY DEF IsAsFast
  <2>3. Point(c, b, q) \in Q
    BY <2>1, <2>2 DEF Points
  <2>4. \A i \in DOMAIN Corner : Point(c, b, q)[i] >= Point(c, b, r)[i]
    <3> HIDE DEF b
    <3> QED
      BY <1>1, <2>2, PointGrows
  <2> QED
    BY <2>1, <2>3, <2>4
<1> HIDE DEF b, top, B, C, Q, d, e
<1>7. /\ Hypervolume(B, Corner) \in Nat /\ Hypervolume(C, Corner) \in Nat
      /\ Hypervolume(Q, Corner) \in Nat
  BY <1>2, <1>3, VolumeIsACount
<1>8. Hypervolume(C, Corner) <= Hypervolume(Q, Corner)
  BY <1>2, <1>3, <1>6, VolumeGrows
<1> QED
  BY <1>4, <1>5, <1>7, <1>8, ExpansionOfTheBase

-----------------------------------------------------------------------------
\* A run with one candidate record faster

Quickened(records, r) == (records \ {r}) \cup {[r EXCEPT !.root = @ - 1]}

\* An arm is as fast as itself.
LEMMA ArmIsAsFast ==
    ASSUME NEW arm, Recorded(arm)
    PROVE  IsAsFast(arm, arm)
<1>1. \A k \in RepeatsOf(arm) : Root(arm, k) \in Nat
  BY RootIsPositive
<1>2. \A k \in RepeatsOf(arm) : Root(arm, k) <= Root(arm, k)
  BY <1>1
<1>3. \A r \in arm : r.root \in Nat
  BY DEF Recorded, RawRecords
<1>4. \A r \in arm : r.root <= r.root
  BY <1>3
<1> QED
  BY <1>2, <1>4 DEF IsAsFast

\* A record made faster is a record, of the same repeat.
LEMMA QuickRecord ==
    ASSUME NEW r \in RawRecords, r.root > 1, NEW q, q = [r EXCEPT !.root = @ - 1]
    PROVE  /\ q \in RawRecords /\ q.cell = r.cell /\ q.variant = r.variant
           /\ q.repeat = r.repeat /\ q.status = r.status
           /\ q.root = r.root - 1 /\ q.memory = r.memory /\ q.drift = r.drift
<1>1. r.root \in Nat \ {0}
  BY DEF RawRecords
<1>2. r.root - 1 \in Nat \ {0}
  BY <1>1
<1> QED
  BY <1>2 DEF RawRecords

\* Records with one made faster are records, of the same cells.
LEMMA QuickenedIsRecorded ==
    ASSUME NEW records, Recorded(records), NEW r \in records, r.root > 1
    PROVE  Recorded(Quickened(records, r)) /\ ScoredCells(Quickened(records, r)) = ScoredCells(records)
<1> DEFINE q == [r EXCEPT !.root = @ - 1]
           rest == records \ {r}
           one == {q}
<1>1. q \in RawRecords /\ q.cell = r.cell
  BY QuickRecord DEF Recorded
<1>2. Quickened(records, r) = rest \cup one
  BY DEF Quickened
<1>3. IsFiniteSet(rest) /\ IsFiniteSet(one)
  BY FS_Subset, FS_Singleton DEF Recorded
<1>4. IsFiniteSet(rest \cup one)
  <2> HIDE DEF rest, one
  <2> QED
    BY <1>3, FS_Union
<1>5. rest \cup one \subseteq RawRecords
  BY <1>1 DEF Recorded
<1>6. records = rest \cup {r}
  OBVIOUS
<1>7. ScoredCells(rest \cup one) = ScoredCells(records)
  <2> HIDE DEF q, rest
  <2>1. ScoredCells(records) = {s.cell : s \in rest} \cup {r.cell}
    BY <1>6 DEF ScoredCells
  <2>2. ScoredCells(rest \cup one) = {s.cell : s \in rest} \cup {q.cell}
    BY DEF ScoredCells
  <2> QED
    BY <1>1, <2>1, <2>2
<1> QED
  BY <1>2, <1>4, <1>5, <1>7 DEF Recorded

\* One candidate record faster leaves the base, and no arm slower.
LEMMA QuickenedGroups ==
    ASSUME NEW records, Recorded(records), NEW r \in records, r.root > 1,
           r.variant = "candidate", Sampled(Group(records, r.cell, "candidate"))
    PROVE  \A c : /\ Group(Quickened(records, r), c, "base") = Group(records, c, "base")
                  /\ IsAsFast(Group(Quickened(records, r), c, "candidate"),
                              Group(records, c, "candidate"))
<1> DEFINE q == [r EXCEPT !.root = @ - 1]
           others == Quickened(records, r)
<1>1. /\ q.cell = r.cell /\ q.variant = "candidate" /\ q.repeat = r.repeat
      /\ q.root = r.root - 1 /\ q.memory = r.memory /\ q.drift = r.drift
  BY QuickRecord DEF Recorded
<1>2. others = (records \ {r}) \cup {q}
  BY DEF Quickened
<1>3. Recorded(others) /\ r.root \in Nat
  BY QuickenedIsRecorded DEF Recorded, RawRecords
<1> HIDE DEF q, others
<1>4. ASSUME NEW c
      PROVE  Group(others, c, "base") = Group(records, c, "base")
  BY <1>1, <1>2 DEF Group
<1>5. ASSUME NEW c, c # r.cell
      PROVE  IsAsFast(Group(others, c, "candidate"), Group(records, c, "candidate"))
  <2>1. Group(others, c, "candidate") = Group(records, c, "candidate")
    BY <1>1, <1>2, <1>5 DEF Group
  <2> QED
    BY <2>1, GroupsAreRecorded, ArmIsAsFast
<1> DEFINE arm == Group(records, r.cell, "candidate")
           quick == Group(others, r.cell, "candidate")
<1>6. quick = (arm \ {r}) \cup {q} /\ r \in arm
  BY <1>1, <1>2 DEF Group
<1>7. Recorded(arm) /\ Recorded(quick) /\ Sampled(arm)
  BY <1>3, GroupsAreRecorded
<1> HIDE DEF arm, quick
<1>8. RepeatsOf(quick) = RepeatsOf(arm)
  <2>1. RepeatsOf(arm) = {s.repeat : s \in arm \ {r}} \cup {r.repeat}
    BY <1>6 DEF RepeatsOf
  <2>2. RepeatsOf(quick) = {s.repeat : s \in arm \ {r}} \cup {q.repeat}
    BY <1>6 DEF RepeatsOf
  <2> QED
    BY <1>1, <2>1, <2>2
<1>9. ASSUME NEW k \in RepeatsOf(arm)
      PROVE  Root(quick, k) <= Root(arm, k)
  <2>1. PICK s \in quick : s.repeat = k /\ Root(quick, k) = s.root
    BY <1>7, <1>8, RootIsPositive
  <2>2. CASE s = q
    <3>1. Root(arm, k) = r.root
      BY <1>1, <1>6, <1>7, <2>1, <2>2, RootOfARecord
    <3> QED
      BY <1>1, <1>3, <2>1, <2>2, <3>1
  <2>3. CASE s # q
    <3>1. s \in arm
      BY <1>6, <2>3
    <3>2. Root(arm, k) = s.root /\ s.root \in Nat
      BY <1>7, <2>1, <3>1, RootOfARecord DEF Recorded, RawRecords
    <3> QED
      BY <2>1, <3>2
  <2> QED
    BY <2>2, <2>3
<1>10. ASSUME NEW s \in arm
       PROVE  \E t \in quick : t.root <= s.root /\ t.memory = s.memory /\ t.drift = s.drift
  <2>1. CASE s = r
    BY <1>1, <1>3, <1>6, <2>1
  <2>2. CASE s # r
    <3>1. s \in quick /\ s.root \in Nat
      BY <1>6, <1>7, <2>2 DEF Recorded, RawRecords
    <3>2. s.root <= s.root
      BY <3>1
    <3> QED
      BY <3>1, <3>2
  <2> QED
    BY <2>1, <2>2
<1>11. IsAsFast(quick, arm)
  BY <1>8, <1>9, <1>10 DEF IsAsFast
<1>12. ASSUME NEW c
       PROVE  IsAsFast(Group(others, c, "candidate"), Group(records, c, "candidate"))
  BY <1>5, <1>11 DEF arm, quick
<1> QED
  BY <1>4, <1>12 DEF others

\* The scores of the cells of a run of the generation's repeats.
LEMMA RunIsCells ==
    ASSUME NEW records, Scored(records), \A r \in records : r.repeat \in 1 .. Repeats
    PROVE  AreCells(PerCell(records), ScoredCells(records))
<1>1. /\ ScoredCells(records) \in SUBSET Cells /\ IsFiniteSet(ScoredCells(records))
      /\ ScoredCells(records) # {} /\ DOMAIN PerCell(records) = ScoredCells(records)
  BY CellsAreScored
<1>2. ASSUME NEW c \in ScoredCells(records)
      PROVE  IsCell(PerCell(records)[c], c)
  <2>1. Samples(c, Group(records, c, "base"), Group(records, c, "candidate"))
    BY CellsAreScored
  <2>2. InRepeats(Group(records, c, "base"))
    BY DEF InRepeats, RepeatsOf, Group
  <2>3. PerCell(records)[c] = ScoreCell(c, Group(records, c, "base"), Group(records, c, "candidate"))
    BY DEF PerCell
  <2> QED
    BY <2>1, <2>2, <2>3, ScoreIsACell
<1> QED
  BY <1>1, <1>2 DEF AreCells

\* A run that is no slower expands the frontier if it did, and is credited no less.
LEMMA RunGrows ==
    ASSUME NEW records, Scored(records), \A r \in records : r.repeat \in 1 .. Repeats,
           NEW others, Scored(others), \A r \in others : r.repeat \in 1 .. Repeats,
           ScoredCells(others) = ScoredCells(records),
           \A c : /\ Group(others, c, "base") = Group(records, c, "base")
                  /\ IsAsFast(Group(others, c, "candidate"), Group(records, c, "candidate"))
    PROVE  /\ Expansion(records)[1] > 0 => Expansion(others)[1] > 0
           /\ Aggregate(PerCell(records)).resolved /\ Aggregate(PerCell(records)).gap[1] > 0
                => /\ Aggregate(PerCell(others)).resolved
                   /\ AtMost(Aggregate(PerCell(records)).gap, Aggregate(PerCell(others)).gap)
                   /\ Aggregate(PerCell(others)).gap[1] > 0
<1> DEFINE D == ScoredCells(records)
           base(c) == Group(records, c, "base")
           cand(c) == Group(records, c, "candidate")
           quick(c) == Group(others, c, "candidate")
           x == PerCell(records)
           y == PerCell(others)
           v == [c \in D |-> RelativeDelta(CellFrontier(c, base(c), cand(c)))]
           w == [c \in D |-> RelativeDelta(CellFrontier(c, base(c), quick(c)))]
<1>1. D \in SUBSET Cells /\ IsFiniteSet(D)
  BY CellsAreScored
<1>2. \A c \in D : /\ Samples(c, base(c), cand(c)) /\ Samples(c, base(c), quick(c))
                   /\ IsAsFast(quick(c), cand(c))
  BY CellsAreScored
<1>3. \A c \in D : InRepeats(base(c))
  BY DEF InRepeats, RepeatsOf, Group
<1>4. Expansion(records) = Total(v) /\ Expansion(others) = Total(w)
  BY DEF Expansion
<1>5. \A c \in D : x[c] = ScoreCell(c, base(c), cand(c)) /\ y[c] = ScoreCell(c, base(c), quick(c))
  BY DEF PerCell
<1>6. AreCells(x, D) /\ AreCells(y, D)
  BY RunIsCells
<1>7. /\ v \in [D -> Rationals] /\ w \in [D -> Rationals]
      /\ \A c \in D : AtMost(v[c], w[c])
  <2> HIDE DEF base, cand, quick, D
  <2>1. \A c \in D : /\ RelativeDelta(CellFrontier(c, base(c), cand(c))) \in Rationals
                     /\ RelativeDelta(CellFrontier(c, base(c), quick(c))) \in Rationals
                     /\ AtMost(RelativeDelta(CellFrontier(c, base(c), cand(c))),
                               RelativeDelta(CellFrontier(c, base(c), quick(c))))
    BY <1>2, FrontierGrows
  <2> QED
    BY <2>1
<1> HIDE DEF D, base, cand, quick, x, y, v, w
<1>8. Expansion(records)[1] > 0 => Expansion(others)[1] > 0
  BY <1>1, <1>4, <1>7, TotalGrows
<1>9. \A c \in D : NoSlower(x[c], y[c])
  BY <1>2, <1>3, <1>5, CellIsNoSlower
<1>10. Aggregate(x).resolved /\ Aggregate(x).gap[1] > 0
         => Aggregate(y).resolved /\ AtMost(Aggregate(x).gap, Aggregate(y).gap)
            /\ Aggregate(y).gap[1] > 0
  BY <1>6, <1>9, AggregateGrows
<1> QED
  BY <1>8, <1>10 DEF x, y
-----------------------------------------------------------------------------
\* Fractions of a common factor

\* Products, the other way round.
LEMMA TimesCommutes ==
    ASSUME NEW x \in Int, NEW y \in Int
    PROVE  x * y \in Int /\ x * y = y * x
OBVIOUS

\* Products of products, rearranged.
LEMMA TimesShuffles ==
    ASSUME NEW n \in Int, NEW m \in Int, NEW x \in Int, NEW y \in Int
    PROVE  (n * x) * (m * y) = (n * m) * (x * y)
<1>1. (n * x) * (m * y) = ((n * x) * m) * y
  BY TimesAssociates, TimesCommutes
<1>2. (n * x) * m = (n * m) * x
  OBVIOUS
<1>3. ((n * m) * x) * y = (n * m) * (x * y)
  BY TimesAssociates, TimesCommutes
<1> QED
  BY <1>1, <1>2, <1>3

\* A quotient and a remainder are the only ones.
LEMMA RestIsUnique ==
    ASSUME NEW b \in Nat \ {0}, NEW q \in Int, NEW r \in 0 .. b - 1,
           NEW p \in Int, NEW s \in 0 .. b - 1, b * q + r = b * p + s
    PROVE  r = s
<1>1. b \in Int /\ r \in Int /\ s \in Int /\ b > 0
  OBVIOUS
<1>2. CASE q = p
  BY <1>1, <1>2
<1>3. CASE q < p
  <2>1. q + 1 <= p
    BY <1>3
  <2>2. (q + 1) * b <= p * b
    BY <2>1, TimesOrder
  <2>3. (q + 1) * b = b * q + b /\ p * b = b * p /\ b * q \in Int /\ b * p \in Int
    OBVIOUS
  <2> QED
    BY <1>1, <2>2, <2>3
<1>4. CASE p < q
  <2>1. p + 1 <= q
    BY <1>4
  <2>2. (p + 1) * b <= q * b
    BY <2>1, TimesOrder
  <2>3. (p + 1) * b = b * p + b /\ q * b = b * q /\ b * q \in Int /\ b * p \in Int
    OBVIOUS
  <2> QED
    BY <1>1, <2>2, <2>3
<1> QED
  BY <1>2, <1>3, <1>4

\* Division with remainder.
LEMMA QuotientAndRest ==
    ASSUME NEW a \in Nat, NEW b \in Nat \ {0}
    PROVE  \E q \in Nat : a = b * q + Rest(a, b)
<1>1. a = b * (a \div b) + Rest(a, b) /\ a \div b \in Nat
  BY DEF Rest
<1> QED
  BY <1>1

\* The remainder of multiples is the multiple of the remainder.
LEMMA RestScales ==
    ASSUME NEW m \in Nat \ {0}, NEW a \in Nat, NEW b \in Nat \ {0}
    PROVE  m * a \in Nat /\ m * b \in Nat \ {0} /\ Rest(m * a, m * b) = m * Rest(a, b)
<1> DEFINE x == m * a
           y == m * b
           r == Rest(a, b)
           s == Rest(x, y)
           t == m * r
<1>1. x \in Nat /\ y \in Nat \ {0}
  BY ProductIsPositive
<1>2. r \in 0 .. b - 1
  BY RemainderIsLess
<1>3. PICK q \in Nat : a = b * q + r
  BY QuotientAndRest
<1>4. s \in 0 .. y - 1 /\ \E p \in Nat : x = y * p + s
  <2> HIDE DEF x, y, s
  <2> QED
    BY <1>1, RemainderIsLess, QuotientAndRest DEF s
<1>5. PICK p \in Nat : x = y * p + s
  BY <1>4
<1>6. t \in 0 .. y - 1
  <2> HIDE DEF r
  <2>1. r \in Int /\ 0 <= r /\ r + 1 <= b
    BY <1>2
  <2>2. (r + 1) * m <= b * m /\ 0 * m <= r * m
    BY <2>1, TimesOrder
  <2>3. (r + 1) * m = t + m /\ b * m = y /\ 0 * m = 0 /\ r * m = t
    BY <2>1
  <2>4. t \in Int /\ y \in Int
    BY <2>1
  <2> HIDE DEF t, y
  <2> QED
    BY <2>2, <2>3, <2>4
<1>7. x = y * q + t
  <2> HIDE DEF r
  <2>1. r \in Int
    BY <1>2
  <2>2. m * (b * q + r) = m * (b * q) + m * r
    BY <2>1
  <2>3. m * (b * q) = y * q
    BY TimesAssociates
  <2> QED
    BY <1>3, <2>2, <2>3
<1>8. t = s
  <2> HIDE DEF x, y, s, t
  <2>1. y * q + t = y * p + s
    BY <1>5, <1>7
  <2> QED
    BY <1>1, <1>4, <1>6, <2>1, RestIsUnique
<1> QED
  BY <1>1, <1>8

\* The greatest common divisor of multiples is the multiple.
LEMMA GCDScales ==
    ASSUME NEW m \in Nat \ {0}, NEW a \in Nat, NEW b \in Nat
    PROVE  GCD[<<m * a, m * b>>] = m * GCD[<<a, b>>]
<1> DEFINE P == {t \in Nat \X Nat \X Nat : GCD[<<m * t[1], m * t[2]>>] = m * t[3]}
<1>1. ASSUME NEW c \in Nat
      PROVE  <<c, 0, c>> \in P
  <2>1. m * 0 = 0 /\ m * c \in Nat
    OBVIOUS
  <2>2. GCD[<<m * c, 0>>] = m * c
    <3> DEFINE n == m * c
    <3>1. n \in Nat
      BY <2>1
    <3> HIDE DEF n
    <3>2. GCD[<<n, 0>>] = n
      BY <3>1, GCDIsDefined
    <3> QED
      BY <3>2 DEF n
  <2> QED
    BY <2>1, <2>2
<1>2. ASSUME NEW c \in Nat, NEW d \in Nat \ {0}, NEW g, <<d, Rest(c, d), g>> \in P
      PROVE  <<c, d, g>> \in P
  <2> DEFINE x == m * c
             y == m * d
             r == Rest(c, d)
  <2>1. g \in Nat /\ GCD[<<y, m * r>>] = m * g
    BY <1>2
  <2>2. x \in Nat /\ y \in Nat \ {0} /\ Rest(x, y) = m * r
    BY RestScales
  <2>3. GCD[<<x, y>>] = GCD[<<y, Rest(x, y)>>]
    <3> HIDE DEF x, y
    <3> QED
      BY <2>2, GCDIsDefined
  <2> HIDE DEF x, y, r
  <2>4. GCD[<<x, y>>] = m * g
    BY <2>1, <2>2, <2>3
  <2> QED
    BY <2>1, <2>4 DEF x, y
<1> HIDE DEF P
<1>3. <<a, b, GCD[<<a, b>>]>> \in P
  BY <1>1, <1>2, GCDInduction
<1> QED
  BY <1>3 DEF P

\* Absolute values scale.
LEMMA SizeScales ==
    ASSUME NEW m \in Nat \ {0}, NEW n \in Int
    PROVE  Size(n) \in Nat /\ Size(m * n) = m * Size(n) /\ (n = Size(n) \/ n = -Size(n))
<1>1. n < 0 <=> n * m < 0 * m
  BY TimesOrder
<1>2. m * n < 0 <=> n < 0
  BY <1>1
<1> QED
  BY <1>2 DEF Size

\* Of a fraction and its multiple the reduced fraction is one and the same.
LEMMA ReducedScales ==
    ASSUME NEW m \in Nat \ {0}, NEW r \in Rationals, NEW s, s = <<m * r[1], m * r[2]>>
    PROVE  s \in Rationals /\ Reduced(s) = Reduced(r)
<1>1. PICK x \in Int, y \in Nat \ {0} : x = r[1] /\ y = r[2]
  BY DEF Rationals
<1> DEFINE u == m * x
           v == m * y
           g == GCD[<<Size(x), y>>]
           h == GCD[<<Size(u), v>>]
<1>2. u \in Int /\ v \in Nat \ {0}
  BY ProductIsPositive
<1>3. s = <<u, v>> /\ s \in Rationals
  BY <1>1, <1>2 DEF Rationals
<1>4. Size(x) \in Nat /\ Size(u) = m * Size(x) /\ (x = Size(x) \/ x = -Size(x))
  BY SizeScales
<1>5. h = m * g
  BY <1>4, GCDScales
<1>6. /\ g \in Nat \ {0}
      /\ \E q \in Nat : Size(x) = q * g
      /\ \E q \in Nat : y = q * g
  <2> DEFINE z == Size(x)
  <2>1. z \in Nat /\ g = GCD[<<z, y>>]
    BY <1>4
  <2> HIDE DEF z
  <2>2. y > 0 /\ y \in Nat
    OBVIOUS
  <2>3. /\ GCD[<<z, y>>] \in Nat /\ GCD[<<z, y>>] > 0
        /\ \E q \in Nat : z = q * GCD[<<z, y>>]
        /\ \E q \in Nat : y = q * GCD[<<z, y>>]
    BY <2>1, <2>2, GCDDivides
  <2> HIDE DEF g
  <2> QED
    BY <2>1, <2>3 DEF z
<1>7. Reduced(r) = <<x \div g, y \div g>> /\ Reduced(s) = <<u \div h, v \div h>>
  BY <1>1, <1>3 DEF Reduced
<1> HIDE DEF u, v, g, h
<1>8. PICK p \in Int : x = p * g
  <2>1. PICK q \in Nat : Size(x) = q * g
    BY <1>6
  <2>2. x = q * g \/ x = (-q) * g
    BY <1>4, <1>6, <2>1
  <2>3. q \in Int /\ -q \in Int
    BY <2>1
  <2> QED
    BY <2>2, <2>3
<1>9. PICK q \in Int : y = q * g
  <2>1. PICK q \in Nat : y = q * g
    BY <1>6
  <2>2. q \in Int
    BY <2>1
  <2> QED
    BY <2>1, <2>2
<1>10. h \in Nat \ {0}
  BY <1>5, <1>6, ProductIsPositive
<1>11. u = p * h
  <2>1. m * (p * g) = p * (m * g)
    BY <1>6
  <2> QED
    BY <1>5, <1>8, <2>1 DEF u
<1>12. v = q * h
  <2>1. m * (q * g) = q * (m * g)
    BY <1>6
  <2> QED
    BY <1>5, <1>9, <2>1 DEF v
<1>13. x \div g = p /\ y \div g = q
  BY <1>6, <1>8, <1>9, ExactQuotient
<1>14. u \div h = p /\ v \div h = q
  BY <1>10, <1>11, <1>12, ExactQuotient
<1> QED
  BY <1>3, <1>7, <1>13, <1>14
-----------------------------------------------------------------------------
\* A card that is slower throughout

Stretched(arm, n) == {[r EXCEPT !.root = n * @] : r \in arm}
Scale(n) == Product([k \in 1 .. Repeats |-> n])

\* The repeats of a run are finitely many.
LEMMA RepeatsAreFew == IsFiniteSet(1 .. Repeats)
<1>1. 1 \in Int /\ Repeats \in Int
  BY CellsAssumption
<1> QED
  BY <1>1, FS_Interval

\* A family of factors, for the provers to take as a whole.
Factors(f, D) == IsFiniteSet(D) /\ f \in [D -> (Nat \ {0})]

\* The products over the parts of a domain, one element at a time.
LEMMA PartProductsStep ==
    ASSUME NEW D, NEW f, Factors(f, D)
    PROVE  /\ PartProducts(f)[{}] = 1
           /\ \A s \in SUBSET D :
                 /\ PartProducts(f)[s] \in Nat \ {0}
                 /\ s # {} => PartProducts(f)[s] = PartProducts(f)[s \ {Chosen(s)}] * f[Chosen(s)]
BY PartProductsAreDefined DEF Factors

\* Each factor n times the other's.
IsTimes(g, n, f, D) == \A i \in D : g[i] = n * f[i]
IsAlways(k, n, D) == \A i \in D : k[i] = n

\* A product of as many factors, each n times as large.
LEMMA ProductScales ==
    ASSUME NEW n \in Nat \ {0}, NEW D, NEW k, Factors(k, D), NEW f, Factors(f, D),
           NEW g, Factors(g, D), IsAlways(k, n, D), IsTimes(g, n, f, D)
    PROVE  Product(g) = Product(k) * Product(f)
<1> DEFINE F == PartProducts(f)
           G == PartProducts(g)
           K == PartProducts(k)
           P == {s \in SUBSET D : G[s] = K[s] * F[s]}
<1>1. /\ F[{}] = 1
      /\ \A s \in SUBSET D : /\ F[s] \in Nat \ {0}
                             /\ s # {} => F[s] = F[s \ {Chosen(s)}] * f[Chosen(s)]
  BY PartProductsStep
<1>2. /\ G[{}] = 1
      /\ \A s \in SUBSET D : /\ G[s] \in Nat \ {0}
                             /\ s # {} => G[s] = G[s \ {Chosen(s)}] * g[Chosen(s)]
  BY PartProductsStep
<1>3. /\ K[{}] = 1
      /\ \A s \in SUBSET D : /\ K[s] \in Nat \ {0}
                             /\ s # {} => K[s] = K[s \ {Chosen(s)}] * k[Chosen(s)]
  BY PartProductsStep
<1>4. Product(f) = F[D] /\ Product(g) = G[D] /\ Product(k) = K[D]
  BY PartProductsAreTheFold DEF Factors
<1>5. \A i \in D : f[i] \in Nat \ {0} /\ k[i] = n /\ g[i] = n * f[i]
  BY DEF IsAlways, IsTimes, Factors
<1> HIDE DEF F, G, K
<1>6. {} \in P
  <2>1. {} \in SUBSET D
    OBVIOUS
  <2>2. F[{}] = 1 /\ G[{}] = 1 /\ K[{}] = 1
    BY <1>1, <1>2, <1>3
  <2> QED
    BY <2>1, <2>2
<1>7. ASSUME NEW s \in SUBSET D, s # {}, s \ {Chosen(s)} \in P
      PROVE  s \in P
  <2> DEFINE c == Chosen(s)
             rest == s \ {c}
             x == K[rest]
             y == F[rest]
  <2>1. rest \in SUBSET D /\ G[rest] = x * y
    BY <1>7
  <2>2. c \in D
    BY <1>7, ChosenIsOne
  <2>3. F[s] = y * f[c] /\ G[s] = G[rest] * g[c] /\ K[s] = x * k[c]
    BY <1>1, <1>2, <1>3, <1>7
  <2>4. x \in Int /\ y \in Int
    <3>1. K[rest] \in Nat \ {0} /\ F[rest] \in Nat \ {0}
      BY <1>1, <1>3, <2>1
    <3> QED
      BY <3>1
  <2>5. f[c] \in Int /\ k[c] = n /\ g[c] = n * f[c]
    BY <1>5, <2>2
  <2> HIDE DEF P, c, rest, x, y
  <2>6. (x * y) * (n * f[c]) = (x * n) * (y * f[c])
    <3> DEFINE z == f[c]
    <3>1. z \in Int /\ n \in Int
      BY <2>5
    <3> HIDE DEF z
    <3>2. (x * y) * (n * z) = (x * n) * (y * z)
      BY <2>4, <3>1, TimesShuffles, TimesCommutes
    <3> QED
      BY <3>2 DEF z
  <2>7. G[s] = K[s] * F[s]
    BY <2>1, <2>3, <2>5, <2>6
  <2> QED
    BY <2>7 DEF P
<1> HIDE DEF P
<1>8. SUBSET D \subseteq P
  BY <1>6, <1>7, ChosenInduction DEF Factors
<1>9. D \in P
  BY <1>8
<1> QED
  BY <1>4, <1>9 DEF P

\* The repeats of the generation, all n times as slow.
LEMMA ScaleIsPositive ==
    ASSUME NEW n \in Nat \ {0}
    PROVE  Scale(n) \in Nat \ {0}
<1> DEFINE D == 1 .. Repeats
           k == [i \in D |-> n]
<1>1. k \in [D -> (Nat \ {0})] /\ IsFiniteSet(D)
  BY RepeatsAreFew
<1>2. Scale(n) = PartProducts(k)[D]
  BY PartProductsAreTheFold DEF Scale
<1> HIDE DEF D, k
<1> QED
  BY <1>1, <1>2, PartProductsAreDefined

\* The product of all repeats scales by a power of the factor.
LEMMA AllScale ==
    ASSUME NEW n \in Nat \ {0}, NEW f \in [1 .. Repeats -> (Nat \ {0})],
           NEW g \in [1 .. Repeats -> (Nat \ {0})], IsTimes(g, n, f, 1 .. Repeats)
    PROVE  Product(g) = Scale(n) * Product(f)
<1> DEFINE D == 1 .. Repeats
           k == [i \in D |-> n]
<1>1. Factors(k, D) /\ IsAlways(k, n, D)
  BY RepeatsAreFew DEF IsAlways, Factors
<1>2. Factors(f, D) /\ Factors(g, D) /\ IsTimes(g, n, f, D)
  BY RepeatsAreFew DEF Factors
<1>3. Scale(n) = Product(k)
  BY DEF Scale
<1> HIDE DEF D, k
<1> QED
  BY <1>1, <1>2, <1>3, ProductScales

\* An arm that is slower throughout is sampled as it was.
LEMMA StretchedIsSampled ==
    ASSUME NEW arm, Recorded(arm), NEW n \in Nat \ {0}
    PROVE  /\ Recorded(Stretched(arm, n)) /\ RepeatsOf(Stretched(arm, n)) = RepeatsOf(arm)
           /\ arm # {} <=> Stretched(arm, n) # {}
           /\ Sampled(arm) =>
                /\ Sampled(Stretched(arm, n))
                /\ \A k \in RepeatsOf(arm) : Root(Stretched(arm, n), k) = n * Root(arm, k)
<1> DEFINE slow(r) == [r EXCEPT !.root = n * @]
           all == Stretched(arm, n)
           f == [r \in arm |-> slow(r)]
<1>1. ASSUME NEW r \in arm
      PROVE  /\ slow(r) \in RawRecords /\ slow(r).repeat = r.repeat /\ slow(r).root = n * r.root
             /\ slow(r).status = r.status
             /\ \A s \in arm : slow(r) = slow(s) => r = s
  <2>1. r \in RawRecords
    BY DEF Recorded
  <2>2. r.root \in Nat \ {0}
    BY <2>1 DEF RawRecords
  <2>3. n * r.root \in Nat \ {0}
    BY <2>2, ProductIsPositive
  <2>4. /\ slow(r) \in RawRecords /\ slow(r).repeat = r.repeat /\ slow(r).root = n * r.root
        /\ slow(r).status = r.status
    BY <2>1, <2>3 DEF RawRecords
  <2>5. ASSUME NEW s \in arm, slow(r) = slow(s)
        PROVE  r = s
    <3>1. s \in RawRecords /\ s.root \in Nat
      BY DEF Recorded, RawRecords
    <3>2. n * r.root = n * s.root
      BY <2>1, <2>5, <3>1 DEF RawRecords
    <3>3. r.root = s.root
      <4> DEFINE x == r.root
                 y == s.root
      <4>1. x \in Int /\ y \in Int /\ x * n = y * n
        BY <2>2, <3>1, <3>2
      <4> HIDE DEF x, y
      <4>2. x = y
        BY <4>1, TimesOrder
      <4> QED
        BY <4>2 DEF x, y
    <3>4. r = [slow(r) EXCEPT !.root = r.root] /\ s = [slow(s) EXCEPT !.root = s.root]
      BY <2>1, <3>1 DEF RawRecords
    <3> QED
      BY <2>5, <3>3, <3>4
  <2> QED
    BY <2>4, <2>5
<1> HIDE DEF slow
<1>2. all = {slow(r) : r \in arm}
  BY DEF Stretched, slow
<1> HIDE DEF all
<1>3. f \in Surjection(arm, all) /\ f \in Injection(arm, all)
  BY <1>1, <1>2 DEF Surjection, Injection, IsInjective
<1>4. IsFiniteSet(all) /\ Cardinality(all) = Cardinality(arm)
  BY <1>3, FS_Surjection DEF Recorded
<1>5. Recorded(all)
  BY <1>1, <1>2, <1>4 DEF Recorded
<1>6. RepeatsOf(all) = RepeatsOf(arm)
  BY <1>1, <1>2 DEF RepeatsOf
<1>7. ASSUME Sampled(arm)
      PROVE  Sampled(all)
  BY <1>1, <1>2, <1>4, <1>6, <1>7 DEF Sampled
<1>8. ASSUME Sampled(arm), NEW k \in RepeatsOf(arm)
      PROVE  Root(all, k) = n * Root(arm, k)
  <2>1. PICK r \in arm : r.repeat = k /\ Root(arm, k) = r.root
    BY RootIsPositive
  <2>2. PICK s \in all : s.repeat = k /\ Root(all, k) = s.root
    BY <1>5, <1>6, RootIsPositive
  <2>3. slow(r) \in all /\ slow(r).repeat = k
    BY <1>1, <1>2, <2>1
  <2>4. s = slow(r)
    BY <1>5, <1>7, <1>8, <2>2, <2>3, RepeatsAreFinite
  <2> QED
    BY <1>1, <2>1, <2>2, <2>4
<1>9. arm # {} <=> all # {}
  BY <1>2
<1> QED
  BY <1>5, <1>6, <1>7, <1>8, <1>9 DEF all

\* The groups of the slower run are the slower groups.
LEMMA StretchedGroups ==
    ASSUME NEW records, Recorded(records), NEW n \in Nat \ {0}
    PROVE  /\ \A c, v : Group(Stretched(records, n), c, v) = Stretched(Group(records, c, v), n)
           /\ ScoredCells(Stretched(records, n)) = ScoredCells(records)
<1> DEFINE slow(r) == [r EXCEPT !.root = n * @]
           all == Stretched(records, n)
<1>1. ASSUME NEW r \in records
      PROVE  slow(r).cell = r.cell /\ slow(r).variant = r.variant
  BY DEF Recorded, RawRecords
<1> HIDE DEF slow
<1>2. all = {slow(r) : r \in records}
  BY DEF Stretched, slow
<1>3. ASSUME NEW c, NEW v
      PROVE  Group(all, c, v) = {slow(r) : r \in Group(records, c, v)}
  BY <1>1, <1>2 DEF Group
<1>4. ScoredCells(all) = ScoredCells(records)
  BY <1>1, <1>2 DEF ScoredCells
<1>5. \A c, v : Stretched(Group(records, c, v), n) = {slow(r) : r \in Group(records, c, v)}
  BY DEF Stretched, slow
<1> QED
  BY <1>3, <1>4, <1>5

\* All that a draw names takes so many times as long.
LEMMA GeomeanScales ==
    ASSUME NEW arm, Recorded(arm), Sampled(arm), NEW n \in Nat \ {0},
           NEW d \in [1 .. Repeats -> RepeatsOf(arm)]
    PROVE  Geomean(Stretched(arm, n), d) = Scale(n) * Geomean(arm, d)
<1> DEFINE D == 1 .. Repeats
           f == [i \in D |-> Root(arm, d[i])]
           g == [i \in D |-> Root(Stretched(arm, n), d[i])]
<1>1. ASSUME NEW i \in D
      PROVE  /\ Root(arm, d[i]) \in Nat \ {0}
             /\ Root(Stretched(arm, n), d[i]) = n * Root(arm, d[i])
  BY RootIsPositive, StretchedIsSampled
<1>2. f \in [D -> (Nat \ {0})]
  BY <1>1
<1>3. g \in [D -> (Nat \ {0})]
  <2>1. \A i \in D : Root(Stretched(arm, n), d[i]) \in Nat \ {0}
    BY <1>1, ProductIsPositive
  <2> QED
    BY <2>1
<1>4. IsTimes(g, n, f, D)
  BY <1>1 DEF IsTimes
<1>5. Geomean(arm, d) = Product(f) /\ Geomean(Stretched(arm, n), d) = Product(g)
  BY DEF Geomean
<1> HIDE DEF f, g
<1> QED
  BY <1>2, <1>3, <1>4, <1>5, AllScale

\* The seconds of a record scale.
LEMMA SecondsScale ==
    ASSUME NEW arm, Recorded(arm), NEW r \in arm, NEW n \in Nat \ {0}
    PROVE  Seconds([r EXCEPT !.root = n * @]) = Scale(n) * Seconds(r)
<1> DEFINE D == 1 .. Repeats
           x == r.root
           y == n * x
           f == [i \in D |-> x]
           g == [i \in D |-> y]
<1>1. r \in RawRecords /\ x \in Nat \ {0}
  BY DEF Recorded, RawRecords
<1>2. y \in Nat \ {0}
  BY <1>1, ProductIsPositive
<1>3. [r EXCEPT !.root = n * @].root = y
  BY <1>1 DEF RawRecords
<1>4. Seconds(r) = Product(f) /\ Seconds([r EXCEPT !.root = n * @]) = Product(g)
  BY <1>3 DEF Seconds
<1>5. IsTimes(g, n, f, D)
  BY DEF IsTimes
<1>6. f \in [D -> (Nat \ {0})] /\ g \in [D -> (Nat \ {0})]
  BY <1>1, <1>2
<1> HIDE DEF f, g
<1> QED
  BY <1>4, <1>5, <1>6, AllScale

SameGap(c, m, run, b, t) ==
    Gap(RunCeiling(c, m * run), m * b, m * t) = Gap(RunCeiling(c, run), b, t)

\* In the bracket of the card that ran, a gap is the same on every card.
LEMMA GapScales ==
    ASSUME NEW c \in Cells, NEW m \in Nat \ {0}, NEW run \in Nat \ {0}, NEW b \in Nat \ {0},
           NEW t \in Nat \ {0}
    PROVE  SameGap(c, m, run, b, t)
<1> DEFINE a1 == Cell[c].achieved[1]
           a2 == Cell[c].achieved[2]
           u == a1 * run
           left == a2 * b - u
           mu == a1 * (m * run)
           mleft == a2 * (m * b) - mu
           r == <<u * (b - t), t * left>>
           s == <<mu * (m * b - m * t), (m * t) * mleft>>
           k == m * m
<1>1. a1 \in Nat \ {0} /\ a2 \in Nat \ {0}
  BY CellIsDeclared
<1>2. Gap(RunCeiling(c, run), b, t) = IF left <= 0 THEN Zero ELSE Reduced(r)
  BY DEF Gap, RunCeiling
<1>3. Gap(RunCeiling(c, m * run), m * b, m * t) = IF mleft <= 0 THEN Zero ELSE Reduced(s)
  BY DEF Gap, RunCeiling
<1>4. u \in Int /\ left \in Int
  <2>1. u \in Int /\ a2 * b \in Int
    BY <1>1
  <2> QED
    BY <2>1
<1>5. mu = m * u
  <2> HIDE DEF a1
  <2>1. a1 * (m * run) = (a1 * m) * run /\ (m * a1) * run = m * (a1 * run)
    BY <1>1, TimesAssociates
  <2>2. a1 * m = m * a1
    BY <1>1, TimesCommutes
  <2> QED
    BY <2>1, <2>2
<1>6. mleft = m * left
  <2> HIDE DEF a1, a2, u, mu
  <2>1. a2 * (m * b) = m * (a2 * b)
    <3>1. a2 * (m * b) = (a2 * m) * b /\ (m * a2) * b = m * (a2 * b)
      BY <1>1, TimesAssociates
    <3>2. a2 * m = m * a2
      BY <1>1, TimesCommutes
    <3> QED
      BY <3>1, <3>2
  <2> DEFINE v == a2 * b
  <2>2. v \in Int
    BY <1>1
  <2>3. left = v - u /\ mleft = m * v - m * u
    BY <1>5, <2>1
  <2> HIDE DEF v, left, mleft
  <2> QED
    BY <1>4, <2>2, <2>3
<1>7. k \in Nat \ {0} /\ m \in Int /\ b - t \in Int /\ t \in Int
  BY ProductIsPositive
<1>8. m * b - m * t = m * (b - t)
  OBVIOUS
<1> DEFINE w == b - t
<1>9. s = <<(m * u) * (m * w), (m * t) * (m * left)>> /\ r = <<u * w, t * left>> /\ w \in Int
  BY <1>5, <1>6, <1>7, <1>8
<1>10. left <= 0 <=> mleft <= 0
  <2> HIDE DEF left, mleft
  <2>1. left <= 0 <=> left * m <= 0 * m
    BY <1>4, TimesOrder
  <2>2. left * m = m * left /\ 0 * m = 0
    BY <1>4
  <2> QED
    BY <1>6, <2>1, <2>2
<1>11. ASSUME ~(left <= 0)
       PROVE  Reduced(s) = Reduced(r)
  <2> HIDE DEF u, left, mu, mleft, w, k, r, s
  <2>1. t * left \in Nat \ {0} /\ u * w \in Int
    <3>1. left \in Nat \ {0}
      BY <1>4, <1>11
    <3> QED
      BY <1>4, <1>9, <3>1, ProductIsPositive
  <2>2. r \in Rationals
    BY <1>9, <2>1 DEF Rationals
  <2>3. (m * u) * (m * w) = k * (u * w) /\ (m * t) * (m * left) = k * (t * left)
    BY <1>4, <1>7, <1>9, TimesShuffles DEF k
  <2>4. r[1] = u * w /\ r[2] = t * left
    BY <1>9
  <2>5. s = <<k * r[1], k * r[2]>>
    BY <1>9, <2>3, <2>4
  <2> QED
    BY <1>7, <2>2, <2>5, ReducedScales
<1> QED
  BY <1>2, <1>3, <1>10, <1>11 DEF SameGap

\* A cell is scored the same on a card that is slower throughout.
LEMMA CellScales ==
    ASSUME NEW c, NEW base, NEW cand, Samples(c, base, cand), InRepeats(base),
           NEW n \in Nat \ {0}
    PROVE  /\ ScoreCell(c, Stretched(base, n), Stretched(cand, n)) = ScoreCell(c, base, cand)
           /\ Geomean(Stretched(base, n), Identity(Stretched(base, n)))
                = Scale(n) * Geomean(base, Identity(base))
           /\ Geomean(Stretched(cand, n), Identity(Stretched(cand, n)))
                = Scale(n) * Geomean(cand, Identity(cand))
<1> DEFINE m == Scale(n)
           sb == Stretched(base, n)
           sc == Stretched(cand, n)
           b == Geomean(base, Identity(base))
           t == Geomean(cand, Identity(cand))
<1>1. /\ c \in Cells /\ Recorded(base) /\ Recorded(cand) /\ RepeatsOf(base) = RepeatsOf(cand)
      /\ Sampled(base) /\ Sampled(cand) /\ Cardinality(RepeatsOf(base)) >= Repeats
  BY DEF Samples, Scorable, Paired
<1>2. RepeatsOf(base) = 1 .. Repeats
  BY <1>1, RepeatsAreAll
<1>3. m \in Nat \ {0}
  BY ScaleIsPositive
<1>4. /\ Recorded(sb) /\ Recorded(sc) /\ RepeatsOf(sb) = RepeatsOf(base)
      /\ RepeatsOf(sc) = RepeatsOf(base)
  BY <1>1, StretchedIsSampled
<1>5. Draws(sb) = Draws(base)
  BY <1>4 DEF Draws
<1>6. ASSUME NEW d \in Draws(base)
      PROVE  /\ Geomean(sb, d) = m * Geomean(base, d) /\ Geomean(sc, d) = m * Geomean(cand, d)
             /\ Geomean(base, d) \in Nat \ {0} /\ Geomean(cand, d) \in Nat \ {0}
  <2>1. d \in [1 .. Repeats -> RepeatsOf(base)] /\ d \in [1 .. Repeats -> RepeatsOf(cand)]
    BY <1>1 DEF Draws
  <2>2. Geomean(sb, d) = m * Geomean(base, d) /\ Geomean(sc, d) = m * Geomean(cand, d)
    BY <1>1, <2>1, GeomeanScales
  <2> QED
    BY <1>1, <2>2, DrawIsMeasured
<1>7. /\ Identity(base) \in Draws(base) /\ Identity(sb) = Identity(base)
      /\ Identity(sc) = Identity(base) /\ Identity(cand) = Identity(base)
  BY <1>1, <1>2, <1>4 DEF Draws, Identity
<1>8. /\ Geomean(sb, Identity(sb)) = m * b /\ Geomean(sc, Identity(sc)) = m * t
      /\ b \in Nat \ {0} /\ t \in Nat \ {0}
  BY <1>6, <1>7
<1>9. ASSUME NEW d \in Draws(base)
      PROVE  Gap(RunCeiling(c, m * b), Geomean(sb, d), Geomean(sc, d))
               = Gap(RunCeiling(c, b), Geomean(base, d), Geomean(cand, d))
  <2> DEFINE x == Geomean(base, d)
             y == Geomean(cand, d)
  <2>1. c \in Cells /\ m \in Nat \ {0} /\ b \in Nat \ {0} /\ x \in Nat \ {0} /\ y \in Nat \ {0}
    BY <1>1, <1>3, <1>6, <1>8
  <2>2. Geomean(sb, d) = m * x /\ Geomean(sc, d) = m * y
    BY <1>6
  <2> HIDE DEF m, b, x, y
  <2>3. SameGap(c, m, b, x, y)
    BY <2>1, GapScales
  <2> QED
    BY <2>2, <2>3 DEF x, y, SameGap
<1>10. Resampled(c, sb, sc) = Resampled(c, base, cand)
  <2>1. Resampled(c, sb, sc)
          = {Gap(RunCeiling(c, m * b), Geomean(sb, d), Geomean(sc, d)) : d \in Draws(base)}
    BY <1>5, <1>8 DEF Resampled
  <2>2. Resampled(c, base, cand)
          = {Gap(RunCeiling(c, b), Geomean(base, d), Geomean(cand, d)) : d \in Draws(base)}
    BY DEF Resampled
  <2> QED
    BY <1>9, <2>1, <2>2
<1>11. Gap(RunCeiling(c, m * b), m * b, m * t) = Gap(RunCeiling(c, b), b, t)
  <2>1. c \in Cells /\ m \in Nat \ {0} /\ b \in Nat \ {0} /\ t \in Nat \ {0}
    BY <1>1, <1>3, <1>8
  <2> HIDE DEF m, b, t
  <2>2. SameGap(c, m, b, b, t)
    BY <2>1, GapScales
  <2> QED
    BY <2>2 DEF SameGap
<1>12. ScoreCell(c, sb, sc) = ScoreCell(c, base, cand)
  <2> DEFINE sg == Gap(RunCeiling(c, Geomean(sb, Identity(sb))), Geomean(sb, Identity(sb)),
                       Geomean(sc, Identity(sc)))
             g == Gap(RunCeiling(c, b), b, t)
  <2>1. sg = g
    BY <1>8, <1>11
  <2>2. ScoreCell(c, base, cand) =
          LET lower == Least(Resampled(c, base, cand))
              upper == Greatest(Resampled(c, base, cand))
              resolved == Resolves(c, lower, upper)
          IN [gap |-> g, lower |-> lower, upper |-> upper, resolved |-> resolved,
              credited |-> IF resolved THEN g ELSE Zero]
    BY DEF ScoreCell
  <2>3. ScoreCell(c, sb, sc) =
          LET lower == Least(Resampled(c, sb, sc))
              upper == Greatest(Resampled(c, sb, sc))
              resolved == Resolves(c, lower, upper)
          IN [gap |-> sg, lower |-> lower, upper |-> upper, resolved |-> resolved,
              credited |-> IF resolved THEN sg ELSE Zero]
    BY DEF ScoreCell
  <2> HIDE DEF sg, g
  <2> QED
    BY <1>10, <2>1, <2>2, <2>3
<1> QED
  BY <1>8, <1>12

\* Finitely many numbers have a largest.
LEMMA MaxExists ==
    ASSUME NEW S \in SUBSET Nat, IsFiniteSet(S), S # {}
    PROVE  Max(S) \in S /\ \A x \in S : x <= Max(S)
<1> DEFINE high(s) == \E x \in s : \A y \in s : x >= y
           P == {s \in SUBSET S : s # {} => high(s)}
<1>1. {} \in P
  OBVIOUS
<1>2. ASSUME NEW s \in SUBSET S, s # {}, s \ {Chosen(s)} \in P
      PROVE  s \in P
  <2> DEFINE c == Chosen(s)
             rest == s \ {c}
  <2>1. c \in s /\ c \in Nat
    BY <1>2, ChosenIsOne
  <2>2. CASE rest = {}
    <3>1. \A y \in s : c >= y
      BY <2>1, <2>2
    <3> QED
      BY <2>1, <3>1
  <2>3. CASE rest # {}
    <3>1. high(rest)
      BY <1>2, <2>3
    <3>2. PICK x \in rest : \A y \in rest : x >= y
      BY <3>1
    <3>3. x \in Nat /\ x \in s /\ \A y \in s : y = c \/ (y \in rest /\ y \in Nat)
      BY <2>1, <3>2
    <3> HIDE DEF c, rest
    <3>4. CASE x >= c
      <4>1. \A y \in s : x >= y
        BY <3>2, <3>3, <3>4
      <4> QED
        BY <3>3, <4>1
    <3>5. CASE ~(x >= c)
      <4>1. \A y \in s : c >= y
        BY <2>1, <3>2, <3>3, <3>5
      <4> QED
        BY <2>1, <4>1
    <3> QED
      BY <3>4, <3>5
  <2> QED
    BY <2>2, <2>3
<1> HIDE DEF P
<1>3. SUBSET S \subseteq P
  BY <1>1, <1>2, ChosenInduction
<1>4. S \in P
  BY <1>3
<1>5. \E x \in S : \A y \in S : x >= y
  BY <1>4 DEF P
<1>6. Max(S) \in S /\ \A y \in S : Max(S) >= y
  BY <1>5 DEF Max
<1> QED
  BY <1>6

\* Of the multiples, the multiples are the largest and the least.
Multiples(m, T, S) ==
    /\ \A s \in S : m * s \in T
    /\ \A t \in T : \E s \in S : t = m * s

\* The least and the greatest of a set of multiples.
LEMMA EndsScale ==
    ASSUME NEW m \in Nat \ {0}, NEW S \in SUBSET Nat, IsFiniteSet(S), S # {},
           NEW T \in SUBSET Nat, IsFiniteSet(T), T # {}, Multiples(m, T, S)
    PROVE  /\ Max(S) \in S /\ Min(S) \in S
           /\ Max(T) = m * Max(S) /\ Min(T) = m * Min(S)
<1> DEFINE a == Max(S)
           b == Min(S)
           u == Max(T)
           v == Min(T)
<1>1. a \in S /\ b \in S /\ \A x \in S : x <= a /\ b <= x
  BY MaxExists, MinIsLeast
<1>2. u \in T /\ v \in T /\ \A x \in T : x <= u /\ v <= x
  BY MaxExists, MinIsLeast
<1> HIDE DEF a, b, u, v
<1>3. m * a \in T /\ m * b \in T
  BY <1>1 DEF Multiples
<1>4. PICK p \in S : u = m * p
  BY <1>2 DEF Multiples
<1>5. PICK q \in S : v = m * q
  BY <1>2 DEF Multiples
<1>6. a \in Int /\ b \in Int /\ p \in Int /\ q \in Int /\ u \in Int /\ v \in Int
  BY <1>1, <1>2
<1>7. p <= a /\ b <= q
  BY <1>1
<1>8. p * m <= a * m /\ b * m <= q * m
  BY <1>6, <1>7, TimesOrder
<1>9. m * a <= u /\ v <= m * b
  BY <1>2, <1>3
<1>10. p * m = m * p /\ a * m = m * a /\ b * m = m * b /\ q * m = m * q
  BY <1>6
<1>11. m * a \in Int /\ m * b \in Int
  BY <1>6
<1>12. u = m * a /\ v = m * b
  BY <1>4, <1>5, <1>6, <1>8, <1>9, <1>10, <1>11
<1> QED
  BY <1>1, <1>12 DEF a, b, u, v

\* How far the repeats are apart, in shares of the fastest, is the same.
LEMMA SpreadScales ==
    ASSUME NEW m \in Nat \ {0}, NEW slow \in Nat, NEW fast \in Nat, NEW f1 \in Nat, NEW f2 \in Nat,
           (slow - fast) * f2 <= SpreadFloors * f1 * fast,
           NEW u, u = m * slow, NEW v, v = m * fast
    PROVE  (u - v) * f2 <= SpreadFloors * f1 * v
<1> DEFINE w == slow - fast
           x == w * f2
           k == 3 * f1
           y == k * fast
<1>1. w \in Int /\ k \in Int /\ x \in Int /\ y \in Int
  <2>1. w \in Int /\ k \in Int
    OBVIOUS
  <2> HIDE DEF w, k
  <2> QED
    BY <2>1
<1>2. x <= y
  BY DEF SpreadFloors
<1>3. u - v = m * w
  OBVIOUS
<1>4. (u - v) * f2 = m * x
  <2> HIDE DEF w
  <2> QED
    BY <1>1, <1>3, TimesAssociates
<1>5. SpreadFloors * f1 * v = m * y
  <2>1. SpreadFloors * f1 = k
    BY DEF SpreadFloors
  <2> HIDE DEF k
  <2>2. k * (m * fast) = (k * m) * fast /\ (m * k) * fast = m * (k * fast) /\ k * m = m * k
    BY <1>1, TimesAssociates, TimesCommutes
  <2> QED
    BY <2>1, <2>2
<1>6. x * m <= y * m
  <2> HIDE DEF x, y
  <2> QED
    BY <1>1, <1>2, TimesOrder
<1> HIDE DEF x, y
<1>7. x * m = m * x /\ y * m = m * y
  BY <1>1
<1> QED
  BY <1>4, <1>5, <1>6, <1>7

\* What was quiet is as quiet on a card that is slower throughout.
LEMMA QuietScales ==
    ASSUME NEW c \in Cells, NEW base, Recorded(base), base # {}, Quiet(c, base),
           NEW n \in Nat \ {0}
    PROVE  Quiet(c, Stretched(base, n))
<1> DEFINE m == Scale(n)
           S == {Seconds(r) : r \in base}
           T == {Seconds(r) : r \in Stretched(base, n)}
           all == Stretched(base, n)
           f == [r \in base |-> Seconds(r)]
           g == [r \in all |-> Seconds(r)]
           f1 == Cell[c].floor[1]
           f2 == Cell[c].floor[2]
<1>1. m \in Nat \ {0} /\ f1 \in Nat /\ f2 \in Nat
  BY ScaleIsPositive, CellIsDeclared
<1>2. Recorded(all) /\ all # {}
  BY StretchedIsSampled
<1>3. S \in SUBSET Nat /\ T \in SUBSET Nat /\ S # {} /\ T # {}
  BY <1>2, SecondsArePositive
<1>4. f \in Surjection(base, S) /\ g \in Surjection(all, T)
  BY DEF Surjection
<1>5. IsFiniteSet(S) /\ IsFiniteSet(T)
  <2> HIDE DEF S, T, all, f, g
  <2> QED
    BY <1>2, <1>4, FS_Surjection DEF Recorded
<1>6. Multiples(m, T, S)
  <2>1. ASSUME NEW r \in base
        PROVE  /\ [r EXCEPT !.root = n * @] \in all
               /\ Seconds([r EXCEPT !.root = n * @]) = m * Seconds(r)
    <3>1. [r EXCEPT !.root = n * @] \in all
      BY DEF Stretched
    <3> QED
      BY <3>1, SecondsScale
  <2>2. ASSUME NEW q \in all
        PROVE  \E r \in base : Seconds(q) = m * Seconds(r)
    <3>1. PICK r \in base : q = [r EXCEPT !.root = n * @]
      BY DEF Stretched
    <3> QED
      BY <2>1, <3>1
  <2>3. ASSUME NEW s \in S
        PROVE  m * s \in T
    <3>1. PICK r \in base : s = Seconds(r)
      OBVIOUS
    <3> QED
      BY <2>1, <3>1
  <2>4. ASSUME NEW t \in T
        PROVE  \E s \in S : t = m * s
    <3>1. PICK q \in all : t = Seconds(q)
      OBVIOUS
    <3>2. PICK r \in base : Seconds(q) = m * Seconds(r)
      BY <2>2
    <3> QED
      BY <3>1, <3>2
  <2> HIDE DEF S, T
  <2> QED
    BY <2>3, <2>4 DEF Multiples
<1>7. (Max(S) - Min(S)) * f2 <= SpreadFloors * f1 * Min(S)
  BY DEF Quiet
<1>8. Quiet(c, all) <=> (Max(T) - Min(T)) * f2 <= SpreadFloors * f1 * Min(T)
  BY DEF Quiet
<1> HIDE DEF m, S, T, all, f1, f2
<1>9. Max(S) \in S /\ Min(S) \in S /\ Max(T) = m * Max(S) /\ Min(T) = m * Min(S)
  BY <1>1, <1>3, <1>5, <1>6, EndsScale
<1>10. Max(S) \in Nat /\ Min(S) \in Nat
  BY <1>3, <1>9
<1>11. (Max(T) - Min(T)) * f2 <= SpreadFloors * f1 * Min(T)
  BY <1>1, <1>7, <1>9, <1>10, SpreadScales
<1> QED
  BY <1>8, <1>11 DEF all

\* The guards that do not look at the anchor let the slower card's arms pass as well.
LEMMA GuardsScale ==
    ASSUME NEW c, NEW base, NEW cand, Samples(c, base, cand), InRepeats(base),
           NEW n \in Nat \ {0}
    PROVE  /\ Paired(Stretched(base, n), Stretched(cand, n))
           /\ Quiet(c, Stretched(base, n))
           /\ AboveTheCeiling(c, Stretched(base, n), Stretched(cand, n))
<1> DEFINE m == Scale(n)
           sb == Stretched(base, n)
           sc == Stretched(cand, n)
           b == Geomean(base, Identity(base))
           t == Geomean(cand, Identity(cand))
           a1 == Cell[c].achieved[1]
           a2 == Cell[c].achieved[2]
<1>1. /\ c \in Cells /\ Recorded(base) /\ Recorded(cand) /\ base # {} /\ cand # {}
      /\ RepeatsOf(base) = RepeatsOf(cand) /\ Sampled(base) /\ Sampled(cand)
      /\ Cardinality(RepeatsOf(base)) >= Repeats /\ Quiet(c, base)
      /\ AboveTheCeiling(c, base, cand)
  BY DEF Samples, Scorable, Paired
<1>2. Paired(sb, sc)
  BY <1>1, StretchedIsSampled DEF Paired
<1>3. Quiet(c, sb)
  BY <1>1, QuietScales
<1>4. m \in Nat \ {0} /\ a1 \in Nat /\ a2 \in Nat /\ b \in Nat \ {0} /\ t \in Nat \ {0}
  BY <1>1, ScaleIsPositive, CellIsDeclared, MeanIsMeasured
<1>5. Geomean(sb, Identity(sb)) = m * b /\ Geomean(sc, Identity(sc)) = m * t
  BY CellScales
<1>6. a2 * t > a1 * b
  BY <1>1 DEF AboveTheCeiling, RunCeiling
<1>7. a2 * (m * t) > a1 * (m * b)
  <2> HIDE DEF m, a1, a2, b, t
  <2> DEFINE x == a1 * b
             y == a2 * t
  <2>1. x \in Int /\ y \in Int /\ x < y
    BY <1>4, <1>6
  <2>2. a2 * (m * t) = (a2 * m) * t /\ (m * a2) * t = m * y /\ a2 * m = m * a2
    BY <1>4, TimesAssociates, TimesCommutes
  <2>3. a1 * (m * b) = (a1 * m) * b /\ (m * a1) * b = m * x /\ a1 * m = m * a1
    BY <1>4, TimesAssociates, TimesCommutes
  <2> HIDE DEF x, y
  <2>4. x * m < y * m
    BY <1>4, <2>1, TimesOrder
  <2>5. x * m = m * x /\ y * m = m * y /\ m * x \in Int /\ m * y \in Int
    BY <1>4, <2>1
  <2> QED
    BY <2>2, <2>3, <2>4, <2>5
<1>8. AboveTheCeiling(c, sb, sc)
  BY <1>5, <1>7 DEF AboveTheCeiling, RunCeiling
<1> QED
  BY <1>2, <1>3, <1>8

\* A scale that is m times as fine
LEMMA FinerScale ==
    ASSUME NEW m \in Nat \ {0}, NEW a \in Int, NEW k \in Int, NEW r \in 0 .. m - 1
    PROVE  /\ m * a + r \in Int
           /\ a < k <=> m * a + r < m * k
           /\ a >= 0 <=> m * a + r >= 0
<1>1. r \in Int /\ 0 <= r /\ r < m /\ m \in Int
  OBVIOUS
<1>2. m * a \in Int /\ m * k \in Int /\ a * m = m * a /\ k * m = m * k
  OBVIOUS
<1>3. ASSUME NEW i \in Int, NEW j \in Int, i < j
      PROVE  m * i + r < m * j
  <2>1. i + 1 <= j
    BY <1>3
  <2>2. (i + 1) * m <= j * m
    BY <2>1, TimesOrder
  <2>3. (i + 1) * m = m * i + m /\ j * m = m * j /\ m * i \in Int /\ m * j \in Int
    OBVIOUS
  <2> QED
    BY <1>1, <2>2, <2>3
<1>4. ASSUME NEW i \in Int, NEW j \in Int, ~(i < j)
      PROVE  ~(m * i + r < m * j)
  <2>1. j <= i
    BY <1>4
  <2>2. j * m <= i * m
    BY <2>1, TimesOrder
  <2>3. i * m = m * i /\ j * m = m * j /\ m * i \in Int /\ m * j \in Int
    OBVIOUS
  <2> QED
    BY <1>1, <2>2, <2>3
<1>5. a < k <=> m * a + r < m * k
  BY <1>3, <1>4
<1>6. a < 0 <=> m * a + r < m * 0
  <2>1. 0 \in Int
    OBVIOUS
  <2> QED
    BY <1>3, <1>4, <2>1
<1>7. m * 0 = 0 /\ m * a + r \in Int
  BY <1>1, <1>2
<1> QED
  BY <1>5, <1>6, <1>7

\* A portfolio whose first objective is told on such a scale
Pulled(points, m) == {[p EXCEPT ![1] = m * @] : p \in points}

\* The points of the slower card are points, of a larger box.
LEMMA PulledArePoints ==
    ASSUME NEW points, NEW ref, NEW top, ArePoints(points, ref, top), 1 \in DOMAIN ref,
           NEW m \in Nat \ {0}
    PROVE  ArePoints(Pulled(points, m), ref, m * top)
<1> DEFINE D == DOMAIN ref
           big == m * top
           pull(p) == [p EXCEPT ![1] = m * @]
           f == [p \in points |-> pull(p)]
<1>1. /\ IsFiniteSet(D) /\ ref \in [D -> Nat] /\ top \in Nat /\ IsFiniteSet(points)
      /\ points \in SUBSET [D -> 0 .. top]
  BY DEF ArePoints, IsCorner
<1>2. big \in Nat /\ top <= big
  <2>1. 1 <= m /\ m \in Int /\ 1 \in Int
    OBVIOUS
  <2>2. CASE top = 0
    BY <2>2
  <2>3. CASE top # 0
    <3>1. top \in Nat \ {0}
      BY <1>1, <2>3
    <3>2. 1 * top <= m * top
      BY <2>1, <3>1, TimesOrder
    <3> QED
      BY <3>1, <3>2
  <2> QED
    BY <1>1, <2>2, <2>3
<1>3. ASSUME NEW p \in points
      PROVE  pull(p) \in [D -> 0 .. big]
  <2>1. p \in [D -> 0 .. top]
    BY <1>1
  <2>2. p[1] \in Nat /\ p[1] <= top
    BY <1>1, <2>1
  <2>3. m * p[1] \in Nat /\ m * p[1] <= big
    <3> DEFINE x == p[1]
    <3>1. x \in Int /\ top \in Int /\ x <= top /\ m * x \in Nat
      BY <1>1, <2>2
    <3> HIDE DEF x
    <3>2. x * m <= top * m
      BY <3>1, TimesOrder
    <3>3. x * m = m * x /\ top * m = m * top
      BY <3>1
    <3> QED
      BY <3>1, <3>2, <3>3 DEF x
  <2>4. m * p[1] \in 0 .. big
    <3> HIDE DEF big
    <3> QED
      BY <1>2, <2>3
  <2>5. \A i \in D : p[i] \in 0 .. big
    <3> HIDE DEF big
    <3> QED
      BY <1>1, <1>2, <2>1
  <2> HIDE DEF big
  <2> QED
    BY <2>1, <2>4, <2>5
<1>4. f \in Surjection(points, Pulled(points, m))
  BY DEF Surjection, Pulled
<1>5. IsFiniteSet(Pulled(points, m))
  <2> HIDE DEF f
  <2> QED
    BY <1>1, <1>4, FS_Surjection
<1>6. Pulled(points, m) \in SUBSET [D -> 0 .. big]
  BY <1>3 DEF Pulled
<1> QED
  BY <1>1, <1>2, <1>5, <1>6 DEF ArePoints, IsCorner

\* spans m times the volume.
LEMMA VolumeScales ==
    ASSUME NEW n \in Nat \ {0}, NEW points, NEW ref, NEW top, ArePoints(points, ref, top),
           DOMAIN ref = 1 .. n, ref[1] = 0, NEW m \in Nat \ {0}
    PROVE  Hypervolume(Pulled(points, m), ref) = m * Hypervolume(points, ref)
<1> DEFINE D == DOMAIN ref
           big == m * top
           P == CoveredBy(points, ref, top)
           Q == CoveredBy(Pulled(points, m), ref, big)
           R == 0 .. m - 1
           pairs == P \X R
           box(x) == [x[1] EXCEPT ![1] = m * @ + x[2]]
           h == [x \in pairs |-> box(x)]
<1>1. /\ 1 \in D /\ ref \in [D -> Nat] /\ top \in Nat /\ points \in SUBSET [D -> 0 .. top]
  BY DEF ArePoints, IsCorner
<1>2. ArePoints(Pulled(points, m), ref, big)
  BY <1>1, PulledArePoints
<1>3. /\ IsFiniteSet(P) /\ Hypervolume(points, ref) = Cardinality(P)
      /\ IsFiniteSet(Q) /\ Hypervolume(Pulled(points, m), ref) = Cardinality(Q)
  <2> HIDE DEF big
  <2> QED
    BY <1>2, VolumeIsACount
<1>4. big \in Nat
  BY <1>2 DEF ArePoints, IsCorner
<1>5. ASSUME NEW x \in pairs
      PROVE  /\ box(x) \in Q /\ box(x)[1] = m * x[1][1] + x[2]
             /\ \A i \in D \ {1} : box(x)[i] = x[1][i]
             /\ x[1] \in [D -> 0 .. top - 1] /\ x[1][1] \in Int /\ x[2] \in R
  <2>1. x[1] \in Room(ref, top) /\ x[2] \in R
    BY DEF CoveredBy
  <2>2. x[1] \in [D -> 0 .. top - 1] /\ \A i \in D : x[1][i] >= ref[i]
    BY <2>1 DEF Room
  <2>3. x[1][1] \in Int /\ x[1][1] >= 0 /\ x[1][1] < top
    BY <1>1, <2>2
  <2>4. PICK p \in points : \A i \in D : p[i] > x[1][i]
    BY DEF CoveredBy
  <2>5. p \in [D -> 0 .. top] /\ p[1] \in Int
    BY <1>1, <2>4
  <2>6. [p EXCEPT ![1] = m * @] \in Pulled(points, m)
    BY <2>4 DEF Pulled
  <2>7. /\ box(x)[1] = m * x[1][1] + x[2]
        /\ \A i \in D \ {1} : box(x)[i] = x[1][i]
    BY <1>1, <2>2
  <2>8. m * x[1][1] + x[2] \in 0 .. big - 1 /\ m * x[1][1] + x[2] < m * p[1]
    <3> DEFINE a == x[1][1]
               k == p[1]
               r == x[2]
    <3>1. a \in Int /\ k \in Int /\ r \in 0 .. m - 1 /\ a < k /\ a < top /\ a >= 0 /\ top \in Int
      BY <1>1, <2>1, <2>3, <2>4, <2>5
    <3> HIDE DEF a, k, r
    <3>2. m * a + r < m * k /\ m * a + r \in Int /\ m * a + r >= 0 /\ m * a + r < m * top
      BY <3>1, FinerScale
    <3> DEFINE y == m * a + r
    <3>3. y \in Int /\ y >= 0 /\ y < big /\ y < m * k
      BY <3>2
    <3> HIDE DEF y, big
    <3>4. y \in 0 .. big - 1
      BY <1>4, <3>3
    <3> QED
      BY <3>3, <3>4 DEF a, k, r, y
  <2>9. top <= big
    <3>1. 1 <= m /\ m \in Int /\ 1 \in Int /\ top \in Nat \ {0}
      BY <1>1, <2>3
    <3>2. 1 * top <= m * top
      BY <3>1, TimesOrder
    <3> QED
      BY <3>1, <3>2
  <2>10. box(x) \in [D -> 0 .. big - 1]
    <3>1. \A i \in D \ {1} : x[1][i] \in 0 .. big - 1
      <4> HIDE DEF big
      <4> QED
        BY <1>1, <1>4, <2>2, <2>9
    <3>2. \A i \in D : box(x)[i] \in 0 .. big - 1
      <4> HIDE DEF big
      <4> QED
        BY <2>7, <2>8, <3>1
    <3> HIDE DEF big
    <3> QED
      BY <2>2, <3>2
  <2>11. box(x) \in Room(ref, big)
    <3>1. \A i \in D : box(x)[i] >= ref[i]
      BY <2>2, <2>7, <2>8
    <3> HIDE DEF box, big
    <3> QED
      BY <2>10, <3>1 DEF Room
  <2>12. \A i \in D : [p EXCEPT ![1] = m * @][i] > box(x)[i]
    BY <2>4, <2>5, <2>7, <2>8
  <2> HIDE DEF box, big
  <2> QED
    BY <2>1, <2>2, <2>3, <2>6, <2>7, <2>11, <2>12 DEF CoveredBy
<1>6. ASSUME NEW x \in pairs, NEW z \in pairs, box(x) = box(z)
      PROVE  x = z
  <2> DEFINE a == x[1][1]
             r == x[2]
             k == z[1][1]
             w == z[2]
  <2>1. /\ x[1] \in [D -> 0 .. top - 1] /\ z[1] \in [D -> 0 .. top - 1]
        /\ a \in Int /\ k \in Int /\ r \in R /\ w \in R
        /\ box(x)[1] = m * a + r /\ box(z)[1] = m * k + w
        /\ \A i \in D \ {1} : x[1][i] = z[1][i]
    BY <1>5, <1>6
  <2>2. m * a + r = m * k + w
    BY <1>6, <2>1
  <2>3. r = w /\ a = k
    <3> HIDE DEF a, r, k, w, box, pairs
    <3>1. r = w
      BY <2>1, <2>2, RestIsUnique
    <3>2. r \in Int
      BY <2>1
    <3>3. a * m = k * m
      BY <2>1, <2>2, <3>1, <3>2
    <3>4. a = k
      BY <2>1, <3>3, TimesOrder
    <3> QED
      BY <3>1, <3>4
  <2>4. x[1] = z[1]
    <3>1. x[1][1] = z[1][1]
      BY <2>3
    <3>2. \A i \in D : x[1][i] = z[1][i]
      BY <2>1, <3>1
    <3> DEFINE e == x[1]
               g == z[1]
    <3>3. e = [i \in D |-> e[i]] /\ g = [i \in D |-> g[i]]
      BY <2>1
    <3> HIDE DEF D
    <3>4. [i \in D |-> e[i]] = [i \in D |-> g[i]]
      BY <3>2
    <3> HIDE DEF e, g
    <3>5. e = g
      BY <3>3, <3>4, Zenon
    <3> QED
      BY <3>5 DEF e, g
  <2> QED
    BY <2>3, <2>4
<1>7. ASSUME NEW y \in Q
      PROVE  \E x \in pairs : h[x] = y
  <2>1. y \in Room(ref, big)
    BY DEF CoveredBy
  <2>2. y \in [D -> 0 .. big - 1] /\ \A i \in D : y[i] >= ref[i]
    BY <2>1 DEF Room
  <2>3. PICK p \in points : \A i \in D : [p EXCEPT ![1] = m * @][i] > y[i]
    BY DEF CoveredBy, Pulled
  <2>4. p \in [D -> 0 .. top] /\ p[1] \in Int
    BY <1>1, <2>3
  <2>5. m * p[1] > y[1] /\ \A i \in D \ {1} : p[i] > y[i]
    BY <1>1, <2>3, <2>4
  <2> DEFINE v == y[1]
             r == Rest(v, m)
  <2>6. v \in Nat
    <3> HIDE DEF big
    <3> QED
      BY <1>1, <1>4, <2>2
  <2> HIDE DEF v
  <2>7. PICK q \in Nat : v = m * q + r
    BY <2>6, QuotientAndRest
  <2>8. r \in R
    BY <2>6, RemainderIsLess
  <2> HIDE DEF r
  <2>9. q < p[1]
    <3> DEFINE k == p[1]
    <3>1. k \in Int /\ q \in Int /\ m * q + r < m * k
      BY <2>4, <2>5, <2>7 DEF v
    <3> HIDE DEF k
    <3>2. q < k
      BY <2>8, <3>1, FinerScale
    <3> QED
      BY <3>2 DEF k
  <2> DEFINE b == [y EXCEPT ![1] = q]
             x == <<b, r>>
  <2>10. \A i \in D : p[i] > b[i]
    BY <2>2, <2>5, <2>9
  <2>11. \A i \in D : b[i] >= ref[i] /\ b[i] \in Nat
    <3>1. \A i \in D : y[i] \in Nat /\ y[i] >= ref[i]
      <4> HIDE DEF big
      <4> QED
        BY <1>4, <2>2
    <3> HIDE DEF big
    <3> QED
      BY <1>1, <2>2, <2>7, <3>1
  <2>12. \A i \in D : b[i] \in 0 .. top - 1
    <3>1. \A i \in D : b[i] < p[i] /\ p[i] <= top /\ p[i] \in Nat
      BY <1>1, <2>4, <2>10
    <3> HIDE DEF b
    <3> QED
      BY <1>1, <2>11, <3>1
  <2>13. b \in [D -> 0 .. top - 1]
    <3>1. b = [i \in D |-> b[i]]
      BY <2>2
    <3> HIDE DEF b
    <3> QED
      BY <2>12, <3>1
  <2>14. b \in P
    <3> HIDE DEF b
    <3> QED
      BY <2>3, <2>10, <2>11, <2>13 DEF CoveredBy, Room
  <2>15. x \in pairs
    BY <2>8, <2>14
  <2>16. box(x) = y
    <3>1. box(x)[1] = v /\ \A i \in D \ {1} : box(x)[i] = y[i]
      BY <1>1, <2>2, <2>7
    <3>2. box(x) = [i \in D |-> box(x)[i]] /\ y = [i \in D |-> y[i]]
      BY <2>2
    <3>3. \A i \in D : box(x)[i] = y[i]
      BY <3>1 DEF v
    <3> HIDE DEF box, x
    <3> QED
      BY <3>2, <3>3
  <2>17. h[x] = box(x)
    BY <2>15
  <2> QED
    BY <2>15, <2>16, <2>17
<1>8. h \in Bijection(pairs, Q)
  <2>1. \A x \in pairs : h[x] = box(x)
    OBVIOUS
  <2>2. h \in [pairs -> Q]
    <3>1. \A x \in pairs : box(x) \in Q
      BY <1>5
    <3> HIDE DEF pairs, Q, box
    <3> QED
      BY <3>1
  <2>3. \A x, z \in pairs : h[x] = h[z] => x = z
    <3> HIDE DEF pairs, h, box
    <3> QED
      BY <1>6, <2>1
  <2> HIDE DEF h, pairs, Q
  <2> QED
    BY <1>7, <2>2, <2>3 DEF Bijection, Injection, Surjection, IsInjective
<1>9. IsFiniteSet(R) /\ Cardinality(R) = m
  <2> DEFINE k == m - 1
  <2>1. 0 \in Int /\ k \in Int /\ k >= 0 /\ k - 0 + 1 = m
    OBVIOUS
  <2> HIDE DEF k
  <2>2. IsFiniteSet(0 .. k) /\ Cardinality(0 .. k) = IF 0 > k THEN 0 ELSE k - 0 + 1
    BY <2>1, FS_Interval
  <2> QED
    BY <2>1, <2>2 DEF k
<1> HIDE DEF h, P, Q, R
<1>10. IsFiniteSet(pairs) /\ Cardinality(pairs) = Cardinality(P) * m
  BY <1>3, <1>9, FS_Product
<1> HIDE DEF pairs
<1>11. Cardinality(Q) = Cardinality(pairs)
  BY <1>8, <1>10, FS_Bijection DEF ExistsBijection
<1>12. Cardinality(P) \in Nat
  BY <1>3, FS_CardinalityType
<1>13. Cardinality(P) * m = m * Cardinality(P)
  BY <1>12
<1> QED
  BY <1>3, <1>10, <1>11, <1>13

\* Clamping scales with its range.
LEMMA NormalizeScales ==
    ASSUME NEW m \in Nat \ {0}, NEW s \in Int, NEW k \in Int, NEW u, u = m * s, NEW v, v = m * k
    PROVE  Normalize(u, v) = m * Normalize(s, k)
<1>1. m \in Int /\ u \in Int /\ v \in Int /\ s * m = u /\ k * m = v /\ 0 * m = 0 /\ m * 0 = 0
  OBVIOUS
<1>2. s < 0 <=> s * m < 0 * m
  BY TimesOrder
<1>3. k < s <=> k * m < s * m
  BY TimesOrder
<1>4. (s < 0 <=> u < 0) /\ (s > k <=> u > v)
  BY <1>1, <1>2, <1>3
<1> QED
  BY <1>1, <1>4 DEF Normalize

\* A record of the slower card is the same point, on the finer scale.
LEMMA PointScales ==
    ASSUME NEW c \in Cells, NEW b \in Nat \ {0}, NEW arm, Recorded(arm), NEW r \in arm,
           NEW n \in Nat \ {0}
    PROVE  Point(c, Scale(n) * b, [r EXCEPT !.root = n * @])
             = [Point(c, b, r) EXCEPT ![1] = Scale(n) * @]
<1> DEFINE m == Scale(n)
           q == [r EXCEPT !.root = n * @]
           t == Seconds(r)
           a1 == Cell[c].achieved[1]
           a2 == Cell[c].achieved[2]
           w == 3 * a2 - 2 * a1
           s == a2 * (3 * b - 2 * t)
           k == w * b
           u == a2 * (3 * (m * b) - 2 * (m * t))
           v == w * (m * b)
<1>1. m \in Nat \ {0} /\ a1 \in Nat /\ a2 \in Nat /\ t \in Nat \ {0} /\ Seconds(q) = m * t
  BY ScaleIsPositive, CellIsDeclared, SecondsArePositive, SecondsScale
<1>2. q.memory = r.memory /\ q.drift = r.drift
  BY DEF Recorded, RawRecords
<1>3. Speed(c, m * b, q) = Normalize(u, v) /\ Speed(c, b, r) = Normalize(s, k)
  BY <1>1 DEF Speed
<1>4. w \in Int /\ s \in Int /\ k \in Int
  <2>1. w \in Int /\ 3 * b - 2 * t \in Int
    BY <1>1
  <2> HIDE DEF w, t
  <2> QED
    BY <1>1, <2>1
<1>5. u = m * s
  <2> HIDE DEF m, t, a2
  <2> DEFINE z == 3 * b - 2 * t
  <2>1. z \in Int
    BY <1>1
  <2>2. 3 * (m * b) - 2 * (m * t) = m * z
    BY <1>1
  <2> HIDE DEF z
  <2>3. a2 * (m * z) = (a2 * m) * z /\ (m * a2) * z = m * (a2 * z) /\ a2 * m = m * a2
    BY <1>1, <2>1, TimesAssociates, TimesCommutes
  <2> QED
    BY <2>2, <2>3 DEF z
<1>6. v = m * k
  <2> HIDE DEF m, w
  <2>1. w * (m * b) = (w * m) * b /\ (m * w) * b = m * (w * b) /\ w * m = m * w
    BY <1>1, <1>4, TimesAssociates, TimesCommutes
  <2> QED
    BY <2>1
<1> HIDE DEF m, q, s, k, u, v
<1>7. Normalize(u, v) = m * Normalize(s, k)
  BY <1>1, <1>4, <1>5, <1>6, NormalizeScales
<1>8. Point(c, m * b, q) = <<m * Speed(c, b, r), Point(c, b, r)[2], Point(c, b, r)[3]>>
  BY <1>2, <1>3, <1>7 DEF Point
<1>9. [Point(c, b, r) EXCEPT ![1] = m * @]
        = <<m * Speed(c, b, r), Point(c, b, r)[2], Point(c, b, r)[3]>>
  BY DEF Point
<1> QED
  BY <1>8, <1>9 DEF m, q

\* The points of a slower arm, beside the slower base.
LEMMA PointsScale ==
    ASSUME NEW c \in Cells, NEW b \in Nat \ {0}, NEW arm, Recorded(arm), NEW n \in Nat \ {0}
    PROVE  Points(c, Scale(n) * b, Stretched(arm, n)) = Pulled(Points(c, b, arm), Scale(n))
<1> DEFINE m == Scale(n)
           slow(r) == [r EXCEPT !.root = n * @]
           pull(p) == [p EXCEPT ![1] = m * @]
           told == {r \in arm : r.memory # NotReported}
<1>1. ASSUME NEW r \in arm
      PROVE  /\ slow(r).memory = r.memory
             /\ Point(c, m * b, slow(r)) = pull(Point(c, b, r))
  BY PointScales DEF Recorded, RawRecords
<1>2. Stretched(arm, n) = {slow(r) : r \in arm}
  BY DEF Stretched
<1> HIDE DEF m, slow
<1>3. {q \in Stretched(arm, n) : q.memory # NotReported} = {slow(r) : r \in told}
  BY <1>1, <1>2
<1>4. Points(c, m * b, Stretched(arm, n)) = {Point(c, m * b, slow(r)) : r \in told}
  BY <1>3 DEF Points
<1>5. Points(c, b, arm) = {Point(c, b, r) : r \in told}
  BY DEF Points
<1>6. Pulled(Points(c, b, arm), m) = {pull(Point(c, b, r)) : r \in told}
  BY <1>5 DEF Pulled
<1>7. \A r \in told : Point(c, m * b, slow(r)) = pull(Point(c, b, r))
  BY <1>1
<1> HIDE DEF pull, told
<1>8. {Point(c, m * b, slow(r)) : r \in told} = {pull(Point(c, b, r)) : r \in told}
  BY <1>7
<1> QED
  BY <1>4, <1>6, <1>8 DEF m

\* A share of the volume is the same share.
LEMMA ShareScales ==
    ASSUME NEW m \in Nat \ {0}, NEW d, d.base \in Nat, d.delta \in Int,
           NEW e, e.base = m * d.base, e.delta = m * d.delta
    PROVE  RelativeDelta(e) = RelativeDelta(d)
<1> DEFINE x == d.base
           r == <<d.delta, x>>
           s == <<m * d.delta, m * x>>
<1>1. CASE x = 0
  <2>1. e.base = 0
    BY <1>1
  <2> QED
    BY <1>1, <2>1 DEF RelativeDelta
<1>2. CASE x # 0
  <2>1. x \in Nat \ {0}
    BY <1>2
  <2>2. m * x \in Nat \ {0}
    <3> HIDE DEF x
    <3> QED
      BY <2>1, ProductIsPositive
  <2>3. x > 0 /\ m * x > 0
    BY <2>1, <2>2
  <2>4. RelativeDelta(d) = Reduced(r) /\ RelativeDelta(e) = Reduced(s)
    BY <2>3 DEF RelativeDelta
  <2>5. r \in Rationals /\ s = <<m * r[1], m * r[2]>>
    BY <2>1 DEF Rationals
  <2> HIDE DEF r, s
  <2>6. Reduced(s) = Reduced(r)
    BY <2>5, ReducedScales
  <2> QED
    BY <2>4, <2>6
<1> QED
  BY <1>1, <1>2

\* The frontier of a cell moves by the same share on a card that is slower throughout.
LEMMA FrontierScales ==
    ASSUME NEW c, NEW base, NEW cand, Samples(c, base, cand), InRepeats(base),
           NEW n \in Nat \ {0}
    PROVE  RelativeDelta(CellFrontier(c, Stretched(base, n), Stretched(cand, n)))
             = RelativeDelta(CellFrontier(c, base, cand))
<1> DEFINE m == Scale(n)
           sb == Stretched(base, n)
           sc == Stretched(cand, n)
           b == Geomean(base, Identity(base))
           B == Points(c, b, base)
           C == Points(c, b, cand)
           d == FrontierDelta(B, C, Corner)
           e == FrontierDelta(Pulled(B, m), Pulled(C, m), Corner)
<1>1. c \in Cells /\ Recorded(base) /\ Recorded(cand) /\ b \in Nat \ {0} /\ m \in Nat \ {0}
  BY IdentityIsADraw, ScaleIsPositive DEF Samples, Scorable, Paired
<1>2. Geomean(sb, Identity(sb)) = m * b
  BY CellScales
<1>3. Points(c, m * b, sb) = Pulled(B, m) /\ Points(c, m * b, sc) = Pulled(C, m)
  <2> HIDE DEF b
  <2> QED
    BY <1>1, PointsScale
<1>4. CellFrontier(c, sb, sc) = e
  BY <1>2, <1>3 DEF CellFrontier
<1>5. CellFrontier(c, base, cand) = d
  BY DEF CellFrontier
<1> DEFINE top == (3 * Cell[c].achieved[2] - 2 * Cell[c].achieved[1]) * b + MaxMemory + MaxDrift
<1>6. ArePoints(B, Corner, top) /\ ArePoints(C, Corner, top)
  <2> DEFINE t == top
  <2>1. t = (3 * Cell[c].achieved[2] - 2 * Cell[c].achieved[1]) * b + MaxMemory + MaxDrift
    OBVIOUS
  <2> HIDE DEF t
  <2>2. ArePoints(B, Corner, t) /\ ArePoints(C, Corner, t)
    <3> HIDE DEF b
    <3> QED
      BY <1>1, <2>1, PointsAreScaled
  <2> QED
    BY <2>2 DEF t
<1>7. DOMAIN Corner = 1 .. 3 /\ 3 \in Nat \ {0} /\ Corner[1] = 0
  BY DEF Corner
<1> DEFINE x == Hypervolume(B, Corner)
           y == Hypervolume(C, Corner)
<1>8. d.base = x /\ d.delta = y - x
  BY DEF FrontierDelta
<1>9. /\ e.base = Hypervolume(Pulled(B, m), Corner)
      /\ e.delta = Hypervolume(Pulled(C, m), Corner) - Hypervolume(Pulled(B, m), Corner)
  BY DEF FrontierDelta
<1> HIDE DEF top, B, C, m, d, e
<1>10. x \in Nat /\ y \in Nat
  BY <1>6, <1>7, VolumeIsACount
<1>11. Hypervolume(Pulled(B, m), Corner) = m * x /\ Hypervolume(Pulled(C, m), Corner) = m * y
  BY <1>1, <1>6, <1>7, VolumeScales
<1> HIDE DEF x, y
<1>12. e.base = m * x /\ e.delta = m * (y - x)
  BY <1>1, <1>9, <1>10, <1>11
<1>13. d.base \in Nat /\ d.delta \in Int /\ e.base = m * d.base /\ e.delta = m * d.delta
  BY <1>8, <1>10, <1>12
<1> QED
  BY <1>1, <1>4, <1>5, <1>13, ShareScales

\* The seconds of one repeat
LEMMA SecondsAtScales ==
    ASSUME NEW arm, Recorded(arm), Sampled(arm), NEW n \in Nat \ {0},
           NEW k \in RepeatsOf(arm)
    PROVE  /\ SecondsAt(arm, k) \in Nat \ {0} /\ SecondsAt(Stretched(arm, n), k) \in Nat \ {0}
           /\ SecondsAt(Stretched(arm, n), k) = Scale(n) * SecondsAt(arm, k)
<1> DEFINE all == Stretched(arm, n)
           D == 1 .. Repeats
           x == Root(arm, k)
           y == Root(all, k)
           f == [i \in D |-> x]
           g == [i \in D |-> y]
<1>1. Recorded(all) /\ k \in RepeatsOf(all) /\ y = n * x
  BY StretchedIsSampled
<1>2. x \in Nat \ {0} /\ y \in Nat \ {0}
  <2> HIDE DEF all
  <2> QED
    BY <1>1, RootIsPositive
<1>3. SecondsAt(arm, k) = Product(f) /\ SecondsAt(all, k) = Product(g)
  BY DEF SecondsAt, Seconds, Root
<1>4. IsTimes(g, n, f, D)
  BY <1>1 DEF IsTimes
<1> HIDE DEF x, y, all
<1>5. f \in [D -> (Nat \ {0})] /\ g \in [D -> (Nat \ {0})]
  BY <1>2
<1> HIDE DEF f, g
<1>6. Product(g) = Scale(n) * Product(f)
  BY <1>4, <1>5, AllScale
<1>7. Product(f) \in Nat \ {0} /\ Product(g) \in Nat \ {0}
  <2>1. IsFiniteSet(D)
    BY RepeatsAreFew
  <2> HIDE DEF D
  <2>2. Product(f) = PartProducts(f)[D] /\ Product(g) = PartProducts(g)[D]
    BY <1>5, <2>1, PartProductsAreTheFold
  <2> QED
    BY <1>5, <2>1, <2>2, PartProductsAreDefined
<1> QED
  BY <1>3, <1>6, <1>7 DEF all

\* The seconds over the repeats an arm was measured in
LEMMA ElapsedScales ==
    ASSUME NEW arm, Recorded(arm), Sampled(arm), NEW n \in Nat \ {0},
           NEW R, R = RepeatsOf(arm), NEW k, k = Product([i \in R |-> Scale(n)])
    PROVE  /\ k \in Nat \ {0} /\ Elapsed(arm, R) \in Nat \ {0}
           /\ Elapsed(Stretched(arm, n), R) = k * Elapsed(arm, R)
<1> DEFINE all == Stretched(arm, n)
           m == Scale(n)
           a == [i \in R |-> m]
           f == [i \in R |-> SecondsAt(arm, i)]
           g == [i \in R |-> SecondsAt(all, i)]
<1>1. IsFiniteSet(R) /\ m \in Nat \ {0}
  BY RepeatsAreFinite, ScaleIsPositive
<1>2. ASSUME NEW i \in R
      PROVE  SecondsAt(arm, i) \in Nat \ {0} /\ SecondsAt(all, i) \in Nat \ {0}
             /\ SecondsAt(all, i) = m * SecondsAt(arm, i)
  BY SecondsAtScales
<1> HIDE DEF m, all
<1>3. Factors(a, R) /\ Factors(f, R) /\ Factors(g, R)
  <2>1. a \in [R -> (Nat \ {0})]
    BY <1>1
  <2>2. f \in [R -> (Nat \ {0})] /\ g \in [R -> (Nat \ {0})]
    BY <1>2
  <2> HIDE DEF a, f, g
  <2> QED
    BY <1>1, <2>1, <2>2 DEF Factors
<1>4. IsAlways(a, m, R) /\ IsTimes(g, m, f, R)
  BY <1>2 DEF IsAlways, IsTimes
<1>5. /\ Elapsed(arm, R) = Product(f) /\ Elapsed(all, R) = Product(g)
      /\ k = Product(a)
  BY DEF Elapsed, m
<1> HIDE DEF a, f, g
<1>6. Product(a) \in Nat \ {0} /\ Product(f) \in Nat \ {0}
  <2> DEFINE A == PartProducts(a)
             F == PartProducts(f)
  <2>1. Product(a) = A[R] /\ Product(f) = F[R]
    BY <1>3, PartProductsAreTheFold DEF Factors
  <2>2. \A s \in SUBSET R : A[s] \in Nat \ {0} /\ F[s] \in Nat \ {0}
    BY <1>3, PartProductsStep
  <2> HIDE DEF A, F
  <2> QED
    BY <2>1, <2>2
<1>7. Product(g) = Product(a) * Product(f)
  BY <1>1, <1>3, <1>4, ProductScales
<1> QED
  BY <1>5, <1>6, <1>7 DEF all

\* Held-out arms that were both run were run in the same repeats, once in each.
HeldInPairs(held) ==
    \A c \in Cells :
        LET base == Group(held, c, "base")   cand == Group(held, c, "candidate")
        IN base # {} /\ cand # {} =>
             RepeatsOf(base) = RepeatsOf(cand) /\ Sampled(base) /\ Sampled(cand)

\* A power of a whole number is a whole number.
LEMMA PowerIsWhole ==
    ASSUME NEW x \in Nat \ {0}, NEW h \in Nat
    PROVE  x ^ h \in Int
OBVIOUS

\* The held-out shape confirms the slower card where it confirms the other.
LEMMA HeldUpScales ==
    ASSUME NEW c \in Cells, NEW held, Recorded(held), HeldInPairs(held), NEW n \in Nat \ {0},
           Group(held, c, "base") # {}, Group(held, c, "candidate") # {}
    PROVE  HeldUp(Stretched(held, n), c) <=> HeldUp(held, c)
<1> DEFINE base == Group(held, c, "base")
           cand == Group(held, c, "candidate")
           sb == Stretched(base, n)
           sc == Stretched(cand, n)
           R == RepeatsOf(base)
           k == Product([i \in R |-> Scale(n)])
           b == Elapsed(base, R)
           t == Elapsed(cand, R)
           h == Cardinality(R)
           F == Cell[c].floor[2] ^ h
           G == (Cell[c].floor[2] + Cell[c].floor[1]) ^ h
<1>1. /\ Recorded(base) /\ Recorded(cand) /\ R = RepeatsOf(cand)
      /\ Sampled(base) /\ Sampled(cand)
  BY GroupsAreRecorded DEF HeldInPairs
<1>2. Group(Stretched(held, n), c, "base") = sb /\ Group(Stretched(held, n), c, "candidate") = sc
  BY StretchedGroups
<1>3. /\ k \in Nat \ {0} /\ b \in Nat \ {0} /\ t \in Nat \ {0}
      /\ Elapsed(sb, R) = k * b /\ Elapsed(sc, R) = k * t
  <2> HIDE DEF base, cand
  <2> QED
    BY <1>1, ElapsedScales
<1>4. F \in Int /\ G \in Int
  <2> DEFINE p == Cell[c].floor[2]
             q == Cell[c].floor[2] + Cell[c].floor[1]
  <2>1. p \in Nat \ {0} /\ q \in Nat \ {0}
    BY CellIsDeclared
  <2>2. h \in Nat
    <3> HIDE DEF base
    <3>1. IsFiniteSet(R)
      BY <1>1, RepeatsAreFinite
    <3> QED
      BY <3>1, FS_CardinalityType
  <2> HIDE DEF p, q, h
  <2>3. p ^ h \in Int /\ q ^ h \in Int
    BY <2>1, <2>2, PowerIsWhole
  <2> QED
    BY <2>3 DEF p, q
<1>5. Shared(base, cand) = R /\ Shared(sb, sc) = R
  <2> HIDE DEF base, cand
  <2> QED
    BY <1>1, StretchedIsSampled DEF Shared
<1>6. HeldUp(held, c) <=> b * F >= t * G
  BY <1>5 DEF HeldUp
<1>7. HeldUp(Stretched(held, n), c) <=> (k * b) * F >= (k * t) * G
  BY <1>2, <1>3, <1>5 DEF HeldUp
<1> HIDE DEF k, b, t, F, G
<1> DEFINE x == t * G
           y == b * F
<1>8. x \in Int /\ y \in Int
  BY <1>3, <1>4
<1>9. (k * b) * F = k * y /\ (k * t) * G = k * x
  BY <1>3, <1>4, TimesAssociates
<1> HIDE DEF x, y
<1>10. x <= y <=> x * k <= y * k
  BY <1>3, <1>8, TimesOrder
<1>11. x * k = k * x /\ y * k = k * y /\ k * x \in Int /\ k * y \in Int
  BY <1>3, <1>8
<1>12. y >= x <=> k * y >= k * x
  BY <1>8, <1>10, <1>11
<1> QED
  BY <1>6, <1>7, <1>9, <1>12 DEF x, y

\* A run is scored the same on a card that is slower throughout.
LEMMA RunScales ==
    ASSUME NEW records, Scored(records), \A r \in records : r.repeat \in 1 .. Repeats,
           NEW n \in Nat \ {0}
    PROVE  /\ PerCell(Stretched(records, n)) = PerCell(records)
           /\ Expansion(Stretched(records, n)) = Expansion(records)
           /\ Complete(Stretched(records, n)) <=> Complete(records)
           /\ \A c \in ScoredCells(records) :
                /\ c \in Implemented
                /\ Paired(Group(Stretched(records, n), c, "base"),
                          Group(Stretched(records, n), c, "candidate"))
                /\ Quiet(c, Group(Stretched(records, n), c, "base"))
                /\ AboveTheCeiling(c, Group(Stretched(records, n), c, "base"),
                                      Group(Stretched(records, n), c, "candidate"))
<1> DEFINE slow == Stretched(records, n)
           D == ScoredCells(records)
           base(c) == Group(records, c, "base")
           cand(c) == Group(records, c, "candidate")
<1>1. Recorded(records)
  BY DEF Scored
<1>2. ScoredCells(slow) = D
  BY <1>1, StretchedGroups
<1>3. \A c : /\ Group(slow, c, "base") = Stretched(base(c), n)
             /\ Group(slow, c, "candidate") = Stretched(cand(c), n)
  BY <1>1, StretchedGroups
<1>4. ASSUME NEW c \in D
      PROVE  Samples(c, base(c), cand(c)) /\ InRepeats(base(c))
  BY CellsAreScored DEF InRepeats, RepeatsOf, Group
<1> HIDE DEF slow
<1>5. ASSUME NEW c \in D
      PROVE  ScoreCell(c, Group(slow, c, "base"), Group(slow, c, "candidate"))
               = ScoreCell(c, base(c), cand(c))
  BY <1>3, <1>4, CellScales
<1>6. PerCell(slow) = PerCell(records)
  BY <1>2, <1>5 DEF PerCell
<1>7. ASSUME NEW c \in D
      PROVE  RelativeDelta(CellFrontier(c, Group(slow, c, "base"), Group(slow, c, "candidate")))
               = RelativeDelta(CellFrontier(c, base(c), cand(c)))
  BY <1>3, <1>4, FrontierScales
<1>8. Expansion(slow) = Expansion(records)
  <2> DEFINE v == [c \in D |-> RelativeDelta(CellFrontier(c, base(c), cand(c)))]
             w == [c \in D |-> RelativeDelta(CellFrontier(c, Group(slow, c, "base"),
                                                             Group(slow, c, "candidate")))]
  <2>1. v = w
    BY <1>7
  <2>2. Expansion(records) = Total(v) /\ Expansion(slow) = Total(w)
    BY <1>2 DEF Expansion
  <2> HIDE DEF v, w
  <2> QED
    BY <2>1, <2>2
<1>9. Complete(slow) <=> Complete(records)
  BY <1>2 DEF Complete
<1>10. ASSUME NEW c \in D
       PROVE  /\ c \in Implemented
              /\ Paired(Group(slow, c, "base"), Group(slow, c, "candidate"))
              /\ Quiet(c, Group(slow, c, "base"))
              /\ AboveTheCeiling(c, Group(slow, c, "base"), Group(slow, c, "candidate"))
  <2>1. c \in Implemented
    BY <1>4 DEF Samples, Scorable, Implemented
  <2>2. /\ Paired(Stretched(base(c), n), Stretched(cand(c), n))
        /\ Quiet(c, Stretched(base(c), n))
        /\ AboveTheCeiling(c, Stretched(base(c), n), Stretched(cand(c), n))
    <3> DEFINE x == base(c)
               y == cand(c)
    <3>1. Samples(c, x, y) /\ InRepeats(x)
      BY <1>4
    <3> HIDE DEF x, y
    <3>2. /\ Paired(Stretched(x, n), Stretched(y, n))
          /\ Quiet(c, Stretched(x, n))
          /\ AboveTheCeiling(c, Stretched(x, n), Stretched(y, n))
      BY <3>1, GuardsScale
    <3> QED
      BY <3>2 DEF x, y
  <2> QED
    BY <1>3, <2>1, <2>2
<1> QED
  BY <1>6, <1>8, <1>9, <1>10 DEF slow

\* What survives the held-out shape survives it on a card that is slower throughout.
LEMMA SurvivalScales ==
    ASSUME NEW cells, DOMAIN cells \in SUBSET Cells, NEW held, Recorded(held),
           HeldInPairs(held), NEW n \in Nat \ {0}
    PROVE  Survived(cells, Stretched(held, n)) <=> Survived(cells, held)
<1> DEFINE slow == Stretched(held, n)
<1>1. \A c, v : Group(slow, c, v) = Stretched(Group(held, c, v), n)
  BY StretchedGroups
<1>2. \A c, v : Group(slow, c, v) # {} <=> Group(held, c, v) # {}
  BY <1>1, GroupsAreRecorded, StretchedIsSampled
<1>3. ASSUME NEW c \in Cells, Group(held, c, "base") # {}, Group(held, c, "candidate") # {}
      PROVE  HeldUp(slow, c) <=> HeldUp(held, c)
  BY <1>3, HeldUpScales
<1> HIDE DEF slow
<1>4. ASSUME NEW c \in DOMAIN cells
      PROVE  (/\ cells[c].resolved /\ cells[c].gap[1] > 0
              /\ Group(held, c, "base") # {} /\ Group(held, c, "candidate") # {}
              => HeldUp(held, c))
             <=> (/\ cells[c].resolved /\ cells[c].gap[1] > 0
                  /\ Group(slow, c, "base") # {} /\ Group(slow, c, "candidate") # {}
                  => HeldUp(slow, c))
  BY <1>2, <1>3
<1> QED
  BY <1>4 DEF Survived, slow

\* The cards that are compared are a whole number of times slower.
LEMMA SlowerBy ==
    ASSUME NEW n \in {2, 3}
    PROVE  n \in Nat \ {0}
OBVIOUS
=============================================================================
