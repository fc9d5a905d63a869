----------------------------- MODULE FrontierProofs -----------------------------
(***************************************************************************)
(* What is proved of sums, products and volumes: the hypervolume of a       *)
(* frontier, for any number of points and objectives.                       *)
(*                                                                         *)
(* A recursive definition is reasoned about by its least counterexample: a  *)
(* set of finite sets, or of numbers, that is not empty has a least member. *)
(***************************************************************************)
EXTENDS FrontierRules, FiniteSetTheorems, WellFoundedInduction, TLAPS

-----------------------------------------------------------------------------
\* Least members

\* A set of naturals that is not empty has a least member.
LEMMA LeastNatural ==
    ASSUME NEW T \in SUBSET Nat, T # {}
    PROVE  \E n \in T : \A m \in T : n <= m
<1>1. PICK n \in T : \A m \in T : ~(<<m, n>> \in OpToRel(<, Nat))
  BY NatLessThanWellFounded, WFMin
<1>2. \A m \in T : ~(m < n)
  BY <1>1 DEF OpToRel
<1> QED
  BY <1>2

\* Of a family of subsets of a finite set, one has no smaller one beside it.
LEMMA LeastSubset ==
    ASSUME NEW S, IsFiniteSet(S), NEW T \in SUBSET SUBSET S, T # {}
    PROVE  \E s \in T : \A t \in T : t \subseteq s => t = s
<1>1. FiniteSubsetsOf(S) = SUBSET S
  BY FS_FiniteSubsetsOfFinite
<1>2. IsWellFoundedOn(StrictSubsetOrdering(S), SUBSET S)
  BY <1>1, FS_StrictSubsetOrderingWellFounded
<1>3. PICK s \in T : \A t \in T : ~(<<t, s>> \in StrictSubsetOrdering(S))
  BY <1>2, WFMin
<1>4. \A t \in T : t \subseteq s => t = s
  BY <1>3 DEF StrictSubsetOrdering
<1> QED
  BY <1>4

-----------------------------------------------------------------------------
\* Folds: the community modules take the elements of a set one by one, as CHOOSE
\* gives them

Chosen(s) == CHOOSE x \in s : TRUE

\* What is chosen of a set is in it.
LEMMA ChosenIsOne ==
    ASSUME NEW s, s # {}
    PROVE  Chosen(s) \in s
BY DEF Chosen

\* What holds of the empty set, and of a set whenever it holds of the set without
\* its chosen element, holds of every finite set.
LEMMA ChosenInduction ==
    ASSUME NEW S, IsFiniteSet(S), NEW P, {} \in P,
           \A s \in SUBSET S : s # {} /\ s \ {Chosen(s)} \in P => s \in P
    PROVE  SUBSET S \subseteq P
<1> DEFINE T == (SUBSET S) \ P
<1> SUFFICES ASSUME T # {} PROVE FALSE
  OBVIOUS
<1>1. PICK s \in T : \A t \in T : t \subseteq s => t = s
  <2>1. T \in SUBSET SUBSET S
    OBVIOUS
  <2> HIDE DEF T
  <2> QED
    BY <2>1, LeastSubset
<1>2. s \in SUBSET S /\ s \notin P /\ s # {}
  BY <1>1
<1>4. Chosen(s) \in s
  BY <1>2 DEF Chosen
<1>3. s \ {Chosen(s)} \in P
  <2> DEFINE r == s \ {Chosen(s)}
  <2>1. r \in SUBSET S /\ r \subseteq s /\ r # s
    BY <1>2, <1>4
  <2> HIDE DEF r
  <2>2. r \notin T
    BY <1>1, <2>1
  <2> QED
    BY <2>1, <2>2 DEF r
<1> QED
  BY <1>2, <1>3

\* g counts the sets of up to n elements of S.
Tallies(g, n, S, V, base, H) ==
    \A s \in SUBSET S : Cardinality(s) <= n =>
        /\ g[s] \in V
        /\ s = {} => g[s] = base
        /\ s # {} => g[s] = H[s][g[s \ {Chosen(s)}]]

IsTally(g, S, V, base, H) ==
    /\ \A s \in SUBSET S : g[s] \in V
    /\ g = [s \in SUBSET S |-> IF s = {} THEN base ELSE H[s][g[s \ {Chosen(s)}]]]

\* A step function H on V has a tally of any finite set.
LEMMA FoldExists ==
    ASSUME NEW S, IsFiniteSet(S), NEW V, NEW base \in V, NEW H,
           \A s \in SUBSET S : \A v \in V : H[s][v] \in V
    PROVE  \E g : IsTally(g, S, V, base, H)
<1> DEFINE T == {n \in Nat : ~\E g : Tallies(g, n, S, V, base, H)}
<1>0. ASSUME NEW s \in SUBSET S
      PROVE  /\ Cardinality(s) \in Nat
             /\ s = {} => Cardinality(s) = 0
             /\ s # {} => Cardinality(s) # 0
             /\ s # {} => /\ s \ {Chosen(s)} \in SUBSET S
                          /\ Cardinality(s \ {Chosen(s)}) = Cardinality(s) - 1
  <2>1. IsFiniteSet(s)
    BY FS_Subset
  <2>2. s # {} => Chosen(s) \in s
    BY DEF Chosen
  <2> QED
    BY <2>1, <2>2, FS_CardinalityType, FS_EmptySet, FS_RemoveElement
<1>1. T = {}
  <2> SUFFICES ASSUME T # {} PROVE FALSE
    OBVIOUS
  <2>1. PICK n \in T : \A m \in T : n <= m
    <3>1. T \in SUBSET Nat
      OBVIOUS
    <3> HIDE DEF T
    <3> QED
      BY <3>1, LeastNatural
  <2>4. /\ n \in Nat /\ ~\E g : Tallies(g, n, S, V, base, H)
        /\ n # 0 => \E g : Tallies(g, n - 1, S, V, base, H)
    <3>1. n \in Nat /\ (n # 0 => n - 1 \in Nat /\ n - 1 \notin T)
      BY <2>1
    <3> QED
      BY <3>1
  <2> HIDE DEF T
  <2>2. CASE n = 0
    <3> DEFINE g == [s \in SUBSET S |-> base]
    <3>0. ASSUME NEW s \in SUBSET S, Cardinality(s) <= 0
          PROVE  s = {}
      <4>1. Cardinality(s) \in Nat /\ (s # {} => Cardinality(s) # 0)
        BY <1>0
      <4> QED
        BY <3>0, <4>1
    <3>1. \A s \in SUBSET S : g[s] = base
      OBVIOUS
    <3> HIDE DEF g
    <3>2. Tallies(g, 0, S, V, base, H)
      BY <3>0, <3>1 DEF Tallies
    <3> QED
      BY <2>2, <2>4, <3>2
  <2>3. CASE n # 0
    <3>1. n \in Nat /\ n - 1 \in Nat
      BY <2>3, <2>4
    <3>2. PICK g : Tallies(g, n - 1, S, V, base, H)
      BY <2>3, <2>4
    <3> DEFINE h == [s \in SUBSET S |->
                        IF Cardinality(s) <= n - 1 THEN g[s] ELSE H[s][g[s \ {Chosen(s)}]]]
    <3>3. ASSUME NEW s \in SUBSET S, Cardinality(s) <= n
          PROVE  /\ h[s] \in V
                 /\ s = {} => h[s] = base
                 /\ s # {} => h[s] = H[s][h[s \ {Chosen(s)}]]
      <4>1. CASE s = {}
        <5>0. Cardinality(s) = 0
          BY <1>0, <4>1
        <5>1. Cardinality(s) <= n - 1
          BY <3>1, <5>0
        <5>2. h[s] = g[s]
          BY <5>1
        <5>3. g[s] \in V /\ g[s] = base
          BY <3>2, <4>1, <5>1 DEF Tallies
        <5> QED
          BY <4>1, <5>2, <5>3
      <4>2. CASE s # {}
        <5> DEFINE r == s \ {Chosen(s)}
        <5>1. r \in SUBSET S /\ Cardinality(r) <= n - 1
          BY <1>0, <3>1, <3>3, <4>2
        <5>2. h[r] = g[r] /\ g[r] \in V
          BY <3>2, <5>1 DEF Tallies
        <5>3. h[s] = H[s][g[r]]
          <6>1. CASE Cardinality(s) <= n - 1
            <7>1. h[s] = g[s]
              BY <6>1
            <7> QED
              BY <3>2, <4>2, <6>1, <7>1 DEF Tallies
          <6>2. CASE ~(Cardinality(s) <= n - 1)
            BY <6>2
          <6> QED
            BY <6>1, <6>2
        <5> QED
          BY <4>2, <5>2, <5>3
      <4> QED
        BY <4>1, <4>2
    <3> HIDE DEF h
    <3>4. Tallies(h, n, S, V, base, H)
      BY <3>3 DEF Tallies
    <3> QED
      BY <2>4, <3>4
  <2> QED
    BY <2>2, <2>3
<1>2. PICK g : Tallies(g, Cardinality(S), S, V, base, H)
  BY <1>0, <1>1
<1>3. \A s \in SUBSET S : Cardinality(s) <= Cardinality(S)
  BY FS_Subset
<1> DEFINE G == [s \in SUBSET S |-> g[s]]
<1>4. \A s \in SUBSET S : /\ G[s] \in V
                          /\ s = {} => G[s] = base
                          /\ s # {} => G[s] = H[s][G[s \ {Chosen(s)}]]
  BY <1>0, <1>2, <1>3 DEF Tallies
<1>5. DOMAIN G = SUBSET S /\ G = [s \in SUBSET S |-> G[s]]
  OBVIOUS
<1> HIDE DEF G
<1>6. G = [s \in SUBSET S |-> IF s = {} THEN base ELSE H[s][G[s \ {Chosen(s)}]]]
  <2>1. \A s \in SUBSET S : G[s] = IF s = {} THEN base ELSE H[s][G[s \ {Chosen(s)}]]
    BY <1>4
  <2> QED
    BY <1>5, <2>1
<1>7. IsTally(G, S, V, base, H)
  BY <1>4, <1>6 DEF IsTally
<1> QED
  BY <1>7

\* The products of the parts of a product of positive numbers.
PartProducts(f) == CHOOSE g : g =
    [s \in SUBSET DOMAIN f |-> IF s = {} THEN 1 ELSE g[s \ {Chosen(s)}] * f[Chosen(s)]]

\* The fold of the model is the product over the whole domain.
LEMMA PartProductsAreTheFold ==
    ASSUME NEW f
    PROVE  Product(f) = PartProducts(f)[DOMAIN f]
BY DEF Product, FoldFunction, FoldFunctionOnSet, MapThenFoldSet, PartProducts, Chosen

\* The products over the parts of a domain, one element at a time.
LEMMA PartProductsAreDefined ==
    ASSUME NEW D, IsFiniteSet(D), NEW f \in [D -> (Nat \ {0})]
    PROVE  /\ PartProducts(f)[{}] = 1
           /\ PartProducts(f)[D] \in (Nat \ {0})
           /\ \A s \in SUBSET D :
                 /\ PartProducts(f)[s] \in (Nat \ {0})
                 /\ s # {} => /\ Chosen(s) \in s /\ s \ {Chosen(s)} \in SUBSET D
                              /\ PartProducts(f)[s] = PartProducts(f)[s \ {Chosen(s)}] * f[Chosen(s)]
<1> DEFINE H == [s \in SUBSET D |->
                    [v \in (Nat \ {0}) |-> IF s = {} THEN v ELSE v * f[Chosen(s)]]]
<1>1. \A s : s # {} => Chosen(s) \in s
  BY DEF Chosen
<1>2. \A s \in SUBSET D : s # {} => f[Chosen(s)] \in (Nat \ {0})
  BY <1>1
<1>3. \A s \in SUBSET D : \A v \in (Nat \ {0}) : H[s][v] \in (Nat \ {0})
  BY <1>2
<1>4. \A s \in SUBSET D : \A v \in (Nat \ {0}) : s # {} => H[s][v] = v * f[Chosen(s)]
  OBVIOUS
<1>5. 1 \in (Nat \ {0})
  BY SMT
<1> HIDE DEF H
<1>6. PICK g : IsTally(g, D, (Nat \ {0}), 1, H)
  BY <1>3, <1>5, FoldExists
<1> DEFINE G == [s \in SUBSET D |->
                    IF s = {} THEN 1 ELSE g[s \ {Chosen(s)}] * f[Chosen(s)]]
<1>7. g = G
  <2>1. \A s \in SUBSET D : s # {} =>
           H[s][g[s \ {Chosen(s)}]] = g[s \ {Chosen(s)}] * f[Chosen(s)]
    BY <1>4, <1>6 DEF IsTally
  <2>2. g = [s \in SUBSET D |-> IF s = {} THEN 1 ELSE H[s][g[s \ {Chosen(s)}]]]
    BY <1>6 DEF IsTally
  <2>3. [s \in SUBSET D |-> IF s = {} THEN 1 ELSE H[s][g[s \ {Chosen(s)}]]] = G
    BY <2>1
  <2> QED
    BY <2>2, <2>3
<1>8. DOMAIN f = D
  OBVIOUS
<1> DEFINE N == PartProducts(f)
<1>9. N = [s \in SUBSET D |->
              IF s = {} THEN 1 ELSE N[s \ {Chosen(s)}] * f[Chosen(s)]]
  BY <1>7, <1>8, Zenon DEF PartProducts
<1> HIDE DEF N
<1>10. \A s \in SUBSET D :
          N[s] = IF s = {} THEN 1 ELSE N[s \ {Chosen(s)}] * f[Chosen(s)]
  BY <1>9, Zenon
<1> DEFINE P == {s \in SUBSET D : N[s] \in (Nat \ {0})}
<1>11. {} \in P
  BY <1>5, <1>10
<1>12. ASSUME NEW s \in SUBSET D, s # {}, s \ {Chosen(s)} \in P
       PROVE  s \in P
  <2>1. f[Chosen(s)] \in (Nat \ {0}) /\ N[s \ {Chosen(s)}] \in (Nat \ {0})
    BY <1>2, <1>12
  <2>2. N[s] = N[s \ {Chosen(s)}] * f[Chosen(s)]
    BY <1>10, <1>12
  <2>3. N[s] \in (Nat \ {0})
    BY <2>1, <2>2
  <2> QED
    BY <2>3
<1> HIDE DEF P
<1>13. SUBSET D \subseteq P
  BY <1>11, <1>12, ChosenInduction
<1>14. \A s \in SUBSET D : N[s] \in (Nat \ {0})
  BY <1>13 DEF P
<1> QED
  BY <1>1, <1>10, <1>14 DEF N

\* The sums of the parts of a sum of integers.
PartSums(f) == CHOOSE g : g =
    [s \in SUBSET DOMAIN f |-> IF s = {} THEN 0 ELSE f[Chosen(s)] + g[s \ {Chosen(s)}]]

\* The fold of the model is the sum over the whole domain.
LEMMA PartSumsAreTheFold ==
    ASSUME NEW f
    PROVE  SumFunction(f) = PartSums(f)[DOMAIN f]
BY DEF SumFunction, SumFunctionOnSet, FoldFunctionOnSet, MapThenFoldSet, PartSums, Chosen

\* f is a finite family of integers, for the provers to take as a whole.
Terms(f, D) == IsFiniteSet(D) /\ f \in [D -> Int]

\* The sums over the parts of a domain, one element at a time.
LEMMA PartSumsStep ==
    ASSUME NEW D, NEW f, Terms(f, D), NEW e \in SUBSET D
    PROVE  /\ PartSums(f)[e] \in Int
           /\ e = {} => PartSums(f)[e] = 0
           /\ e # {} => PartSums(f)[e] = f[Chosen(e)] + PartSums(f)[e \ {Chosen(e)}]
<1>0. IsFiniteSet(D) /\ f \in [D -> Int]
  BY DEF Terms
<1> DEFINE H == [s \in SUBSET D |->
                    [v \in Int |-> IF s = {} THEN v ELSE f[Chosen(s)] + v]]
<1>1. \A s : s # {} => Chosen(s) \in s
  BY DEF Chosen
<1>2. \A s \in SUBSET D : s # {} => f[Chosen(s)] \in Int
  BY <1>0, <1>1
<1>3. \A s \in SUBSET D : \A v \in Int : H[s][v] \in Int
  BY <1>2
<1>4. \A s \in SUBSET D : \A v \in Int : s # {} => H[s][v] = f[Chosen(s)] + v
  OBVIOUS
<1>5. 0 \in Int
  BY SMT
<1> HIDE DEF H
<1>6. PICK g : IsTally(g, D, Int, 0, H)
  BY <1>0, <1>3, <1>5, FoldExists
<1> DEFINE G == [s \in SUBSET D |->
                    IF s = {} THEN 0 ELSE f[Chosen(s)] + g[s \ {Chosen(s)}]]
<1>7. g = G
  <2>1. \A s \in SUBSET D : s # {} =>
           H[s][g[s \ {Chosen(s)}]] = f[Chosen(s)] + g[s \ {Chosen(s)}]
    BY <1>4, <1>6 DEF IsTally
  <2>2. g = [s \in SUBSET D |-> IF s = {} THEN 0 ELSE H[s][g[s \ {Chosen(s)}]]]
    BY <1>6 DEF IsTally
  <2>3. [s \in SUBSET D |-> IF s = {} THEN 0 ELSE H[s][g[s \ {Chosen(s)}]]] = G
    BY <2>1
  <2> QED
    BY <2>2, <2>3
<1>8. DOMAIN f = D
  BY <1>0
<1> DEFINE N == PartSums(f)
<1>9. N = [s \in SUBSET D |->
              IF s = {} THEN 0 ELSE f[Chosen(s)] + N[s \ {Chosen(s)}]]
  BY <1>7, <1>8, Zenon DEF PartSums
<1> HIDE DEF N
<1>10. \A s \in SUBSET D :
          N[s] = IF s = {} THEN 0 ELSE f[Chosen(s)] + N[s \ {Chosen(s)}]
  BY <1>9, Zenon
<1> DEFINE P == {s \in SUBSET D : N[s] \in Int}
<1>11. {} \in P
  BY <1>5, <1>10
<1>12. ASSUME NEW s \in SUBSET D, s # {}, s \ {Chosen(s)} \in P
       PROVE  s \in P
  <2>1. f[Chosen(s)] \in Int /\ N[s \ {Chosen(s)}] \in Int
    BY <1>2, <1>12
  <2>2. N[s] = f[Chosen(s)] + N[s \ {Chosen(s)}]
    BY <1>10, <1>12
  <2>3. N[s] \in Int
    BY <2>1, <2>2
  <2> QED
    BY <2>3
<1> HIDE DEF P
<1>13. SUBSET D \subseteq P
  BY <1>0, <1>11, <1>12, ChosenInduction
<1>14. \A s \in SUBSET D : N[s] \in Int
  BY <1>13 DEF P
<1> QED
  BY <1>1, <1>10, <1>14 DEF N

-----------------------------------------------------------------------------
\* Sums of integers, in any order

\* What holds of a set whenever it holds of all its parts holds of every finite set.
LEMMA PartsInduction ==
    ASSUME NEW S, IsFiniteSet(S), NEW P,
           \A s \in SUBSET S : (\A t \in SUBSET s : t # s => t \in P) => s \in P
    PROVE  SUBSET S \subseteq P
<1> DEFINE T == (SUBSET S) \ P
<1> SUFFICES ASSUME T # {} PROVE FALSE
  OBVIOUS
<1>1. PICK s \in T : \A t \in T : t \subseteq s => t = s
  <2>1. T \in SUBSET SUBSET S
    OBVIOUS
  <2> HIDE DEF T
  <2> QED
    BY <2>1, LeastSubset
<1>2. s \in SUBSET S /\ s \notin P
  BY <1>1
<1>3. \A t \in SUBSET s : t # s => t \in P
  BY <1>1
<1> QED
  BY <1>2, <1>3

\* How functions compare on a set.
Equal(g, f, S) == \A x \in S : g[x] = f[x]
Along(g, f, h, S) == \A x \in S : g[x] = f[h[x]]
Difference(k, f, g, S) == \A x \in S : k[x] = f[x] - g[x]
Below(f, g, S) == \A x \in S : f[x] <= g[x]

\* The terms of a part of the domain.
LEMMA TermsOfAPart ==
    ASSUME NEW D, NEW f, Terms(f, D), NEW s \in SUBSET D
    PROVE  /\ IsFiniteSet(s) /\ DOMAIN f = D
           /\ \A x \in s : f[x] \in Int
BY FS_Subset DEF Terms

\* Any element of a set may be taken last.
LEMMA AnyIsAdded ==
    ASSUME NEW D, NEW f, Terms(f, D), NEW s \in SUBSET D, NEW x \in s
    PROVE  PartSums(f)[s] = f[x] + PartSums(f)[s \ {x}]
<1> DEFINE g == PartSums(f)
<1>1. ASSUME NEW t \in SUBSET D
      PROVE  g[t] \in Int /\ (t # {} => g[t] = f[Chosen(t)] + g[t \ {Chosen(t)}])
  BY PartSumsStep
<1> HIDE DEF g
<1> DEFINE P == {t \in SUBSET D : \A y \in t : g[t] = f[y] + g[t \ {y}]}
<1>2. ASSUME NEW t \in SUBSET D, \A r \in SUBSET t : r # t => r \in P
      PROVE  t \in P
  <2> SUFFICES ASSUME NEW y \in t, y # Chosen(t)
               PROVE  g[t] = f[y] + g[t \ {y}]
    BY <1>1
  <2> DEFINE c == Chosen(t)
             rest == t \ {c, y}
  <2>1. c \in t /\ g[t] = f[c] + g[t \ {c}]
    BY <1>1, ChosenIsOne
  <2>2. t \ {c} \in P /\ t \ {y} \in P
    BY <1>2, <2>1
  <2>3. y \in t \ {c} /\ (t \ {c}) \ {y} = rest /\ c \in t \ {y} /\ (t \ {y}) \ {c} = rest
    BY <2>1
  <2>4. g[t \ {c}] = f[y] + g[rest]
    BY <2>2, <2>3
  <2>5. g[t \ {y}] = f[c] + g[rest]
    BY <2>2, <2>3
  <2>6. f[c] \in Int /\ f[y] \in Int
    BY <2>1, TermsOfAPart
  <2>7. g[rest] \in Int
    BY <1>1
  <2> QED
    BY <2>1, <2>4, <2>5, <2>6, <2>7
<1> HIDE DEF P
<1>3. IsFiniteSet(D)
  BY DEF Terms
<1>4. SUBSET D \subseteq P
  BY <1>2, <1>3, PartsInduction
<1>5. s \in P
  BY <1>4
<1> QED
  BY <1>5 DEF g, P

\* Functions that agree on a set have the same sum over it.
LEMMA SumsAgree ==
    ASSUME NEW D, NEW f, Terms(f, D), NEW E, NEW g, Terms(g, E),
           NEW S, S \in SUBSET D, S \in SUBSET E, Equal(f, g, S)
    PROVE  PartSums(f)[S] = PartSums(g)[S]
<1> DEFINE P == {s \in SUBSET S : PartSums(f)[s] = PartSums(g)[s]}
<1>1. {} \in P
  <2>1. PartSums(f)[{}] = 0
    BY PartSumsStep
  <2>2. PartSums(g)[{}] = 0
    BY PartSumsStep
  <2> QED
    BY <2>1, <2>2
<1>2. ASSUME NEW s \in SUBSET S, s # {}, s \ {Chosen(s)} \in P
      PROVE  s \in P
  <2> DEFINE c == Chosen(s)
             rest == s \ {c}
  <2>1. c \in s /\ s \in SUBSET D /\ s \in SUBSET E
    BY <1>2, ChosenIsOne
  <2>2. PartSums(f)[rest] = PartSums(g)[rest]
    BY <1>2
  <2> HIDE DEF P, rest, c
  <2>3. PartSums(f)[s] = f[c] + PartSums(f)[s \ {c}]
    BY <2>1, AnyIsAdded
  <2>4. PartSums(g)[s] = g[c] + PartSums(g)[s \ {c}]
    BY <2>1, AnyIsAdded
  <2>5. f[c] = g[c] /\ rest = s \ {c}
    BY <2>1 DEF Equal, rest
  <2> QED
    BY <2>2, <2>3, <2>4, <2>5 DEF P
<1> HIDE DEF P
<1>3. IsFiniteSet(S)
  BY TermsOfAPart
<1>4. SUBSET S \subseteq P
  BY <1>1, <1>2, <1>3, ChosenInduction
<1> QED
  BY <1>4 DEF P

\* What a sum is, however it is taken.
LEMMA SumIsPartSum ==
    ASSUME NEW D, NEW f, Terms(f, D)
    PROVE  SumFunction(f) = PartSums(f)[D]
BY PartSumsAreTheFold DEF Terms

\* A sum is an integer.
LEMMA SumIsDefined ==
    ASSUME NEW D, NEW f, Terms(f, D)
    PROVE  SumFunction(f) \in Int
<1>1. PartSums(f)[D] \in Int
  BY PartSumsStep
<1> QED
  BY <1>1, SumIsPartSum

\* A sum of nothing is zero.
LEMMA SumOfNone ==
    ASSUME NEW f, Terms(f, {})
    PROVE  SumFunction(f) = 0
<1>1. PartSums(f)[{}] = 0
  BY PartSumsStep
<1> QED
  BY <1>1, SumIsPartSum

\* A sum may begin with any element.
LEMMA SumTakesAny ==
    ASSUME NEW D, NEW f, Terms(f, D), NEW x \in D,
           NEW g, Terms(g, D \ {x}), Equal(f, g, D \ {x})
    PROVE  SumFunction(f) = f[x] + SumFunction(g)
<1> DEFINE E == D \ {x}
<1>1. E \in SUBSET D
  OBVIOUS
<1>2. PartSums(f)[D] = f[x] + PartSums(f)[E]
  BY AnyIsAdded
<1>3. Terms(g, E) /\ Equal(f, g, E)
  OBVIOUS
<1> HIDE DEF E
<1>4. PartSums(f)[E] = PartSums(g)[E]
  BY <1>1, <1>3, SumsAgree
<1>5. SumFunction(f) = PartSums(f)[D]
  BY SumIsPartSum
<1>6. SumFunction(g) = PartSums(g)[E]
  BY <1>3, SumIsPartSum
<1> QED
  BY <1>2, <1>4, <1>5, <1>6

\* A sum over two parts is the sum of both sums.
LEMMA SumSplits ==
    ASSUME NEW D, NEW f, Terms(f, D), NEW S, NEW T, D = S \cup T, S \cap T = {},
           NEW g, Terms(g, S), Equal(f, g, S), NEW h, Terms(h, T), Equal(f, h, T)
    PROVE  SumFunction(f) = SumFunction(g) + SumFunction(h)
<1>1. S \in SUBSET D /\ T \in SUBSET D
  OBVIOUS
<1>2. PartSums(f)[S] \in Int
  BY <1>1, PartSumsStep
<1> DEFINE P == {t \in SUBSET T : PartSums(f)[S \cup t] = PartSums(f)[S] + PartSums(f)[t]}
<1>4. {} \in P
  <2>1. PartSums(f)[{}] = 0
    BY PartSumsStep
  <2>2. S \cup {} = S
    OBVIOUS
  <2> QED
    BY <1>2, <2>1, <2>2
<1>5. ASSUME NEW t \in SUBSET T, t # {}, t \ {Chosen(t)} \in P
      PROVE  t \in P
  <2> DEFINE c == Chosen(t)
             rest == t \ {c}
             more == S \cup t
  <2>1. c \in t /\ c \in more /\ more \ {c} = S \cup rest /\ more \in SUBSET D
    BY <1>5, ChosenIsOne
  <2>2. t \in SUBSET D /\ rest \in SUBSET D
    BY <1>1
  <2>3. PartSums(f)[S \cup rest] = PartSums(f)[S] + PartSums(f)[rest]
    BY <1>5
  <2> HIDE DEF P, rest, c, more
  <2>4. PartSums(f)[more] = f[c] + PartSums(f)[more \ {c}]
    BY <2>1, AnyIsAdded
  <2>5. PartSums(f)[t] = f[c] + PartSums(f)[rest]
    BY <2>1, <2>2, AnyIsAdded DEF rest
  <2>6. f[c] \in Int
    BY <2>1, <2>2, TermsOfAPart
  <2>7. PartSums(f)[rest] \in Int
    BY <2>2, PartSumsStep
  <2>8. PartSums(f)[more] = f[c] + PartSums(f)[S \cup rest]
    BY <2>1, <2>4
  <2>9. PartSums(f)[more] = PartSums(f)[S] + PartSums(f)[t]
    BY <1>2, <2>3, <2>5, <2>6, <2>7, <2>8
  <2> QED
    BY <2>9 DEF P, more
<1> HIDE DEF P
<1>6. IsFiniteSet(T)
  BY DEF Terms
<1>7. SUBSET T \subseteq P
  BY <1>4, <1>5, <1>6, ChosenInduction
<1>8. PartSums(f)[D] = PartSums(f)[S] + PartSums(f)[T]
  BY <1>7 DEF P
<1>9. PartSums(f)[S] = PartSums(g)[S]
  BY <1>1, SumsAgree
<1>10. PartSums(f)[T] = PartSums(h)[T]
  BY <1>1, SumsAgree
<1>11. SumFunction(f) = PartSums(f)[D]
  BY SumIsPartSum
<1>12. SumFunction(g) = PartSums(g)[S]
  BY SumIsPartSum
<1>13. SumFunction(h) = PartSums(h)[T]
  BY SumIsPartSum
<1> QED
  BY <1>8, <1>9, <1>10, <1>11, <1>12, <1>13

\* A sum does not depend on what its terms are called.
LEMMA SumReindexed ==
    ASSUME NEW T, NEW f, Terms(f, T), NEW S, NEW g, Terms(g, S),
           NEW h, h \in Bijection(S, T), Along(g, f, h, S)
    PROVE  SumFunction(f) = SumFunction(g)
<1> DEFINE image(s) == {h[x] : x \in s}
<1>1. h \in [S -> T] /\ (\A x, y \in S : h[x] = h[y] => x = y) /\ \A y \in T : \E x \in S : h[x] = y
  BY DEF Bijection, Injection, Surjection, IsInjective
<1>2. image(S) = T /\ image({}) = {}
  BY <1>1
<1> DEFINE P == {s \in SUBSET S : PartSums(g)[s] = PartSums(f)[image(s)]}
<1>4. {} \in P
  <2> HIDE DEF P, image
  <2>1. PartSums(g)[{}] = 0
    BY PartSumsStep
  <2>2. PartSums(f)[{}] = 0
    BY PartSumsStep
  <2> QED
    BY <1>2, <2>1, <2>2 DEF P
<1>5. ASSUME NEW s \in SUBSET S, s # {}, s \ {Chosen(s)} \in P
      PROVE  s \in P
  <2> DEFINE c == Chosen(s)
             rest == s \ {c}
             there == image(s)
  <2>1. c \in s /\ PartSums(g)[rest] = PartSums(f)[image(rest)]
    BY <1>5, ChosenIsOne
  <2>2. there \in SUBSET T /\ h[c] \in there /\ there \ {h[c]} = image(rest)
    BY <1>1, <2>1
  <2> DEFINE d == h[c]
  <2> HIDE DEF P, rest, image, c, there, d
  <2>3. PartSums(f)[there] = f[d] + PartSums(f)[there \ {d}]
    BY <2>2, AnyIsAdded DEF d
  <2>4. PartSums(g)[s] = g[c] + PartSums(g)[rest]
    BY <2>1, AnyIsAdded DEF rest
  <2>5. g[c] = f[d]
    BY <2>1 DEF Along, d
  <2>6. PartSums(g)[s] = PartSums(f)[there]
    BY <2>1, <2>2, <2>3, <2>4, <2>5 DEF d
  <2> QED
    BY <2>6 DEF P, there
<1> HIDE DEF P, image
<1>6. IsFiniteSet(S)
  BY DEF Terms
<1>7. SUBSET S \subseteq P
  BY <1>4, <1>5, <1>6, ChosenInduction
<1>8. PartSums(g)[S] = PartSums(f)[T]
  BY <1>2, <1>7 DEF P
<1>9. SumFunction(f) = PartSums(f)[T]
  BY SumIsPartSum
<1>10. SumFunction(g) = PartSums(g)[S]
  BY SumIsPartSum
<1> QED
  BY <1>8, <1>9, <1>10

\* Sums are subtracted term by term.
LEMMA SumOfDifferences ==
    ASSUME NEW D, NEW f, Terms(f, D), NEW g, Terms(g, D),
           NEW h, Terms(h, D), Difference(h, f, g, D)
    PROVE  SumFunction(h) = SumFunction(f) - SumFunction(g)
<1> DEFINE P == {s \in SUBSET D : PartSums(h)[s] = PartSums(f)[s] - PartSums(g)[s]}
<1>2. {} \in P
  <2> HIDE DEF P
  <2>1. PartSums(f)[{}] = 0
    BY PartSumsStep
  <2>2. PartSums(g)[{}] = 0
    BY PartSumsStep
  <2>3. PartSums(h)[{}] = 0
    BY PartSumsStep
  <2> QED
    BY <2>1, <2>2, <2>3 DEF P
<1>3. ASSUME NEW s \in SUBSET D, s # {}, s \ {Chosen(s)} \in P
      PROVE  s \in P
  <2> DEFINE c == Chosen(s)
             rest == s \ {c}
  <2>1. c \in s /\ PartSums(h)[rest] = PartSums(f)[rest] - PartSums(g)[rest]
    BY <1>3, ChosenIsOne
  <2>2. rest \in SUBSET D
    OBVIOUS
  <2> HIDE DEF P, rest, c
  <2>3. PartSums(f)[s] = f[c] + PartSums(f)[rest]
    BY <2>1, AnyIsAdded DEF rest
  <2>4. PartSums(g)[s] = g[c] + PartSums(g)[rest]
    BY <2>1, AnyIsAdded DEF rest
  <2>5. PartSums(h)[s] = h[c] + PartSums(h)[rest]
    BY <2>1, AnyIsAdded DEF rest
  <2>6. PartSums(f)[rest] \in Int
    BY <2>2, PartSumsStep
  <2>7. PartSums(g)[rest] \in Int
    BY <2>2, PartSumsStep
  <2>8. f[c] \in Int
    BY <2>1, TermsOfAPart
  <2>9. g[c] \in Int
    BY <2>1, TermsOfAPart
  <2>10. h[c] = f[c] - g[c]
    BY <2>1 DEF Difference
  <2>11. PartSums(h)[s] = PartSums(f)[s] - PartSums(g)[s]
    BY <2>1, <2>3, <2>4, <2>5, <2>6, <2>7, <2>8, <2>9, <2>10
  <2> QED
    BY <2>11 DEF P
<1> HIDE DEF P
<1>4. IsFiniteSet(D)
  BY DEF Terms
<1>5. SUBSET D \subseteq P
  BY <1>2, <1>3, <1>4, ChosenInduction
<1>6. PartSums(h)[D] = PartSums(f)[D] - PartSums(g)[D]
  BY <1>5 DEF P
<1>7. SumFunction(f) = PartSums(f)[D]
  BY SumIsPartSum
<1>8. SumFunction(g) = PartSums(g)[D]
  BY SumIsPartSum
<1>9. SumFunction(h) = PartSums(h)[D]
  BY SumIsPartSum
<1> QED
  BY <1>6, <1>7, <1>8, <1>9

\* A sum of opposites is the opposite.
LEMMA SumOfNegatives ==
    ASSUME NEW D, NEW f, Terms(f, D), NEW h, Terms(h, D), \A x \in D : h[x] = -f[x]
    PROVE  SumFunction(h) = -SumFunction(f)
<1> DEFINE z == [x \in D |-> 0]
<1>1. Terms(z, D) /\ Difference(z, f, f, D) /\ Difference(h, z, f, D)
  BY DEF Difference, Terms
<1> HIDE DEF z
<1>2. SumFunction(z) = SumFunction(f) - SumFunction(f)
  BY <1>1, SumOfDifferences
<1>3. SumFunction(h) = SumFunction(z) - SumFunction(f)
  BY <1>1, SumOfDifferences
<1>4. SumFunction(f) \in Int
  BY SumIsDefined
<1> QED
  BY <1>2, <1>3, <1>4

\* Terms that are not negative have a sum that is not, and greater ones a greater.
LEMMA SumIsNatural ==
    ASSUME NEW D, NEW f, Terms(f, D), \A x \in D : f[x] >= 0
    PROVE  SumFunction(f) >= 0
<1> DEFINE P == {s \in SUBSET D : PartSums(f)[s] >= 0}
<1>2. {} \in P
  <2>1. PartSums(f)[{}] = 0
    BY PartSumsStep
  <2> QED
    BY <2>1
<1>3. ASSUME NEW s \in SUBSET D, s # {}, s \ {Chosen(s)} \in P
      PROVE  s \in P
  <2> DEFINE c == Chosen(s)
             rest == s \ {c}
  <2>1. c \in s /\ PartSums(f)[rest] >= 0 /\ rest \in SUBSET D
    BY <1>3, ChosenIsOne
  <2> HIDE DEF P, rest, c
  <2>2. PartSums(f)[s] = f[c] + PartSums(f)[rest]
    BY <2>1, AnyIsAdded DEF rest
  <2>3. f[c] \in Int /\ f[c] >= 0
    BY <2>1, TermsOfAPart
  <2>4. PartSums(f)[rest] \in Int
    BY <2>1, PartSumsStep
  <2>5. PartSums(f)[s] >= 0
    BY <2>1, <2>2, <2>3, <2>4
  <2> QED
    BY <2>5 DEF P
<1> HIDE DEF P
<1>4. IsFiniteSet(D)
  BY DEF Terms
<1>5. SUBSET D \subseteq P
  BY <1>2, <1>3, <1>4, ChosenInduction
<1>6. PartSums(f)[D] >= 0
  BY <1>5 DEF P
<1> QED
  BY <1>6, SumIsPartSum

\* A sum of lesser terms is less.
LEMMA SumIsMonotone ==
    ASSUME NEW D, NEW f, Terms(f, D), NEW g, Terms(g, D), Below(f, g, D)
    PROVE  SumFunction(f) <= SumFunction(g)
<1> DEFINE h == [x \in D |-> g[x] - f[x]]
<1>1. Terms(h, D) /\ Difference(h, g, f, D) /\ \A x \in D : h[x] >= 0
  BY DEF Below, Difference, Terms
<1> HIDE DEF h
<1>2. SumFunction(h) = SumFunction(g) - SumFunction(f)
  BY <1>1, SumOfDifferences
<1>3. SumFunction(h) >= 0
  BY <1>1, SumIsNatural
<1>4. SumFunction(f) \in Int
  BY SumIsDefined
<1>5. SumFunction(g) \in Int
  BY SumIsDefined
<1> QED
  BY <1>2, <1>3, <1>4, <1>5

-----------------------------------------------------------------------------
\* Inclusion and exclusion

\* The members of A that are in B[p] for every p of s, and in none of them.
Cut(A, B, s) == {b \in A : \A p \in s : b \in B[p]}
Outside(A, B, s) == {b \in A : \A p \in s : b \notin B[p]}
Sign(s) == IF Cardinality(s) % 2 = 1 THEN -1 ELSE 1
Alternating(A, B, s) == Sign(s) * Cardinality(Cut(A, B, s))

\* One more element changes the sign of a set.
LEMMA SignChanges ==
    ASSUME NEW s, IsFiniteSet(s), NEW x, x \notin s
    PROVE  Sign(s \cup {x}) = -Sign(s) /\ Sign(s) \in Int
<1>1. Cardinality(s) \in Nat /\ Cardinality(s \cup {x}) = Cardinality(s) + 1
  BY FS_AddElement, FS_CardinalityType
<1>2. \A n \in Nat : ((n + 1) % 2 = 1) <=> (n % 2 # 1)
  OBVIOUS
<1> QED
  BY <1>1, <1>2 DEF Sign

\* What a set of boxes has in common is finite.
LEMMA CutIsFinite ==
    ASSUME NEW A, IsFiniteSet(A), NEW B, NEW s, IsFiniteSet(s)
    PROVE  IsFiniteSet(Cut(A, B, s)) /\ Alternating(A, B, s) \in Int
<1>1. Cut(A, B, s) \subseteq A
  BY DEF Cut
<1>2. IsFiniteSet(Cut(A, B, s)) /\ Cardinality(Cut(A, B, s)) \in Nat
  BY <1>1, FS_Subset, FS_CardinalityType
<1>3. Sign(s) \in Int
  BY DEF Sign
<1> QED
  BY <1>2, <1>3 DEF Alternating

\* The sets that have x are the sets that do not, with x.
With(x, R) == [s \in R |-> s \cup {x}]

\* The subsets of a set are those without x, and those with it.
LEMMA WithOneMore ==
    ASSUME NEW G, IsFiniteSet(G), NEW x \in G, NEW D, D = SUBSET G, NEW f, Terms(f, D),
           NEW R, R = SUBSET (G \ {x}), NEW a, Terms(a, R), Equal(f, a, R),
           NEW b, Terms(b, R), Along(b, f, With(x, R), R)
    PROVE  SumFunction(f) = SumFunction(a) + SumFunction(b)
<1> DEFINE h == With(x, R)
           T == {s \cup {x} : s \in R}
           k == [t \in T |-> f[t]]
<1>2. h \in Bijection(R, T)
  <2>1. h \in [R -> T] /\ \A t \in T : \E s \in R : h[s] = t
    BY DEF With
  <2>2. ASSUME NEW r \in R, NEW s \in R, h[r] = h[s]
        PROVE  r = s
    <3>1. r = h[r] \ {x} /\ s = h[s] \ {x}
      BY DEF With
    <3> QED
      BY <2>2, <3>1
  <2> QED
    BY <2>1, <2>2 DEF Bijection, Injection, Surjection, IsInjective
<1>3. IsFiniteSet(T)
  <2>1. IsFiniteSet(R)
    BY DEF Terms
  <2> HIDE DEF h, T
  <2> QED
    BY <1>2, <2>1, FS_Surjection DEF Bijection
<1>4. D = R \cup T /\ R \cap T = {}
  <2>1. ASSUME NEW s \in SUBSET G, s \notin R
        PROVE  s \in T
    <3>1. x \in s /\ s \ {x} \in R /\ s = (s \ {x}) \cup {x}
      BY <2>1
    <3> QED
      BY <3>1
  <2>2. R \subseteq SUBSET G /\ T \subseteq SUBSET G
    OBVIOUS
  <2>3. R \cap T = {}
    OBVIOUS
  <2> HIDE DEF T
  <2> QED
    BY <2>1, <2>2, <2>3
<1>5. Terms(k, T) /\ Equal(f, k, T)
  <2>1. \A t \in T : f[t] \in Int
    BY <1>4 DEF Terms
  <2> HIDE DEF T
  <2> QED
    BY <1>3, <2>1 DEF Equal, Terms
<1>6. Along(b, k, h, R)
  <2> SUFFICES ASSUME NEW s \in R PROVE b[s] = k[h[s]]
    BY DEF Along
  <2>1. h[s] \in T
    BY DEF With
  <2>2. k[h[s]] = f[h[s]]
    BY <2>1
  <2> QED
    BY <2>2 DEF Along
<1> HIDE DEF T, h, k
<1>8. SumFunction(f) = SumFunction(a) + SumFunction(k)
  BY <1>4, <1>5, SumSplits
<1>9. SumFunction(k) = SumFunction(b)
  BY <1>2, <1>5, <1>6, SumReindexed
<1> QED
  BY <1>8, <1>9

-----------------------------------------------------------------------------
\* Boxes

\* The boxes with a side R[i] along every axis i of D.
Boxes(R, D, V) == {b \in [D -> V] : \A i \in D : b[i] \in R[i]}

\* One more side multiplies the volume of a box.
LEMMA OneMoreSide ==
    ASSUME NEW D, NEW c \in D, NEW V, NEW R, R[c] \in SUBSET V, IsFiniteSet(R[c]),
           IsFiniteSet(Boxes(R, D \ {c}, V))
    PROVE  /\ IsFiniteSet(Boxes(R, D, V))
           /\ Cardinality(Boxes(R, D, V)) = Cardinality(Boxes(R, D \ {c}, V)) * Cardinality(R[c])
<1> DEFINE few == Boxes(R, D \ {c}, V)
           all == Boxes(R, D, V)
           pairs == few \X R[c]
           box(p) == [i \in D |-> IF i = c THEN p[2] ELSE p[1][i]]
           h == [p \in pairs |-> box(p)]
<1>1. ASSUME NEW p \in pairs
      PROVE  h[p] \in all /\ h[p][c] = p[2] /\ \A i \in D \ {c} : h[p][i] = p[1][i]
  BY DEF Boxes
<1>2. h \in [pairs -> all]
  BY <1>1
<1>3. ASSUME NEW p \in pairs, NEW q \in pairs, h[p] = h[q]
      PROVE  p = q
  <2>1. p[2] = q[2] /\ \A i \in D \ {c} : p[1][i] = q[1][i]
    BY <1>1, <1>3
  <2>2. p[1] \in [D \ {c} -> V] /\ q[1] \in [D \ {c} -> V]
    BY DEF Boxes
  <2>3. p[1] = q[1]
    BY <2>1, <2>2
  <2> QED
    BY <2>1, <2>3
<1>4. ASSUME NEW b \in all
      PROVE  \E p \in pairs : h[p] = b
  <2> DEFINE p == <<[i \in D \ {c} |-> b[i]], b[c]>>
  <2>1. b \in [D -> V] /\ \A i \in D : b[i] \in R[i]
    BY DEF Boxes
  <2>2. p \in pairs
    BY <2>1 DEF Boxes
  <2>3. box(p) = b
    BY <2>1
  <2>4. h[p] = box(p)
    BY <2>2
  <2> QED
    BY <2>2, <2>3, <2>4
<1>5. h \in Bijection(pairs, all)
  <2> HIDE DEF h, pairs, all
  <2> QED
    BY <1>2, <1>3, <1>4 DEF Bijection, Injection, Surjection, IsInjective
<1>6. IsFiniteSet(pairs) /\ Cardinality(pairs) = Cardinality(few) * Cardinality(R[c])
  BY FS_Product
<1> HIDE DEF h, pairs, all, few
<1>7. ExistsBijection(pairs, all)
  BY <1>5 DEF ExistsBijection
<1>8. IsFiniteSet(all) /\ Cardinality(all) = Cardinality(pairs)
  BY <1>6, <1>7, FS_Bijection
<1> QED
  BY <1>6, <1>8 DEF all, few

\* There are as many as the product of their sides.
LEMMA BoxesAreCounted ==
    ASSUME NEW D, IsFiniteSet(D), NEW V, NEW R, NEW f \in [D -> (Nat \ {0})],
           \A i \in D : /\ R[i] \in SUBSET V /\ IsFiniteSet(R[i])
                        /\ f[i] = Cardinality(R[i])
    PROVE  IsFiniteSet(Boxes(R, D, V)) /\ Cardinality(Boxes(R, D, V)) = Product(f)
<1> DEFINE g == PartProducts(f)
           P == {e \in SUBSET D : /\ IsFiniteSet(Boxes(R, e, V))
                                  /\ Cardinality(Boxes(R, e, V)) = g[e]}
<1>6. g[{}] = 1
  BY PartProductsAreDefined
<1>0. ASSUME NEW e \in SUBSET D, e # {}
      PROVE  Chosen(e) \in e /\ g[e] = g[e \ {Chosen(e)}] * f[Chosen(e)]
  BY <1>0, PartProductsAreDefined
<1> HIDE DEF g
<1>1. {} \in P
  <2> DEFINE none == [i \in {} |-> i]
             one == Boxes(R, {}, V)
  <2>1. one = {none}
    BY DEF Boxes
  <2> HIDE DEF none, one
  <2>2. IsFiniteSet(one) /\ Cardinality(one) = 1
    BY <2>1, FS_Singleton
  <2> USE DEF one
  <2> QED
    BY <1>6, <2>2
<1>2. ASSUME NEW e \in SUBSET D, e # {}, e \ {Chosen(e)} \in P
      PROVE  e \in P
  <2> DEFINE c == Chosen(e)
             rest == e \ {c}
  <2>1. c \in e /\ g[e] = g[rest] * f[c]
    BY <1>0, <1>2
  <2>2. IsFiniteSet(Boxes(R, rest, V)) /\ Cardinality(Boxes(R, rest, V)) = g[rest]
    BY <1>2
  <2>3. R[c] \in SUBSET V /\ IsFiniteSet(R[c]) /\ f[c] = Cardinality(R[c])
    BY <2>1
  <2>4. /\ IsFiniteSet(Boxes(R, e, V))
        /\ Cardinality(Boxes(R, e, V)) = Cardinality(Boxes(R, rest, V)) * Cardinality(R[c])
    <3> HIDE DEF c
    <3> QED
      BY <2>1, <2>2, <2>3, OneMoreSide
  <2> QED
    BY <2>1, <2>2, <2>3, <2>4
<1> HIDE DEF P
<1>3. SUBSET D \subseteq P
  BY <1>1, <1>2, ChosenInduction
<1>4. D \in P
  BY <1>3
<1>5. Product(f) = g[D]
  BY PartProductsAreTheFold DEF g
<1> QED
  BY <1>4, <1>5 DEF P

\* The terms of inclusion and exclusion over the sets of G.
Sieved(A, B, G) == [s \in SUBSET G |-> Alternating(A, B, s)]

\* The terms of inclusion-exclusion are integers.
LEMMA SievedAreTerms ==
    ASSUME NEW A, IsFiniteSet(A), NEW B, NEW G, IsFiniteSet(G)
    PROVE  Terms(Sieved(A, B, G), SUBSET G)
<1>1. IsFiniteSet(SUBSET G)
  BY FS_SUBSET
<1>2. ASSUME NEW s \in SUBSET G
      PROVE  Alternating(A, B, s) \in Int
  BY CutIsFinite, FS_Subset
<1>3. Sieved(A, B, G) \in [SUBSET G -> Int]
  BY <1>2 DEF Sieved
<1> QED
  BY <1>1, <1>3 DEF Terms

\* Inclusion-exclusion, one more box.
LEMMA OneMoreSieve ==
    ASSUME NEW A, IsFiniteSet(A), NEW B, NEW G, IsFiniteSet(G), NEW x \in G
    PROVE  SumFunction(Sieved(A, B, G)) =
             SumFunction(Sieved(A, B, G \ {x})) - SumFunction(Sieved(A \cap B[x], B, G \ {x}))
<1> DEFINE rest == G \ {x}
           R == SUBSET rest
           I == A \cap B[x]
           f == Sieved(A, B, G)
           a == Sieved(A, B, rest)
           k == Sieved(I, B, rest)
           b == [s \in R |-> Alternating(A, B, s \cup {x})]
<1>1. IsFiniteSet(rest) /\ IsFiniteSet(I)
  BY FS_RemoveElement, FS_Intersection
<1>2. Terms(f, SUBSET G)
  BY SievedAreTerms
<1>3. Terms(a, R)
  BY <1>1, SievedAreTerms
<1>4. Terms(k, R)
  BY <1>1, SievedAreTerms
<1>5. Equal(f, a, R)
  BY DEF Equal, Sieved
<1>6. ASSUME NEW s \in R
      PROVE  b[s] = -k[s]
  <2>1. Cut(A, B, s \cup {x}) = Cut(I, B, s)
    BY DEF Cut
  <2>2. IsFiniteSet(s) /\ x \notin s
    BY <1>1, FS_Subset
  <2>3. Sign(s \cup {x}) = -Sign(s) /\ Sign(s) \in Int
    BY <2>2, SignChanges
  <2>4. Cardinality(Cut(I, B, s)) \in Nat
    <3>1. IsFiniteSet(Cut(I, B, s))
      BY <1>1, <2>2, CutIsFinite
    <3> QED
      BY <3>1, FS_CardinalityType
  <2>5. b[s] = Sign(s \cup {x}) * Cardinality(Cut(I, B, s))
    <3>1. b[s] = Alternating(A, B, s \cup {x})
      OBVIOUS
    <3> HIDE DEF b, I
    <3> QED
      BY <2>1, <3>1 DEF Alternating
  <2>6. k[s] = Sign(s) * Cardinality(Cut(I, B, s))
    BY DEF Sieved, Alternating
  <2> HIDE DEF b, k, R, I
  <2> QED
    BY <2>3, <2>4, <2>5, <2>6
<1>7. Terms(b, R)
  <2>1. ASSUME NEW s \in R
        PROVE  b[s] \in Int
    <3>1. k[s] \in Int
      BY <1>4, TermsOfAPart
    <3> HIDE DEF b, k, R
    <3> QED
      BY <1>6, <3>1
  <2>2. b \in [R -> Int]
    BY <2>1
  <2> QED
    BY <1>4, <2>2 DEF Terms
<1>8. Along(b, f, With(x, R), R)
  BY DEF Along, With, Sieved
<1> DEFINE all == SUBSET G
<1> HIDE DEF f, a, k, b, R, all
<1>9. SumFunction(f) = SumFunction(a) + SumFunction(b)
  BY <1>2, <1>3, <1>5, <1>7, <1>8, WithOneMore DEF R, all
<1>10. SumFunction(b) = -SumFunction(k)
  BY <1>4, <1>6, <1>7, SumOfNegatives
<1>11. SumFunction(a) \in Int
  BY <1>3, SumIsDefined
<1>12. SumFunction(k) \in Int
  BY <1>4, SumIsDefined
<1> QED
  BY <1>9, <1>10, <1>11, <1>12 DEF f, a, k

\* What is left when all the cuts of A are taken away and given back in turn.
LEMMA SieveCounts ==
    ASSUME NEW U, IsFiniteSet(U), NEW B, NEW F, IsFiniteSet(F)
    PROVE  SumFunction(Sieved(U, B, F)) = Cardinality(Outside(U, B, F))
<1> DEFINE P == {G \in SUBSET F : \A A \in SUBSET U :
                    SumFunction(Sieved(A, B, G)) = Cardinality(Outside(A, B, G))}
<1>1. {} \in P
  <2> SUFFICES ASSUME NEW A \in SUBSET U
               PROVE  SumFunction(Sieved(A, B, {})) = Cardinality(Outside(A, B, {}))
    OBVIOUS
  <2> DEFINE f == Sieved(A, B, {})
             one == SUBSET {}
             others == one \ {{}}
             z == [s \in others |-> 0]
  <2>1. IsFiniteSet(A) /\ Cardinality(A) \in Nat
    BY FS_Subset, FS_CardinalityType
  <2>2. {} \in one /\ others = {}
    OBVIOUS
  <2>3. Terms(f, one)
    BY <2>1, FS_EmptySet, SievedAreTerms
  <2>4. Terms(z, others) /\ Equal(f, z, others)
    BY <2>2, FS_EmptySet DEF Terms, Equal
  <2>5. f[{}] = Sign({}) * Cardinality(Cut(A, B, {}))
    BY DEF Sieved, Alternating
  <2>6. Sign({}) = 1
    <3>1. Cardinality({}) = 0
      BY FS_EmptySet
    <3>2. 0 % 2 = 0
      OBVIOUS
    <3> QED
      BY <3>1, <3>2 DEF Sign
  <2>7. Cut(A, B, {}) = A /\ Outside(A, B, {}) = A
    BY DEF Cut, Outside
  <2> DEFINE e == {}
  <2> HIDE DEF f, one, z, e
  <2>8. SumFunction(f) = f[e] + SumFunction(z)
    BY <2>2, <2>3, <2>4, SumTakesAny DEF e
  <2>9. SumFunction(z) = 0
    BY <2>2, <2>4, SumOfNone
  <2> QED
    BY <2>1, <2>5, <2>6, <2>7, <2>8, <2>9 DEF e, f
<1>2. ASSUME NEW G \in SUBSET F, G # {}, G \ {Chosen(G)} \in P
      PROVE  G \in P
  <2> SUFFICES ASSUME NEW A \in SUBSET U
               PROVE  SumFunction(Sieved(A, B, G)) = Cardinality(Outside(A, B, G))
    OBVIOUS
  <2> DEFINE x == Chosen(G)
             rest == G \ {x}
             I == A \cap B[x]
             O == Outside(A, B, rest)
  <2>1. x \in G
    BY <1>2, ChosenIsOne
  <2>2. IsFiniteSet(G) /\ IsFiniteSet(A)
    BY FS_Subset
  <2>3. I \in SUBSET U
    OBVIOUS
  <2>4. SumFunction(Sieved(A, B, rest)) = Cardinality(O)
    BY <1>2
  <2>5. SumFunction(Sieved(I, B, rest)) = Cardinality(Outside(I, B, rest))
    BY <1>2, <2>3
  <2>6. Outside(A, B, G) = O \ B[x]
    BY <2>1 DEF Outside
  <2>7. O \cap B[x] = Outside(I, B, rest)
    BY DEF Outside
  <2>8. IsFiniteSet(O)
    <3>1. O \in SUBSET A
      BY DEF Outside
    <3> QED
      BY <2>2, <3>1, FS_Subset
  <2>9. SumFunction(Sieved(A, B, G)) =
          SumFunction(Sieved(A, B, rest)) - SumFunction(Sieved(I, B, rest))
    <3> HIDE DEF x
    <3> QED
      BY <2>1, <2>2, OneMoreSieve
  <2>10. Cardinality(O \ B[x]) = Cardinality(O) - Cardinality(O \cap B[x])
    <3> HIDE DEF O
    <3> QED
      BY <2>8, FS_Difference
  <2> QED
    BY <2>4, <2>5, <2>6, <2>7, <2>9, <2>10
<1> HIDE DEF P
<1>3. SUBSET F \subseteq P
  BY <1>1, <1>2, ChosenInduction
<1>4. F \in P
  BY <1>3
<1> QED
  BY <1>4 DEF P

\* There are finitely many functions from one finite set to another.
LEMMA DrawsAreFinite ==
    ASSUME NEW D, IsFiniteSet(D), NEW V, IsFiniteSet(V), V # {}
    PROVE  IsFiniteSet([D -> V])
<1> DEFINE R == [i \in D |-> V]
           f == [i \in D |-> Cardinality(V)]
<1>1. Cardinality(V) \in Nat \ {0}
  BY FS_CardinalityType, FS_EmptySet
<1>2. f \in [D -> (Nat \ {0})]
  BY <1>1
<1>3. \A i \in D : R[i] \in SUBSET V /\ IsFiniteSet(R[i]) /\ f[i] = Cardinality(R[i])
  OBVIOUS
<1>4. Boxes(R, D, V) = [D -> V]
  BY DEF Boxes
<1> HIDE DEF R, f
<1>5. IsFiniteSet(Boxes(R, D, V))
  BY <1>2, <1>3, BoxesAreCounted
<1> QED
  BY <1>4, <1>5

-----------------------------------------------------------------------------
\* What points cover

\* The least and the greatest of some numbers.
LEMMA MinIsLeast ==
    ASSUME NEW S \in SUBSET Nat, S # {}
    PROVE  Min(S) \in S /\ \A m \in S : Min(S) <= m
<1>1. \E n \in S : \A m \in S : n <= m
  BY LeastNatural
<1> QED
  BY <1>1 DEF Min

\* The greatest member of a set of numbers.
LEMMA MaxIsGreatest ==
    ASSUME NEW k \in Nat, NEW S \in SUBSET (0 .. k), S # {}
    PROVE  Max(S) \in S /\ \A m \in S : Max(S) >= m
<1> DEFINE T == {k - m : m \in S}
<1>1. T \in SUBSET Nat /\ T # {}
  <2>1. \A m \in S : k - m \in Nat
    OBVIOUS
  <2> QED
    BY <2>1
<1>2. PICK t \in T : \A u \in T : t <= u
  <2> HIDE DEF T
  <2> QED
    BY <1>1, LeastNatural
<1>3. PICK n \in S : t = k - n
  BY <1>2
<1>4. \A m \in S : k - n <= k - m
  BY <1>2, <1>3
<1>5. \A m \in S : n >= m
  BY <1>4
<1> QED
  BY <1>5 DEF Max

\* The unit boxes above the corner, those of them a point covers, and those some
\* point of F covers.
Room(ref, top) == {box \in [DOMAIN ref -> 0 .. top - 1] : \A i \in DOMAIN ref : box[i] >= ref[i]}
Beneath(F, ref, top) ==
    [p \in F |-> {box \in Room(ref, top) : \A i \in DOMAIN ref : p[i] > box[i]}]
CoveredBy(F, ref, top) ==
    {box \in Room(ref, top) : \E p \in F : \A i \in DOMAIN ref : p[i] > box[i]}

\* F is a front above a corner: its points exceed it everywhere.
IsCorner(ref, top) ==
    /\ IsFiniteSet(DOMAIN ref) /\ ref \in [DOMAIN ref -> Nat] /\ top \in Nat
IsFront(F, ref, top) ==
    /\ IsCorner(ref, top) /\ IsFiniteSet(F) /\ F \in SUBSET [DOMAIN ref -> 0 .. top]
    /\ \A p \in F : \A i \in DOMAIN ref : p[i] > ref[i]

\* The unit boxes of the space are finitely many.
LEMMA RoomIsFinite ==
    ASSUME NEW ref, NEW top, IsCorner(ref, top)
    PROVE  IsFiniteSet(Room(ref, top))
<1> DEFINE D == DOMAIN ref
           V == 0 .. top
           R == [i \in D |-> V]
           f == [i \in D |-> top + 1]
<1>1. \A i \in D : R[i] \in SUBSET V /\ IsFiniteSet(R[i]) /\ f[i] = Cardinality(R[i])
  <2>1. IsFiniteSet(V) /\ Cardinality(V) = top + 1
    BY FS_Interval DEF IsCorner
  <2> QED
    BY <2>1
<1>2. IsFiniteSet(D) /\ f \in [D -> (Nat \ {0})]
  BY DEF IsCorner
<1>3. Room(ref, top) \subseteq Boxes(R, D, V)
  BY DEF Room, Boxes, IsCorner
<1> HIDE DEF D, V, R, f
<1>4. IsFiniteSet(Boxes(R, D, V))
  BY <1>1, <1>2, BoxesAreCounted
<1> QED
  BY <1>3, <1>4, FS_Subset

\* The box that some points of a front have in common.
LEMMA CommonBoxIsCut ==
    ASSUME NEW F, NEW ref, NEW top, IsFront(F, ref, top), NEW s \in SUBSET F, s # {}
    PROVE  CommonBox(s, ref) = Cardinality(Cut(Room(ref, top), Beneath(F, ref, top), s))
<1> DEFINE D == DOMAIN ref
           V == 0 .. top - 1
           least(i) == Min({p[i] : p \in s})
           R == [i \in D |-> ref[i] .. least(i) - 1]
           f == [i \in D |-> least(i) - ref[i]]
<1>1. IsFiniteSet(D) /\ (\A i \in D : ref[i] \in Nat) /\ top \in Nat
  BY DEF IsFront, IsCorner
<1>2. ASSUME NEW i \in D
      PROVE  /\ least(i) \in 0 .. top /\ least(i) > ref[i]
             /\ \A n \in Nat : (\A p \in s : p[i] > n) <=> n <= least(i) - 1
  <2>1. \A p \in s : p[i] \in 0 .. top /\ p[i] > ref[i]
    BY DEF IsFront
  <2> DEFINE S == {p[i] : p \in s}
  <2>2. S \in SUBSET Nat /\ S # {}
    BY <2>1
  <2>3. Min(S) \in S /\ \A m \in S : Min(S) <= m
    <3> HIDE DEF S
    <3> QED
      BY <2>2, MinIsLeast
  <2>4. PICK q \in s : Min(S) = q[i]
    BY <2>3
  <2>5. \A p \in s : Min(S) <= p[i]
    BY <2>3
  <2> HIDE DEF S
  <2>6. Min(S) \in 0 .. top /\ Min(S) > ref[i]
    BY <2>1, <2>4
  <2>7. \A n \in Nat : (\A p \in s : p[i] > n) <=> n <= Min(S) - 1
    BY <2>1, <2>4, <2>5, <2>6
  <2> QED
    BY <2>6, <2>7 DEF S
<1> HIDE DEF least
<1>3. ASSUME NEW i \in D
      PROVE  /\ R[i] \in SUBSET V /\ IsFiniteSet(R[i])
             /\ f[i] = Cardinality(R[i]) /\ f[i] \in Nat \ {0}
  <2>1. least(i) \in Nat /\ least(i) <= top /\ least(i) > ref[i] /\ ref[i] \in Nat
    BY <1>1, <1>2
  <2> DEFINE lo == ref[i]
             hi == least(i) - 1
  <2>2. /\ lo \in Int /\ hi \in Int /\ ~(lo > hi)
        /\ hi - lo + 1 = least(i) - ref[i]
    BY <2>1
  <2>3. IsFiniteSet(lo .. hi) /\ Cardinality(lo .. hi) = hi - lo + 1
    <3> HIDE DEF lo, hi
    <3> QED
      BY <2>2, FS_Interval
  <2> QED
    BY <1>1, <2>1, <2>2, <2>3
<1>4. f \in [D -> (Nat \ {0})]
  BY <1>3
<1>5. Cut(Room(ref, top), Beneath(F, ref, top), s) = Boxes(R, D, V)
  <2>1. ASSUME NEW b \in [D -> V]
        PROVE  b \in Cut(Room(ref, top), Beneath(F, ref, top), s) <=> b \in Boxes(R, D, V)
    <3>0. \A i \in D : b[i] \in Nat
      BY <1>1
    <3>1. b \in Cut(Room(ref, top), Beneath(F, ref, top), s) <=>
            (\A i \in D : b[i] >= ref[i]) /\ \A p \in s : \A i \in D : p[i] > b[i]
      BY DEF Cut, Room, Beneath
    <3>2. (\A p \in s : \A i \in D : p[i] > b[i]) <=> \A i \in D : b[i] <= least(i) - 1
      BY <1>2, <3>0
    <3>3. b \in Boxes(R, D, V) <=> \A i \in D : b[i] \in ref[i] .. least(i) - 1
      BY DEF Boxes
    <3>4. \A i \in D : b[i] \in ref[i] .. least(i) - 1 <=> b[i] >= ref[i] /\ b[i] <= least(i) - 1
      BY <1>1, <1>2, <3>0
    <3> HIDE DEF D, R, V
    <3> QED
      BY <3>1, <3>2, <3>3, <3>4
  <2>2. Cut(Room(ref, top), Beneath(F, ref, top), s) \subseteq [D -> V]
    BY DEF Cut, Room
  <2>3. Boxes(R, D, V) \subseteq [D -> V]
    BY DEF Boxes
  <2> HIDE DEF D, R, V
  <2> QED
    BY <2>1, <2>2, <2>3
<1>6. CommonBox(s, ref) = Product(f)
  BY DEF CommonBox, least
<1> HIDE DEF D, R, V, f
<1>7. Cardinality(Boxes(R, D, V)) = Product(f)
  BY <1>1, <1>3, <1>4, BoxesAreCounted
<1> QED
  BY <1>5, <1>6, <1>7

\* What the points of a front cover is counted by inclusion and exclusion.
LEMMA InclusionExclusionIsExact ==
    ASSUME NEW F, NEW ref, NEW top, IsFront(F, ref, top)
    PROVE  InclusionExclusion(F, ref) = Cardinality(CoveredBy(F, ref, top))
<1> DEFINE U == Room(ref, top)
           B == Beneath(F, ref, top)
           all == SUBSET F
           e == {}
           some == all \ {e}
           f == Sieved(U, B, F)
           g == [s \in some |-> f[s]]
           h == [s \in some |->
                    (IF Cardinality(s) % 2 = 1 THEN 1 ELSE -1) * CommonBox(s, ref)]
<1>1. IsFiniteSet(U) /\ IsFiniteSet(F)
  BY RoomIsFinite DEF IsFront
<1>2. Terms(f, all)
  <2> HIDE DEF U, B
  <2> QED
    BY <1>1, SievedAreTerms
<1>3. e \in all
  OBVIOUS
<1>4. Terms(g, some) /\ Equal(f, g, some)
  <2>1. \A s \in all : f[s] \in Int
    <3> HIDE DEF f, all
    <3> QED
      BY <1>2, TermsOfAPart
  <2>2. IsFiniteSet(some)
    <3> HIDE DEF f, all
    <3> QED
      BY <1>2, FS_Difference DEF Terms
  <2> HIDE DEF f, all
  <2> QED
    BY <2>1, <2>2 DEF Terms, Equal
<1>5. ASSUME NEW s \in some
      PROVE  h[s] = -g[s] /\ h[s] \in Int
  <2>1. s \in SUBSET F /\ s # {}
    OBVIOUS
  <2>2. CommonBox(s, ref) = Cardinality(Cut(U, B, s))
    BY <2>1, CommonBoxIsCut
  <2>3. Cardinality(Cut(U, B, s)) \in Nat
    <3>1. IsFiniteSet(s)
      BY <1>1, <2>1, FS_Subset
    <3>2. IsFiniteSet(Cut(U, B, s))
      <4> HIDE DEF U, B
      <4> QED
        BY <1>1, <3>1, CutIsFinite
    <3> QED
      BY <3>2, FS_CardinalityType
  <2>4. g[s] = Sign(s) * Cardinality(Cut(U, B, s))
    BY DEF Sieved, Alternating
  <2>5. h[s] = (IF Cardinality(s) % 2 = 1 THEN 1 ELSE -1) * CommonBox(s, ref)
    OBVIOUS
  <2> DEFINE n == Cardinality(Cut(U, B, s))
  <2> HIDE DEF h, g, some, U, B, n
  <2>6. CASE Cardinality(s) % 2 = 1
    <3>1. g[s] = (-1) * n /\ h[s] = 1 * n
      BY <2>2, <2>4, <2>5, <2>6 DEF Sign, n
    <3> QED
      BY <2>3, <3>1 DEF n
  <2>7. CASE ~(Cardinality(s) % 2 = 1)
    <3>1. g[s] = 1 * n /\ h[s] = (-1) * n
      BY <2>2, <2>4, <2>5, <2>7 DEF Sign, n
    <3> QED
      BY <2>3, <3>1 DEF n
  <2> QED
    BY <2>6, <2>7
<1>6. Terms(h, some)
  <2>1. h \in [some -> Int]
    BY <1>5
  <2> QED
    BY <1>4, <2>1 DEF Terms
<1>7. InclusionExclusion(F, ref) = SumFunction(h)
  BY DEF InclusionExclusion
<1>8. f[e] = Cardinality(U)
  <2>1. Cardinality({}) = 0 /\ 0 % 2 # 1
    BY FS_EmptySet
  <2>2. Sign({}) = 1
    BY <2>1 DEF Sign
  <2>3. f[e] = Sign({}) * Cardinality(Cut(U, B, {}))
    BY DEF Sieved, Alternating
  <2>4. Cut(U, B, {}) = U
    BY DEF Cut
  <2>5. Cardinality(U) \in Nat
    BY <1>1, FS_CardinalityType
  <2> QED
    BY <2>2, <2>3, <2>4, <2>5
<1>9. /\ Cardinality(CoveredBy(F, ref, top)) = Cardinality(U) - Cardinality(Outside(U, B, F))
      /\ Cardinality(Outside(U, B, F)) \in Nat /\ Cardinality(U) \in Nat
  <2> DEFINE O == Outside(U, B, F)
  <2>1. CoveredBy(F, ref, top) = U \ O /\ U \cap O = O
    BY DEF CoveredBy, Outside, Beneath
  <2>2. IsFiniteSet(O)
    <3>1. O \in SUBSET U
      BY DEF Outside
    <3> QED
      BY <1>1, <3>1, FS_Subset
  <2> HIDE DEF U, O
  <2>3. Cardinality(U \ O) = Cardinality(U) - Cardinality(U \cap O)
    BY <1>1, FS_Difference
  <2>4. Cardinality(O) \in Nat
    BY <2>2, FS_CardinalityType
  <2>5. Cardinality(U) \in Nat
    BY <1>1, FS_CardinalityType
  <2> QED
    BY <2>1, <2>3, <2>4, <2>5 DEF O
<1> HIDE DEF U, B, all, some, e, f, g, h
<1>10. SumFunction(f) = Cardinality(Outside(U, B, F))
  BY <1>1, SieveCounts DEF f
<1>11. SumFunction(f) = f[e] + SumFunction(g)
  BY <1>2, <1>3, <1>4, SumTakesAny DEF some
<1>12. SumFunction(h) = -SumFunction(g)
  BY <1>4, <1>5, <1>6, SumOfNegatives
<1>13. SumFunction(g) \in Int
  BY <1>4, SumIsDefined
<1> QED
  BY <1>7, <1>8, <1>9, <1>10, <1>11, <1>12, <1>13

\* Points of a portfolio above a corner.
ArePoints(points, ref, top) ==
    IsCorner(ref, top) /\ IsFiniteSet(points) /\ points \in SUBSET [DOMAIN ref -> 0 .. top]

\* The greater of two numbers.
LEMMA GreaterOfTwo ==
    ASSUME NEW a \in Nat, NEW b \in Nat
    PROVE  /\ Max({a, b}) \in {a, b} /\ Max({a, b}) >= a /\ Max({a, b}) >= b
<1>1. CASE a >= b
  <2>1. a \in {a, b} /\ \A m \in {a, b} : a >= m
    BY <1>1
  <2> QED
    BY <2>1 DEF Max
<1>2. CASE ~(a >= b)
  <2>1. b \in {a, b} /\ \A m \in {a, b} : b >= m
    BY <1>2
  <2> QED
    BY <2>1 DEF Max
<1> QED
  BY <1>1, <1>2

\* Lifting a point to the corner keeps what it exceeds.
LEMMA LiftedPoint ==
    ASSUME NEW points, NEW ref, NEW top, ArePoints(points, ref, top)
    PROVE  /\ \A p \in points : \E l \in Lifted(points, ref) :
                \A i \in DOMAIN ref : l[i] >= p[i]
           /\ \A l \in Lifted(points, ref) : l \in [DOMAIN ref -> Nat]
           /\ \A l \in Lifted(points, ref) :
                (\A i \in DOMAIN ref : l[i] > ref[i]) => l \in points
<1> DEFINE D == DOMAIN ref
           lift(p) == [i \in D |-> Max({p[i], ref[i]})]
<1>1. ASSUME NEW p \in points, NEW i \in D
      PROVE  /\ lift(p)[i] \in Nat /\ lift(p)[i] >= p[i]
             /\ lift(p)[i] > ref[i] => lift(p)[i] = p[i]
  <2>1. p[i] \in Nat /\ ref[i] \in Nat
    BY DEF ArePoints, IsCorner
  <2>2. lift(p)[i] \in {p[i], ref[i]} /\ lift(p)[i] >= p[i] /\ lift(p)[i] >= ref[i]
    BY <2>1, GreaterOfTwo
  <2> HIDE DEF lift
  <2> QED
    BY <2>1, <2>2
<1>2. Lifted(points, ref) = {lift(p) : p \in points}
  BY DEF Lifted
<1>3. ASSUME NEW p \in points, \A i \in D : lift(p)[i] > ref[i]
      PROVE  lift(p) = p
  <2>1. p \in [D -> 0 .. top]
    BY DEF ArePoints
  <2>2. \A i \in D : lift(p)[i] = p[i]
    BY <1>1, <1>3
  <2> QED
    BY <2>1, <2>2
<1>4. \A p \in points : lift(p) \in [D -> Nat]
  BY <1>1
<1> HIDE DEF lift
<1> QED
  BY <1>1, <1>2, <1>3, <1>4

\* Of points that have something, one that none of those dominates.
LEMMA SomeIsUndominated ==
    ASSUME NEW D, NEW L, IsFiniteSet(L), L \in SUBSET [D -> Nat], NEW T \in SUBSET L, T # {}
    PROVE  \E p \in T : \A o \in T : ~Dominates(o, p)
<1> DEFINE Up(p) == {q \in L : \A i \in D : q[i] >= p[i]}
           ups == {Up(p) : p \in T}
<1>1. PICK u \in ups : \A t \in ups : t \subseteq u => t = u
  <2>1. ups \in SUBSET SUBSET L /\ ups # {}
    <3>1. \A p \in T : Up(p) \in SUBSET L
      OBVIOUS
    <3> HIDE DEF Up
    <3> QED
      BY <3>1
  <2> HIDE DEF ups
  <2> QED
    BY <2>1, LeastSubset
<1>2. PICK p \in T : u = Up(p)
  BY <1>1
<1>3. \A q \in L : DOMAIN q = D /\ \A i \in D : q[i] \in Nat
  OBVIOUS
<1>4. ASSUME NEW o \in T, Dominates(o, p)
      PROVE  FALSE
  <2>1. (\A i \in D : o[i] >= p[i]) /\ \E i \in D : o[i] > p[i]
    BY <1>3, <1>4 DEF Dominates
  <2>2. Up(o) \subseteq Up(p)
    BY <1>3, <2>1
  <2>3. Up(o) = Up(p)
    <3> HIDE DEF Up
    <3> QED
      BY <1>1, <1>2, <2>2
  <2>4. p \in Up(p)
    BY <1>3
  <2>5. \A i \in D : p[i] >= o[i]
    BY <2>3, <2>4
  <2> QED
    BY <1>3, <2>1, <2>5
<1> QED
  BY <1>2, <1>4

\* The front covers what the points cover, and none of it dominates another.
LEMMA FrontCovers ==
    ASSUME NEW points, NEW ref, NEW top, ArePoints(points, ref, top)
    PROVE  /\ IsFront(FrontAbove(points, ref), ref, top)
           /\ CoveredBy(FrontAbove(points, ref), ref, top) = CoveredBy(points, ref, top)
           /\ \A p, q \in FrontAbove(points, ref) : ~Dominates(p, q)
<1> DEFINE D == DOMAIN ref
           L == Lifted(points, ref)
           front == FrontAbove(points, ref)
<1>1. front \subseteq points /\ front \subseteq L /\ \A p \in front : \A i \in D : p[i] > ref[i]
  BY LiftedPoint DEF FrontAbove, ParetoFrontier
<1>2. IsFiniteSet(front)
  BY <1>1, FS_Subset DEF ArePoints
<1>3. IsFront(front, ref, top)
  BY <1>1, <1>2 DEF IsFront, ArePoints
<1>4. ASSUME NEW p \in front, NEW q \in front
      PROVE  ~Dominates(p, q)
  BY <1>1 DEF FrontAbove, ParetoFrontier
<1>5. IsFiniteSet(L) /\ L \in SUBSET [D -> Nat]
  <2> DEFINE h == [p \in points |-> [i \in D |-> Max({p[i], ref[i]})]]
  <2>1. h \in Surjection(points, L)
    BY DEF Surjection, Lifted
  <2>2. IsFiniteSet(points)
    BY DEF ArePoints
  <2>3. L \in SUBSET [D -> Nat]
    BY LiftedPoint
  <2> HIDE DEF h, L
  <2> QED
    BY <2>1, <2>2, <2>3, FS_Surjection
<1>6. ASSUME NEW box \in CoveredBy(points, ref, top)
      PROVE  box \in CoveredBy(front, ref, top)
  <2> DEFINE T == {l \in L : \A i \in D : l[i] > box[i]}
  <2>1. /\ box \in Room(ref, top) /\ \A i \in D : box[i] \in Nat /\ box[i] >= ref[i]
        /\ \A i \in D : ref[i] \in Nat
    BY DEF CoveredBy, Room, ArePoints, IsCorner
  <2>2. PICK p \in points : \A i \in D : p[i] > box[i]
    BY DEF CoveredBy
  <2>3. PICK l \in L : \A i \in D : l[i] >= p[i]
    BY LiftedPoint
  <2>4. \A i \in D : p[i] \in Nat
    BY DEF ArePoints
  <2>5. \A i \in D : l[i] > box[i]
    BY <1>5, <2>1, <2>2, <2>3, <2>4
  <2>6. PICK t \in T : \A o \in T : ~Dominates(o, t)
    <3>1. T \in SUBSET L /\ T # {}
      BY <2>5
    <3> HIDE DEF T, L, D
    <3> QED
      BY <1>5, <3>1, SomeIsUndominated
  <2>7. t \in L /\ \A i \in D : t[i] > box[i]
    BY <2>6
  <2>8. ASSUME NEW o \in L, Dominates(o, t)
        PROVE  FALSE
    <3>1. DOMAIN o = D /\ (\A i \in D : o[i] \in Nat) /\ \A i \in D : t[i] \in Nat
      BY <1>5, <2>7
    <3>2. \A i \in D : o[i] >= t[i]
      BY <2>8, <3>1 DEF Dominates
    <3>3. \A i \in D : o[i] > box[i]
      BY <2>1, <2>7, <3>1, <3>2
    <3> QED
      BY <2>6, <2>8, <3>3
  <2>9. \A i \in D : t[i] > ref[i]
    BY <1>5, <2>1, <2>7
  <2>10. t \in front
    BY <2>7, <2>8, <2>9 DEF FrontAbove, ParetoFrontier
  <2> QED
    BY <2>1, <2>7, <2>10 DEF CoveredBy
<1>7. CoveredBy(front, ref, top) \subseteq CoveredBy(points, ref, top)
  BY <1>1 DEF CoveredBy
<1>8. CoveredBy(front, ref, top) = CoveredBy(points, ref, top)
  BY <1>6, <1>7
<1> QED
  BY <1>3, <1>4, <1>8

\* The parts of a set that share nothing are counted one by one.
LEMMA PartsAreCounted ==
    ASSUME NEW U, IsFiniteSet(U), NEW F, NEW f, Terms(f, F), NEW part,
           \A p \in F : part[p] \in SUBSET U /\ f[p] = Cardinality(part[p]),
           \A p, q \in F : p # q => part[p] \cap part[q] = {}
    PROVE  SumFunction(f) = Cardinality({b \in U : \E p \in F : b \in part[p]})
<1> DEFINE union(s) == {b \in U : \E p \in s : b \in part[p]}
           P == {s \in SUBSET F : PartSums(f)[s] = Cardinality(union(s))}
<1>1. {} \in P
  <2>1. PartSums(f)[{}] = 0
    BY PartSumsStep
  <2>2. union({}) = {}
    OBVIOUS
  <2> HIDE DEF union
  <2> QED
    BY <2>1, <2>2, FS_EmptySet
<1>2. ASSUME NEW s \in SUBSET F, s # {}, s \ {Chosen(s)} \in P
      PROVE  s \in P
  <2> DEFINE c == Chosen(s)
             rest == s \ {c}
             A == union(rest)
             C == part[c]
  <2>1. c \in s /\ rest \in SUBSET F /\ PartSums(f)[rest] = Cardinality(A)
    BY <1>2, ChosenIsOne
  <2>2. C \in SUBSET U /\ f[c] = Cardinality(C) /\ union(s) = A \cup C
    BY <2>1
  <2>3. A \cap C = {} /\ A \in SUBSET U
    BY <2>1
  <2> HIDE DEF P, union, c, rest, A, C
  <2>4. PartSums(f)[s] = f[c] + PartSums(f)[rest]
    BY <2>1, AnyIsAdded DEF rest
  <2>5. IsFiniteSet(A) /\ IsFiniteSet(C)
    BY <2>2, <2>3, FS_Subset
  <2>6. Cardinality(A \cup C) = Cardinality(A) + Cardinality(C) - Cardinality({})
    BY <2>3, <2>5, FS_Union
  <2>7. Cardinality(A) \in Nat /\ Cardinality(C) \in Nat /\ Cardinality({}) = 0
    BY <2>5, FS_CardinalityType, FS_EmptySet
  <2>8. PartSums(f)[s] = Cardinality(union(s))
    BY <2>1, <2>2, <2>4, <2>6, <2>7
  <2> QED
    BY <2>8 DEF P
<1> HIDE DEF P
<1>3. IsFiniteSet(F)
  BY DEF Terms
<1>4. SUBSET F \subseteq P
  BY <1>1, <1>2, <1>3, ChosenInduction
<1>5. PartSums(f)[F] = Cardinality(union(F))
  BY <1>4 DEF P
<1> QED
  BY <1>5, SumIsPartSum

\* The boxes of a line.
LEMMA BoxesOfOneSide ==
    ASSUME NEW c, NEW V, NEW R, R[c] \in SUBSET V, IsFiniteSet(R[c])
    PROVE  /\ IsFiniteSet(Boxes(R, {c}, V))
           /\ Cardinality(Boxes(R, {c}, V)) = Cardinality(R[c])
<1> DEFINE none == [i \in {} |-> i]
           one == Boxes(R, {}, V)
           n == Cardinality(R[c])
<1>1. one = {none}
  BY DEF Boxes
<1>2. {c} \ {c} = {} /\ c \in {c}
  OBVIOUS
<1>3. IsFiniteSet(one) /\ Cardinality(one) = 1
  <2> HIDE DEF none, one
  <2> QED
    BY <1>1, FS_Singleton
<1>4. /\ IsFiniteSet(Boxes(R, {c}, V))
      /\ Cardinality(Boxes(R, {c}, V)) = Cardinality(one) * n
  BY <1>2, <1>3, OneMoreSide
<1>5. n \in Nat
  BY FS_CardinalityType
<1> HIDE DEF n
<1> QED
  BY <1>3, <1>4, <1>5 DEF n

\* On a line, the greatest point of a front is all there is to it.
LEMMA LineIsExact ==
    ASSUME NEW F, NEW ref, NEW top, IsFront(F, ref, top), DOMAIN ref = {1}, F # {}
    PROVE  Max({p[1] : p \in F}) - ref[1] = Cardinality(CoveredBy(F, ref, top))
<1> DEFINE S == {p[1] : p \in F}
           V == 0 .. top - 1
           lo == ref[1]
           hi == Max(S) - 1
           R == [i \in {1} |-> lo .. hi]
<1>1. /\ top \in Nat /\ lo \in Nat
      /\ \A p \in F : p[1] \in 0 .. top /\ p[1] > lo
  BY DEF IsFront, IsCorner
<1>2. Max(S) \in S /\ \A m \in S : Max(S) >= m
  <2>1. S \in SUBSET (0 .. top) /\ S # {}
    BY <1>1
  <2> HIDE DEF S
  <2> QED
    BY <1>1, <2>1, MaxIsGreatest
<1>3. PICK q \in F : Max(S) = q[1]
  BY <1>2
<1>4. \A p \in F : q[1] >= p[1]
  BY <1>2, <1>3
<1>5. q[1] \in 0 .. top /\ q[1] > lo /\ hi = q[1] - 1 /\ hi \in Int
  BY <1>1, <1>3
<1> HIDE DEF S
<1>6. IsFiniteSet(lo .. hi) /\ Cardinality(lo .. hi) = Max(S) - lo
  <2>1. lo \in Int /\ ~(lo > hi) /\ hi - lo + 1 = Max(S) - lo
    BY <1>1, <1>3, <1>5
  <2>2. IsFiniteSet(lo .. hi) /\ Cardinality(lo .. hi) = hi - lo + 1
    <3> HIDE DEF lo, hi
    <3> QED
      BY <1>5, <2>1, FS_Interval
  <2> QED
    BY <2>1, <2>2
<1>7. CoveredBy(F, ref, top) = Boxes(R, {1}, V)
  <2>1. ASSUME NEW b \in [{1} -> V]
        PROVE  b \in CoveredBy(F, ref, top) <=> b \in Boxes(R, {1}, V)
    <3>0. b[1] \in Nat
      BY <1>1
    <3>1. b \in CoveredBy(F, ref, top) <=> b[1] >= lo /\ \E p \in F : p[1] > b[1]
      BY DEF CoveredBy, Room
    <3>2. (\E p \in F : p[1] > b[1]) <=> b[1] <= hi
      BY <1>1, <1>4, <1>5, <3>0
    <3>3. b \in Boxes(R, {1}, V) <=> b[1] \in lo .. hi
      BY DEF Boxes
    <3>4. b[1] \in lo .. hi <=> b[1] >= lo /\ b[1] <= hi
      BY <1>1, <1>5, <3>0
    <3> HIDE DEF lo, hi, R, V
    <3> QED
      BY <3>1, <3>2, <3>3, <3>4
  <2>2. CoveredBy(F, ref, top) \subseteq [{1} -> V]
    BY DEF CoveredBy, Room
  <2>3. Boxes(R, {1}, V) \subseteq [{1} -> V]
    BY DEF Boxes
  <2> HIDE DEF R, V
  <2> QED
    BY <2>1, <2>2, <2>3
<1>8. R[1] = lo .. hi /\ lo .. hi \in SUBSET V
  BY <1>1, <1>5
<1> HIDE DEF R, V, lo, hi
<1>9. Cardinality(Boxes(R, {1}, V)) = Cardinality(R[1])
  BY <1>6, <1>8, BoxesOfOneSide
<1> QED
  BY <1>6, <1>7, <1>8, <1>9 DEF lo, S

\* How high the stairs are to the right of a point of a flat front.
LEMMA StepsDown ==
    ASSUME NEW F, NEW ref, NEW top, IsFront(F, ref, top), DOMAIN ref = {1, 2},
           \A o, p \in F : ~Dominates(o, p), NEW p \in F
    PROVE  /\ StepBelow(p, F, ref) \in Nat
           /\ StepBelow(p, F, ref) >= ref[2] /\ StepBelow(p, F, ref) < p[2]
           /\ \A q \in F : q[1] > p[1] => q[2] <= StepBelow(p, F, ref)
           /\ \/ StepBelow(p, F, ref) = ref[2]
              \/ \E q \in F : q[1] > p[1] /\ StepBelow(p, F, ref) = q[2]
<1> DEFINE S == {ref[2]} \cup {q[2] : q \in {q \in F : q[1] > p[1]}}
<1>1. /\ ref[2] \in Nat /\ top \in Nat
      /\ \A q \in F : DOMAIN q = {1, 2} /\ q[1] \in 0 .. top /\ q[2] \in 0 .. top /\ q[2] > ref[2]
  BY DEF IsFront, IsCorner
<1>2. ASSUME NEW q \in F, q[1] > p[1]
      PROVE  q[2] < p[2]
  <2>1. ~Dominates(q, p)
    OBVIOUS
  <2>2. (\A i \in {1, 2} : q[i] >= p[i]) => Dominates(q, p)
    BY <1>1, <1>2 DEF Dominates
  <2>3. ~(q[2] >= p[2])
    BY <1>1, <1>2, <2>1, <2>2
  <2> QED
    BY <1>1, <2>3
<1>3. \A m \in S : m \in 0 .. top /\ m < p[2] /\ (m = ref[2] \/ \E q \in F : q[1] > p[1] /\ m = q[2])
  BY <1>1, <1>2
<1>4. ref[2] \in S /\ \A q \in F : q[1] > p[1] => q[2] \in S
  OBVIOUS
<1>5. StepBelow(p, F, ref) = Max(S)
  BY DEF StepBelow
<1> HIDE DEF S
<1>6. Max(S) \in S /\ \A m \in S : Max(S) >= m
  BY <1>1, <1>3, <1>4, MaxIsGreatest
<1>7. Max(S) \in Nat /\ Max(S) >= ref[2] /\ Max(S) < p[2]
  BY <1>1, <1>3, <1>4, <1>6
<1>8. ASSUME NEW q \in F, q[1] > p[1]
      PROVE  q[2] <= Max(S)
  BY <1>1, <1>4, <1>6, <1>7, <1>8
<1> QED
  BY <1>3, <1>5, <1>6, <1>7, <1>8

\* The step of a point: what it covers above the stairs to its right.
Slab(p, F, ref) ==
    [i \in {1, 2} |-> IF i = 1 THEN ref[1] .. p[1] - 1 ELSE StepBelow(p, F, ref) .. p[2] - 1]

\* The slab a point of a staircase adds has the volume the code gives it.
LEMMA SlabIsCounted ==
    ASSUME NEW F, NEW ref, NEW top, IsFront(F, ref, top), DOMAIN ref = {1, 2},
           \A o, p \in F : ~Dominates(o, p), NEW p \in F
    PROVE  Cardinality(Boxes(Slab(p, F, ref), {1, 2}, 0 .. top - 1)) =
             (p[1] - ref[1]) * (p[2] - StepBelow(p, F, ref))
<1> DEFINE V == 0 .. top - 1
           R == Slab(p, F, ref)
           a == ref[1]
           b == p[1] - 1
           c == StepBelow(p, F, ref)
           d == p[2] - 1
<1>1. /\ a \in Nat /\ top \in Nat /\ p[1] \in 0 .. top /\ p[2] \in 0 .. top /\ p[1] > a
  BY DEF IsFront, IsCorner
<1>2. c \in Nat /\ c < p[2]
  BY StepsDown
<1>3. R[1] = a .. b /\ R[2] = c .. d
  BY DEF Slab
<1>4. /\ a \in Int /\ b \in Int /\ ~(a > b) /\ b - a + 1 = p[1] - a
      /\ d \in Int /\ c \in Int /\ ~(c > d) /\ d - c + 1 = p[2] - c
      /\ a .. b \in SUBSET V /\ c .. d \in SUBSET V
  BY <1>1, <1>2
<1> HIDE DEF R, V, a, b, c, d
<1>5. IsFiniteSet(a .. b) /\ Cardinality(a .. b) = p[1] - a
  BY <1>4, FS_Interval
<1>6. IsFiniteSet(c .. d) /\ Cardinality(c .. d) = p[2] - c
  BY <1>4, FS_Interval
<1>7. IsFiniteSet(Boxes(R, {2}, V)) /\ Cardinality(Boxes(R, {2}, V)) = p[2] - c
  <2>1. R[2] \in SUBSET V /\ IsFiniteSet(R[2]) /\ Cardinality(R[2]) = p[2] - c
    BY <1>3, <1>4, <1>6
  <2>2. /\ IsFiniteSet(Boxes(R, {2}, V))
        /\ Cardinality(Boxes(R, {2}, V)) = Cardinality(R[2])
    BY <2>1, BoxesOfOneSide
  <2> QED
    BY <2>1, <2>2
<1>8. Cardinality(Boxes(R, {1, 2}, V)) = Cardinality(Boxes(R, {2}, V)) * Cardinality(R[1])
  <2> DEFINE axes == {1, 2}
             other == {2}
             x == 1
  <2>1. x \in axes /\ axes \ {x} = other
    OBVIOUS
  <2>2. R[x] \in SUBSET V /\ IsFiniteSet(R[x]) /\ IsFiniteSet(Boxes(R, other, V))
    BY <1>3, <1>4, <1>5, <1>7
  <2>3. Cardinality(Boxes(R, axes, V)) = Cardinality(Boxes(R, axes \ {x}, V)) * Cardinality(R[x])
    <3> HIDE DEF axes, x
    <3> QED
      BY <2>1, <2>2, OneMoreSide
  <2> QED
    BY <2>1, <2>3
<1>9. Cardinality(Boxes(R, {1, 2}, V)) = (p[2] - c) * (p[1] - a)
  BY <1>3, <1>5, <1>7, <1>8
<1>10. p[2] - c \in Int /\ p[1] - a \in Int
  BY <1>1, <1>2 DEF a
<1>11. \A m, n \in Int : m * n = n * m
  OBVIOUS
<1> QED
  BY <1>9, <1>10, <1>11 DEF R, V, a, c

\* A staircase counts each box under it once.
LEMMA StaircaseIsExact ==
    ASSUME NEW F, NEW ref, NEW top, IsFront(F, ref, top), DOMAIN ref = {1, 2},
           \A o, p \in F : ~Dominates(o, p)
    PROVE  Staircase(F, ref) = Cardinality(CoveredBy(F, ref, top))
<1> DEFINE V == 0 .. top - 1
           U == Room(ref, top)
           step(p) == StepBelow(p, F, ref)
           f == [p \in F |-> (p[1] - ref[1]) * (p[2] - step(p))]
           part == [p \in F |-> Boxes(Slab(p, F, ref), {1, 2}, V)]
<1>1. /\ top \in Nat /\ ref[1] \in Nat /\ ref[2] \in Nat /\ IsFiniteSet(F)
      /\ \A p \in F : /\ p \in [{1, 2} -> 0 .. top] /\ p[1] \in 0 .. top /\ p[2] \in 0 .. top
                      /\ p[1] > ref[1] /\ p[2] > ref[2]
  BY DEF IsFront, IsCorner
<1>2. ASSUME NEW p \in F
      PROVE  /\ step(p) \in Nat /\ step(p) >= ref[2] /\ step(p) < p[2]
             /\ \A q \in F : q[1] > p[1] => q[2] <= step(p)
             /\ step(p) = ref[2] \/ \E q \in F : q[1] > p[1] /\ step(p) = q[2]
  BY StepsDown
<1> HIDE DEF step
<1>3. ASSUME NEW p \in F, NEW b \in [{1, 2} -> V]
      PROVE  b \in part[p] <=> /\ b[1] >= ref[1] /\ b[1] < p[1]
                               /\ b[2] >= step(p) /\ b[2] < p[2]
  <2>1. b \in part[p] <=> b[1] \in ref[1] .. p[1] - 1 /\ b[2] \in step(p) .. p[2] - 1
    BY DEF Boxes, Slab, step
  <2>2. b[1] \in Nat /\ b[2] \in Nat
    BY <1>1
  <2>3. b[1] \in ref[1] .. p[1] - 1 <=> b[1] >= ref[1] /\ b[1] < p[1]
    BY <1>1, <2>2
  <2>4. b[2] \in step(p) .. p[2] - 1 <=> b[2] >= step(p) /\ b[2] < p[2]
    BY <1>1, <1>2, <2>2
  <2> HIDE DEF part, V
  <2> QED
    BY <2>1, <2>3, <2>4
<1>4. \A b : b \in U <=> b \in [{1, 2} -> V] /\ b[1] >= ref[1] /\ b[2] >= ref[2]
  BY DEF Room
<1>5. \A p \in F : part[p] \subseteq [{1, 2} -> V]
  BY DEF Boxes
<1>6. \A b \in [{1, 2} -> V] : b[1] \in Nat /\ b[2] \in Nat
  BY <1>1
<1>7. ASSUME NEW p \in F
      PROVE  part[p] \in SUBSET U /\ f[p] = Cardinality(part[p]) /\ f[p] \in Int
  <2>1. f[p] = Cardinality(part[p])
    BY SlabIsCounted DEF step
  <2>2. f[p] \in Int
    BY <1>1, <1>2
  <2>3. ASSUME NEW b \in part[p]
        PROVE  b \in U
    <3>1. b \in [{1, 2} -> V]
      BY <1>5
    <3> HIDE DEF part, U, V
    <3>2. b[1] >= ref[1] /\ b[2] >= step(p) /\ b[2] \in Nat
      BY <1>3, <1>6, <3>1
    <3> QED
      BY <1>1, <1>2, <1>4, <3>1, <3>2
  <2> HIDE DEF part, U, f
  <2> QED
    BY <2>1, <2>2, <2>3
<1>8. ASSUME NEW p \in F, NEW q \in F, p # q
      PROVE  p[1] # q[1]
  <2>1. CASE p[1] = q[1] /\ p[2] >= q[2]
    <3>1. p[2] # q[2]
      BY <1>1, <1>8, <2>1
    <3>2. Dominates(p, q)
      BY <1>1, <2>1, <3>1 DEF Dominates
    <3> QED
      BY <3>2
  <2>2. CASE p[1] = q[1] /\ ~(p[2] >= q[2])
    <3>1. Dominates(q, p)
      BY <1>1, <2>2 DEF Dominates
    <3> QED
      BY <3>1
  <2> QED
    BY <2>1, <2>2
<1>9. ASSUME NEW p \in F, NEW q \in F, p[1] > q[1], NEW b \in part[p], b \in part[q]
      PROVE  FALSE
  <2>1. b \in [{1, 2} -> V]
    BY <1>5
  <2> HIDE DEF part, U, f, V
  <2>2. b[2] < p[2] /\ b[2] >= step(q) /\ b[2] \in Nat
    BY <1>3, <1>6, <2>1, <1>9
  <2>3. p[2] <= step(q)
    BY <1>2, <1>9
  <2> QED
    BY <1>1, <1>2, <2>2, <2>3
<1>10. ASSUME NEW p \in F, NEW q \in F, p # q
       PROVE  part[p] \cap part[q] = {}
  <2>1. p[1] > q[1] \/ q[1] > p[1]
    BY <1>1, <1>8, <1>10
  <2> HIDE DEF part
  <2> QED
    BY <1>9, <2>1
<1>11. ASSUME NEW b \in CoveredBy(F, ref, top)
       PROVE  \E p \in F : b \in part[p]
  <2> DEFINE T == {top - p[1] : p \in {p \in F : p[1] > b[1] /\ p[2] > b[2]}}
  <2>1. /\ b \in U /\ b \in [{1, 2} -> V] /\ b[1] \in Nat /\ b[2] \in Nat
        /\ b[1] >= ref[1] /\ b[2] >= ref[2]
    BY <1>4, <1>6 DEF CoveredBy
  <2>2. \E p \in F : p[1] > b[1] /\ p[2] > b[2]
    BY DEF CoveredBy
  <2>3. T \in SUBSET Nat /\ T # {}
    <3>1. \A p \in F : top - p[1] \in Nat
      BY <1>1
    <3> QED
      BY <2>2, <3>1
  <2>4. PICK t \in T : \A u \in T : t <= u
    <3> HIDE DEF T
    <3> QED
      BY <2>3, LeastNatural
  <2>5. PICK p \in F : p[1] > b[1] /\ p[2] > b[2] /\ t = top - p[1]
    BY <2>4
  <2>6. ASSUME NEW q \in F, q[1] > p[1]
        PROVE  q[2] <= b[2]
    <3>1. CASE q[2] > b[2]
      <4>1. q[1] > b[1]
        BY <1>1, <2>1, <2>5, <2>6
      <4>2. top - p[1] <= top - q[1]
        BY <2>4, <2>5, <3>1, <4>1
      <4> QED
        BY <1>1, <2>6, <4>2
    <3> QED
      BY <1>1, <2>1, <3>1
  <2>7. b[2] >= step(p)
    BY <1>1, <1>2, <2>1, <2>6
  <2> HIDE DEF part, U, V, T
  <2>8. b \in part[p]
    BY <1>1, <1>3, <2>1, <2>5, <2>7
  <2> QED
    BY <2>8
<1>12. ASSUME NEW p \in F, NEW b \in part[p]
       PROVE  b \in CoveredBy(F, ref, top)
  <2>1. b \in U /\ b \in [{1, 2} -> V]
    BY <1>5, <1>7
  <2>2. b[1] < p[1] /\ b[2] < p[2]
    <3> HIDE DEF part, V
    <3> QED
      BY <1>3, <2>1
  <2> QED
    BY <1>1, <1>6, <2>1, <2>2 DEF CoveredBy
<1>13. CoveredBy(F, ref, top) = {b \in U : \E p \in F : b \in part[p]}
  <2>1. CoveredBy(F, ref, top) \subseteq U
    BY DEF CoveredBy
  <2> HIDE DEF part, U
  <2> QED
    BY <1>11, <1>12, <2>1
<1>14. Terms(f, F)
  BY <1>1, <1>7 DEF Terms
<1>15. Staircase(F, ref) = SumFunction(f)
  BY DEF Staircase, step
<1>16. IsFiniteSet(U)
  BY RoomIsFinite DEF IsFront
<1> HIDE DEF f, part, U, V
<1> QED
  BY <1>7, <1>10, <1>13, <1>14, <1>15, <1>16, PartsAreCounted

\* The hypervolume of any portfolio, on a line, by the staircase or by inclusion and
\* exclusion, is the number of boxes above the corner that some point covers.
THEOREM HypervolumeIsExact ==
    ASSUME NEW n \in Nat \ {0}, NEW points, NEW ref, NEW top, ArePoints(points, ref, top),
           DOMAIN ref = 1 .. n
    PROVE  Hypervolume(points, ref) = BoxesCovered(points, ref, top)
<1> DEFINE F == FrontAbove(points, ref)
           covered == CoveredBy(F, ref, top)
<1>1. BoxesCovered(points, ref, top) = Cardinality(covered)
  <2>1. BoxesCovered(points, ref, top) = Cardinality(CoveredBy(points, ref, top))
    <3>1. CoveredBy(points, ref, top) =
            {box \in [DOMAIN ref -> 0 .. top - 1] :
                /\ \A i \in DOMAIN ref : box[i] >= ref[i]
                /\ \E p \in points : \A i \in DOMAIN ref : p[i] > box[i]}
      BY DEF CoveredBy, Room
    <3> QED
      BY <3>1 DEF BoxesCovered
  <2>2. CoveredBy(points, ref, top) = covered
    BY FrontCovers
  <2> QED
    BY <2>1, <2>2
<1>2. IsFront(F, ref, top)
  BY FrontCovers
<1>3. \A p, q \in F : ~Dominates(p, q)
  BY FrontCovers
<1>4. Cardinality(1 .. n) = n
  BY FS_Interval
<1> HIDE DEF F
<1>5. CASE F = {}
  <2>1. covered = {}
    BY <1>5 DEF CoveredBy
  <2> QED
    BY <1>1, <1>5, <2>1, FS_EmptySet DEF Hypervolume, F
<1>6. CASE F # {} /\ n = 1
  <2>1. DOMAIN ref = {1}
    BY <1>6
  <2>2. Hypervolume(points, ref) = Max({p[1] : p \in F}) - ref[1]
    BY <1>4, <1>6 DEF Hypervolume, F
  <2> QED
    BY <1>1, <1>2, <1>6, <2>1, <2>2, LineIsExact
<1>7. CASE F # {} /\ n = 2
  <2>1. DOMAIN ref = {1, 2}
    BY <1>7
  <2>2. Hypervolume(points, ref) = Staircase(F, ref)
    BY <1>4, <1>7 DEF Hypervolume, F
  <2>3. Staircase(F, ref) = Cardinality(covered)
    BY <1>2, <1>3, <2>1, StaircaseIsExact
  <2> QED
    BY <1>1, <2>2, <2>3
<1>8. CASE F # {} /\ n \notin {1, 2}
  <2>1. Hypervolume(points, ref) = InclusionExclusion(F, ref)
    BY <1>4, <1>8 DEF Hypervolume, F
  <2> QED
    BY <1>1, <1>2, <2>1, InclusionExclusionIsExact
<1> QED
  BY <1>5, <1>6, <1>7, <1>8
-----------------------------------------------------------------------------
\* What moves the frontier

\* The hypervolume counts the unit boxes covered.
LEMMA VolumeIsACount ==
    ASSUME NEW n \in Nat \ {0}, NEW points, NEW ref, NEW top, ArePoints(points, ref, top),
           DOMAIN ref = 1 .. n
    PROVE  /\ IsFiniteSet(CoveredBy(points, ref, top))
           /\ Hypervolume(points, ref) = Cardinality(CoveredBy(points, ref, top))
           /\ Hypervolume(points, ref) \in Nat
<1>1. IsFiniteSet(Room(ref, top))
  BY RoomIsFinite DEF ArePoints
<1>2. CoveredBy(points, ref, top) \in SUBSET Room(ref, top)
  BY DEF CoveredBy
<1>3. IsFiniteSet(CoveredBy(points, ref, top))
  BY <1>1, <1>2, FS_Subset
<1>4. Hypervolume(points, ref) = BoxesCovered(points, ref, top)
  BY HypervolumeIsExact
<1>5. CoveredBy(points, ref, top) =
        {box \in [DOMAIN ref -> 0 .. top - 1] :
            /\ \A i \in DOMAIN ref : box[i] >= ref[i]
            /\ \E p \in points : \A i \in DOMAIN ref : p[i] > box[i]}
  BY DEF CoveredBy, Room
<1>6. Hypervolume(points, ref) = Cardinality(CoveredBy(points, ref, top))
  BY <1>4, <1>5 DEF BoxesCovered
<1> QED
  BY <1>3, <1>6, FS_CardinalityType

\* A frontier that covers more has a point that no point of the other is as good as.
LEMMA MoreVolumeIsGained ==
    ASSUME NEW n \in Nat \ {0}, NEW base, NEW cand, NEW ref, NEW top,
           ArePoints(base, ref, top), ArePoints(cand, ref, top), DOMAIN ref = 1 .. n,
           FrontierDelta(base, cand, ref).delta > 0
    PROVE  FrontierDelta(base, cand, ref).gained # {}
<1> DEFINE D == DOMAIN ref
           B == CoveredBy(base, ref, top)
           C == CoveredBy(cand, ref, top)
<1>1. FrontierDelta(base, cand, ref).delta = Hypervolume(cand, ref) - Hypervolume(base, ref)
  BY DEF FrontierDelta
<1>2. /\ IsFiniteSet(B) /\ Hypervolume(base, ref) = Cardinality(B)
      /\ Hypervolume(base, ref) \in Nat
  BY VolumeIsACount
<1>3. /\ IsFiniteSet(C) /\ Hypervolume(cand, ref) = Cardinality(C)
      /\ Hypervolume(cand, ref) \in Nat
  BY VolumeIsACount
<1>4. ~(C \in SUBSET B)
  <2> HIDE DEF B, C
  <2>1. C \in SUBSET B => Cardinality(C) <= Cardinality(B)
    BY <1>2, FS_Subset
  <2> QED
    BY <1>1, <1>2, <1>3, <2>1
<1>5. PICK box \in C : box \notin B
  BY <1>4
<1>6. box \in Room(ref, top) /\ \A i \in D : box[i] \in Int
  BY <1>5 DEF CoveredBy, Room
<1>7. PICK p \in cand : \A i \in D : p[i] > box[i]
  BY <1>5 DEF CoveredBy
<1>8. \A q \in base : \E i \in D : ~(q[i] > box[i])
  BY <1>5, <1>6 DEF CoveredBy
<1>9. /\ base \in SUBSET [D -> Nat] /\ cand \in SUBSET [D -> Nat] /\ IsFiniteSet(cand)
  BY DEF ArePoints, IsCorner
<1> DEFINE T == {q \in cand : \A i \in D : q[i] >= p[i]}
<1>10. p \in T /\ T \in SUBSET cand
  BY <1>7, <1>9
<1> HIDE DEF T, B, C, D
<1>11. PICK q \in T : \A o \in T : ~Dominates(o, q)
  BY <1>9, <1>10, SomeIsUndominated
<1>12. q \in cand /\ \A i \in D : q[i] >= p[i]
  BY <1>11 DEF T
<1>13. \A i \in D : q[i] \in Nat /\ p[i] \in Nat
  BY <1>7, <1>9, <1>12
<1>14. \A i \in D : q[i] > box[i]
  BY <1>6, <1>7, <1>12, <1>13
<1>15. q \in ParetoFrontier(cand)
  <2>1. ASSUME NEW o \in cand, Dominates(o, q)
        PROVE  FALSE
    <3>1. \A i \in D : o[i] \in Nat
      BY <1>9
    <3>2. DOMAIN o = D
      BY <1>9
    <3>3. \A i \in D : o[i] >= q[i]
      BY <2>1, <3>2 DEF Dominates
    <3>4. \A i \in D : o[i] >= p[i]
      BY <1>12, <1>13, <3>1, <3>3
    <3> QED
      BY <1>11, <2>1, <3>4 DEF T
  <2> QED
    BY <1>12, <2>1 DEF ParetoFrontier
<1>16. ~ \E o \in base : o = q \/ Dominates(o, q)
  <2> SUFFICES ASSUME NEW o \in base, o = q \/ Dominates(o, q)
               PROVE  FALSE
    OBVIOUS
  <2>1. DOMAIN o = D /\ \A i \in D : o[i] \in Nat
    BY <1>9
  <2>2. \A i \in D : o[i] >= q[i]
    BY <1>13, <2>1 DEF Dominates
  <2>3. \A i \in D : o[i] > box[i]
    BY <1>6, <1>13, <1>14, <2>1, <2>2
  <2> QED
    BY <1>8, <2>3
<1>17. q \in FrontierDelta(base, cand, ref).gained
  BY <1>15, <1>16 DEF FrontierDelta
<1> QED
  BY <1>17
=============================================================================
