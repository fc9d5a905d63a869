----------------------------- MODULE FrontierRules -----------------------------
(***************************************************************************)
(* The frontier of eval/burnscore/frontier.py: operating points, dominance, *)
(* and the volume a portfolio dominates.  A point is a sequence of natural  *)
(* numbers, one per objective, higher is better: normalize() maps a raw     *)
(* value linearly between two frozen bounds, and a model keeps the numerator*)
(* over a denominator of its own for each objective.                        *)
(***************************************************************************)
EXTENDS Integers, FiniteSets, FiniteSetsExt, Functions

Product(factor) == FoldFunction(LAMBDA k, m : m * k, 1, factor)

\* Objective.normalize: outside its bounds a value is 0 or the whole scale.
Normalize(scaled, top) == IF scaled < 0 THEN 0 ELSE IF scaled > top THEN top ELSE scaled

Dominates(a, b) ==
    /\ \A i \in DOMAIN a : a[i] >= b[i]
    /\ \E i \in DOMAIN a : a[i] > b[i]

ParetoFrontier(points) == {c \in points : ~\E o \in points : Dominates(o, c)}

\* The part of hypervolume() before the volume: points are lifted to the
\* reference corner, and one that does not exceed it everywhere spans nothing.
Lifted(points, reference) ==
    {[i \in DOMAIN reference |-> Max({p[i], reference[i]})] : p \in points}

FrontAbove(points, reference) ==
    {p \in ParetoFrontier(Lifted(points, reference)) :
        \A i \in DOMAIN reference : p[i] > reference[i]}

\* _hv2: a staircase from the right, each step above the last one only.
StepBelow(p, front, reference) ==
    Max({reference[2]} \cup {q[2] : q \in {q \in front : q[1] > p[1]}})

Staircase(front, reference) ==
    SumFunction([p \in front |->
        (p[1] - reference[1]) * (p[2] - StepBelow(p, front, reference))])

\* _hv_incl_excl
CommonBox(subset, reference) ==
    Product([i \in DOMAIN reference |-> Min({p[i] : p \in subset}) - reference[i]])

\* Mutant: the overlaps are added instead of taken away.
AllAdded(front, reference) ==
    SumFunction([s \in (SUBSET front) \ {{}} |-> CommonBox(s, reference)])

InclusionExclusion(front, reference) ==
    SumFunction([s \in (SUBSET front) \ {{}} |->
        (IF Cardinality(s) % 2 = 1 THEN 1 ELSE -1) * CommonBox(s, reference)])

Hypervolume(points, reference) ==
    LET front == FrontAbove(points, reference)
    IN IF front = {} THEN 0
       ELSE CASE Cardinality(DOMAIN reference) = 1 ->
                     Max({p[1] : p \in front}) - reference[1]
              [] Cardinality(DOMAIN reference) = 2 -> Staircase(front, reference)
              [] OTHER -> InclusionExclusion(front, reference)

\* The volume as it is meant: the unit boxes above the corner that some point
\* covers.
BoxesCovered(points, reference, top) ==
    Cardinality({box \in [DOMAIN reference -> 0 .. top - 1] :
        /\ \A i \in DOMAIN reference : box[i] >= reference[i]
        /\ \E p \in points : \A i \in DOMAIN reference : p[i] > box[i]})

\* frontier_delta
FrontierDelta(base, cand, reference) ==
    LET hvb == Hypervolume(base, reference)
        hvc == Hypervolume(cand, reference)
        missed(p, others) == ~\E q \in others : q = p \/ Dominates(q, p)
    IN [base |-> hvb, delta |-> hvc - hvb,
        lost |-> {p \in ParetoFrontier(base) : missed(p, cand)},
        gained |-> {p \in ParetoFrontier(cand) : missed(p, base)}]

\* verdict(): one word for what happened.
FrontierVerdict(gapSign, deltaSign, resolved) ==
    IF ~resolved THEN "UNRESOLVED"
    ELSE IF gapSign > 0 THEN (IF deltaSign > 0 THEN "FRONTIER_EXPANDED"
                                               ELSE "MOVED_ALONG_FRONTIER")
    ELSE IF deltaSign > 0 THEN "EXPANDED_OFF_LATENCY" ELSE "NO_GAIN"
=============================================================================
