-------------------------------- MODULE Scoring --------------------------------
(***************************************************************************)
(* From the raw records of a run to its receipt: compute.py, with the gap   *)
(* of roofline.py, the interval of bootstrap.py, the floor of floor.py, the *)
(* cells of cells.py and the status of receipt.py.                          *)
(*                                                                          *)
(* A record is [cell, variant, repeat, status, root, memory, drift].  Its   *)
(* latency is root^Repeats, so that the geometric mean of Repeats latencies *)
(* is the product of their roots and every quantity below is an exact       *)
(* rational <<numerator, denominator>>.  A scored run has exactly Repeats   *)
(* repeats, as the bench is called with; the held-out shape has as many as  *)
(* were measured there.  A raw file is [records, held, correctness,         *)
(* determinism].                                                            *)
(***************************************************************************)
EXTENDS FrontierRules, Sequences

CONSTANTS
    Cells,          \* the cells the generation declares
    Cell,           \* [Cells -> the frozen definition and the anchor of each]
    Repeats,        \* the generation's `repeats`, which declares 3
    MaxMemory,      \* the device's memory, which normalizes to 0
    MaxDrift        \* the correctness tolerance, which normalizes to 0

\* Of up to three repeats every resample is likelier (at least 1/27) than the 0.5%
\* that the interval leaves out at either end; of four, one in 256 is not.
ASSUME CellsAssumption ==
    /\ Cell \in [Cells -> [weight : Nat \ {0}, implemented : BOOLEAN,
                           achieved : Nat \X Nat, floor : Nat \X Nat, anchor : Nat \X Nat]]
    /\ Repeats \in 2 .. 3
    /\ \A c \in Cells : /\ 0 < Cell[c].anchor[1] /\ 0 < Cell[c].anchor[2]
                        /\ 0 < Cell[c].achieved[1] /\ Cell[c].achieved[1] < Cell[c].achieved[2]
                        /\ 0 < Cell[c].floor[1] /\ Cell[c].floor[1] < Cell[c].floor[2]

ASSUME BoundsAssumption == MaxMemory \in Nat \ {0} /\ MaxDrift \in Nat \ {0}

NotReported == -1
AnchorBand == 25    \* BASE_ANCHOR_BAND_PCT
SpreadFloors == 3   \* BASE_SPREAD_FLOORS

\* Rationals, with a positive denominator
GCD[p \in Nat \X Nat] == IF p[2] = 0 THEN p[1] ELSE GCD[<<p[2], p[1] % p[2]>>]
Size(n) == IF n < 0 THEN -n ELSE n
Reduced(r) == LET g == GCD[<<Size(r[1]), r[2]>>] IN <<r[1] \div g, r[2] \div g>>
Less(a, b) == a[1] * b[2] < b[1] * a[2]
Plus(a, b) == Reduced(<<a[1] * b[2] + b[1] * a[2], a[2] * b[2]>>)
Minus(a) == <<-a[1], a[2]>>
Zero == <<0, 1>>
Least(rs) == CHOOSE r \in rs : \A s \in rs : ~Less(s, r)
Greatest(rs) == CHOOSE r \in rs : \A s \in rs : ~Less(r, s)

\* A sum over cells, each by its weight.
Weighted(value) == [c \in DOMAIN value |-> <<value[c][1] * Cell[c].weight, value[c][2]>>]
Total(value) == FoldFunction(LAMBDA v, sum : Plus(sum, v), Zero, Weighted(value))

-----------------------------------------------------------------------------
\* group(), and what a comparison depends on

Variants == {"base", "candidate"}
Group(records, c, v) == {r \in records : r.cell = c /\ r.variant = v}
RepeatsOf(arm) == {r.repeat : r \in arm}
Seconds(r) == Product([k \in 1 .. Repeats |-> r.root])

\* One record per repeat, none of them a failure.
Sampled(arm) ==
    /\ Cardinality(arm) = Cardinality(RepeatsOf(arm))
    /\ \A r \in arm : r.status = "OK"

Paired(base, cand) ==
    /\ base # {} /\ cand # {}
    /\ RepeatsOf(base) = RepeatsOf(cand)
    /\ Cardinality(RepeatsOf(base)) >= Repeats
    /\ Sampled(base) /\ Sampled(cand)

Root(arm, k) == (CHOOSE r \in arm : r.repeat = k).root

\* The geometric mean over the repeats a draw names.
Geomean(arm, draw) == Product([i \in DOMAIN draw |-> Root(arm, draw[i])])
Identity(arm) == [k \in RepeatsOf(arm) |-> k]
Draws(arm) == [1 .. Repeats -> RepeatsOf(arm)]

-----------------------------------------------------------------------------
\* The score of one cell

\* Mutant: the ceiling in the seconds of the card that was calibrated.
AnchorCeiling(c, baseGeo) ==
    <<Cell[c].achieved[1] * Cell[c].anchor[1], Cell[c].achieved[2] * Cell[c].anchor[2]>>

\* The ceiling on the card that ran: achieved x base time.
RunCeiling(c, baseGeo) == <<Cell[c].achieved[1] * baseGeo, Cell[c].achieved[2]>>

\* gap_closed(): (a_cand - a_base) / (1 - a_base), with a = ceiling / time.
Gap(ceiling, b, t) ==
    LET remaining == ceiling[2] * b - ceiling[1]
    IN IF remaining <= 0 THEN Zero ELSE Reduced(<<ceiling[1] * (b - t), t * remaining>>)

\* paired_bootstrap(): the gaps of the resamples.  Of at most three repeats each
\* is likelier than the tail the interval leaves out, so that its ends are the
\* extremes.
Resampled(c, base, cand) ==
    LET ceiling == RunCeiling(c, Geomean(base, Identity(base)))
    IN {Gap(ceiling, Geomean(base, d), Geomean(cand, d)) : d \in Draws(base)}

\* floor_as_gap_closed()
FloorAsGap(a, f) ==
    IF a[1] * f[2] >= a[2] * (f[2] - f[1]) THEN <<1, 1>>
    ELSE Reduced(<<a[1] * f[1], (f[2] - f[1]) * (a[2] - a[1])>>)
FloorGap(c) == FloorAsGap(Cell[c].achieved, Cell[c].floor)

\* The two guards on the base arm, and the ceiling no candidate reaches.
Quiet(c, base) ==
    LET slow == Max({Seconds(r) : r \in base})
        fast == Min({Seconds(r) : r \in base})
    IN (slow - fast) * Cell[c].floor[2] <= SpreadFloors * Cell[c].floor[1] * fast

NearItsAnchor(c, base) ==
    LET a == Cell[c].anchor
    IN 100 * Size(a[2] * Geomean(base, Identity(base)) - a[1]) <= AnchorBand * a[1]

AboveTheCeiling(c, base, cand) ==
    LET ceiling == RunCeiling(c, Geomean(base, Identity(base)))
    IN ceiling[2] * Geomean(cand, Identity(cand)) > ceiling[1]

Scorable(c, base, cand) ==
    /\ Cell[c].implemented /\ Paired(base, cand)
    /\ Quiet(c, base) /\ NearItsAnchor(c, base) /\ AboveTheCeiling(c, base, cand)

Resolves(c, lower, upper) == Less(FloorGap(c), lower) \/ Less(upper, Minus(FloorGap(c)))

ScoreCell(c, base, cand) ==
    LET b     == Geomean(base, Identity(base))
        gap   == Gap(RunCeiling(c, b), b, Geomean(cand, Identity(cand)))
        lower == Least(Resampled(c, base, cand))
        upper == Greatest(Resampled(c, base, cand))
        resolved == Resolves(c, lower, upper)
    IN [gap |-> gap, lower |-> lower, upper |-> upper, resolved |-> resolved,
        credited |-> IF resolved THEN gap ELSE Zero]

-----------------------------------------------------------------------------
\* The frontier of a cell, in the bracket of the card that ran

\* cell_objectives() and normalize_point(): latency from 1.5 x base to the
\* ceiling, memory and drift against frozen bounds.
Speed(c, baseGeo, r) ==
    LET a == Cell[c].achieved
    IN Normalize(a[2] * (3 * baseGeo - 2 * Seconds(r)), (3 * a[2] - 2 * a[1]) * baseGeo)

Point(c, baseGeo, r) ==
    <<Speed(c, baseGeo, r), Normalize(MaxMemory - r.memory, MaxMemory),
      Normalize(MaxDrift - r.drift, MaxDrift)>>

\* A record that leaves out an objective is no point.
Points(c, baseGeo, arm) ==
    {Point(c, baseGeo, r) : r \in {r \in arm : r.memory # NotReported}}

Corner == <<0, 0, 0>>

CellFrontier(c, base, cand) ==
    LET b == Geomean(base, Identity(base))
    IN FrontierDelta(Points(c, b, base), Points(c, b, cand), Corner)

RelativeDelta(d) == IF d.base > 0 THEN Reduced(<<d.delta, d.base>>) ELSE Zero

\* A cell neither arm has a point for is a harness fault.
HasAPoint(base, cand) == \E r \in base \cup cand : r.memory # NotReported

-----------------------------------------------------------------------------
\* compute()

Implemented == {c \in Cells : Cell[c].implemented}
ScoredCells(records) == {r.cell : r \in records}
\* Mutant: a run of some cells is a run.
AnyCell(records) == records # {}

Complete(records) == Implemented \subseteq ScoredCells(records)

Computable(records, allowPartial) ==
    /\ Complete(records) \/ allowPartial
    /\ records # {}
    /\ \A c \in ScoredCells(records) :
        LET base == Group(records, c, "base")   cand == Group(records, c, "candidate")
        IN Scorable(c, base, cand) /\ HasAPoint(base, cand)

PerCell(records) ==
    [c \in ScoredCells(records) |->
        ScoreCell(c, Group(records, c, "base"), Group(records, c, "candidate"))]

WeightOf(cells) == SumFunction([c \in cells |-> Cell[c].weight])

\* Mutant: the mean is taken over the cells that resolved.
OverResolved(cells) ==
    LET resolved == {c \in DOMAIN cells : cells[c].resolved}
        credited == Total([c \in resolved |-> cells[c].credited])
    IN [gap |-> Reduced(<<credited[1], credited[2] * Max({1, WeightOf(resolved)})>>),
        resolved |-> resolved # {}]

\* Mutant: the intervals of the unresolved cells count as well.
CountsAll(cells) ==
    LET credited == Total([c \in DOMAIN cells |-> cells[c].credited])
        floor    == Total([c \in DOMAIN cells |-> FloorGap(c)])
    IN [gap |-> Reduced(<<credited[1], credited[2] * WeightOf(DOMAIN cells)>>),
        resolved |-> \/ Less(floor, Total([c \in DOMAIN cells |-> cells[c].lower]))
                     \/ Less(Total([c \in DOMAIN cells |-> cells[c].upper]), Minus(floor))]

\* aggregate(), and the two-sided test over the cells that resolved.
Aggregate(cells) ==
    LET resolved == {c \in DOMAIN cells : cells[c].resolved}
        credited == Total([c \in DOMAIN cells |-> cells[c].credited])
        floor    == Total([c \in resolved |-> FloorGap(c)])
    IN [gap |-> Reduced(<<credited[1], credited[2] * WeightOf(DOMAIN cells)>>),
        resolved |-> /\ resolved # {}
                     /\ \/ Less(floor, Total([c \in resolved |-> cells[c].lower]))
                        \/ Less(Total([c \in resolved |-> cells[c].upper]), Minus(floor))]

\* The sign of the weighted mean of the relative changes is that of their sum.
Expansion(records) ==
    Total([c \in ScoredCells(records) |->
        RelativeDelta(CellFrontier(c, Group(records, c, "base"),
                                      Group(records, c, "candidate")))])

\* The held-out shape is measured in as many repeats as the bench takes there, which
\* need not be Repeats: its seconds are multiplied over the repeats both arms have.
SecondsAt(arm, k) == Seconds(CHOOSE r \in arm : r.repeat = k)
Elapsed(arm, repeats) == Product([k \in repeats |-> SecondsAt(arm, k)])
Shared(base, cand) == RepeatsOf(base) \cap RepeatsOf(cand)

\* Mutant: any gain at the held-out shape will do.
StillFaster(held, c) ==
    LET base == Group(held, c, "base")   cand == Group(held, c, "candidate")
        shared == Shared(base, cand)
    IN Elapsed(base, shared) >= Elapsed(cand, shared)

\* At the held-out shape the mean gain must clear the cell's floor as well.
HeldUp(held, c) ==
    LET base == Group(held, c, "base")   cand == Group(held, c, "candidate")
        f == Cell[c].floor
        shared == Shared(base, cand)
        h == Cardinality(shared)
    IN Elapsed(base, shared) * f[2] ^ h >= Elapsed(cand, shared) * (f[2] + f[1]) ^ h

\* _held_out_verdict: only the resolved gains that were measured there.
Survived(cells, held) ==
    \A c \in DOMAIN cells :
        /\ cells[c].resolved /\ cells[c].gap[1] > 0
        /\ Group(held, c, "base") # {} /\ Group(held, c, "candidate") # {}
        => HeldUp(held, c)

-----------------------------------------------------------------------------
\* build_receipt()

DecideStatus(correctness, determinism, survived, complete, resolved, gap, delta) ==
    IF correctness = "BUILD_FAIL" THEN "BUILD_FAIL"
    ELSE IF determinism = "no" THEN "DETERMINISM_FAIL"
    ELSE IF correctness # "PASS" THEN "CORRECTNESS_FAIL"
    ELSE IF ~survived THEN "SHAPE_OVERFIT"
    ELSE IF ~complete THEN "PARTIAL"
    ELSE IF ~resolved THEN "UNRESOLVED"
    ELSE IF gap[1] > 0 THEN (IF delta[1] > 0 THEN "FRONTIER_EXPANDED"
                                             ELSE "MOVED_ALONG_FRONTIER")
    ELSE IF delta[1] > 0 THEN "EXPANDED_OFF_LATENCY" ELSE "NO_GAIN"

CreditingStatuses == {"FRONTIER_EXPANDED"}
Refused == [status |-> "REFUSED", credited |-> Zero]

BuildReceipt(raw) ==
    LET cells == PerCell(raw.records)
        agg   == Aggregate(cells)
        delta == Expansion(raw.records)
        status == DecideStatus(raw.correctness, raw.determinism, Survived(cells, raw.held),
                               Complete(raw.records), agg.resolved, agg.gap, delta)
    IN [status |-> status, gap |-> agg.gap, resolved |-> agg.resolved, delta |-> delta,
        credited |-> IF status \in CreditingStatuses THEN agg.gap ELSE Zero,
        cells |-> cells]

\* burnish score: a raw file that does not say whether the build reproduces
\* itself is refused, and so is one that compute() raises on.
Score(raw, allowPartial) ==
    IF raw.determinism # "unknown" /\ Computable(raw.records, allowPartial)
    THEN BuildReceipt(raw) ELSE Refused
=============================================================================
