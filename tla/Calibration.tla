------------------------------ MODULE Calibration ------------------------------
(***************************************************************************)
(* The anchor of a generation (eval/calibrate.py, floor.py, cells.load):    *)
(* what fraction of its ceiling each cell reaches and how far the base      *)
(* wanders from itself, measured in a session of paired repeats, merged     *)
(* with earlier sessions, and read by every scoring.  A sample is a         *)
(* function from the cells a session measures to the latencies of its two   *)
(* arms, both of them the base; an anchor is a function from cells to what  *)
(* was measured of them.                                                    *)
(***************************************************************************)
EXTENDS Scoring

CONSTANTS
    Ceiling,        \* [Cells -> the least latency on the card that is anchored on]
    TimerDigits     \* --timer-digits

ASSUME CalibrationAssumption ==
    Ceiling \in [Cells -> Nat \ {0}] /\ TimerDigits \in Nat \ {0}

ResolutionRatio == 20

\* The value at place k of a sequence of rationals in order, and the median.
AtPlace(values, k) ==
    CHOOSE v \in Range(values) :
        /\ Cardinality({i \in DOMAIN values : Less(values[i], v)}) < k
        /\ k <= Cardinality({i \in DOMAIN values : ~Less(v, values[i])})
Median(values) ==
    LET low == AtPlace(values, (Len(values) + 1) \div 2)
        high == AtPlace(values, Len(values) \div 2 + 1)
        sum == Plus(low, high)
    IN Reduced(<<sum[1], 2 * sum[2]>>)

\* measure_floor(): the larger of the spread of the paired ratios and of what the
\* printed digits can tell apart.
Ratios(sample) == [k \in DOMAIN sample.a |-> Reduced(<<sample.a[k], sample.b[k]>>)]
Resolution == <<1, 2 * 10 ^ (TimerDigits - 1)>>
MeasureFloor(sample) ==
    LET ratios == Range(Ratios(sample))
        wander == Plus(Greatest(ratios), Minus(Least(ratios)))
        middle == Median(Ratios(sample))
        spread == Reduced(<<wander[1] * middle[2], wander[2] * middle[1]>>)
    IN IF Less(spread, Resolution) THEN Resolution ELSE spread

Measured(sample) == Median([k \in DOMAIN (sample.a \o sample.b) |->
                              <<(sample.a \o sample.b)[k], 1>>])
Achieved(c, sample) ==
    LET m == Measured(sample) IN Reduced(<<Ceiling[c] * m[2], m[1]>>)

\* resolution_gate(): it raises on an achieved fraction of exactly 1 and on a floor
\* of the whole measurement, and the session with it.
Gateable(achieved, floor) == Less(achieved, <<1, 1>>) /\ Less(floor, <<1, 1>>)
Resolvable(achieved, floor) ==
    LET g == FloorAsGap(achieved, floor) IN g[2] >= ResolutionRatio * g[1]

\* A cell that beats its ceiling is left out.
Kept(samples) == {c \in DOMAIN samples : ~Less(<<1, 1>>, Achieved(c, samples[c]))}
Raises(samples) ==
    \E c \in Kept(samples) :
        ~Gateable(Achieved(c, samples[c]), MeasureFloor(samples[c]))
Session(samples) ==
    [c \in Kept(samples) |->
        [achieved |-> Achieved(c, samples[c]), measured |-> Measured(samples[c]),
         floor |-> MeasureFloor(samples[c])]]

\* Mutant: --merge keeps the best floor.
MergeBest(prev, now) ==
    [c \in DOMAIN now |->
        IF c \in DOMAIN prev /\ Less(prev[c].floor, now[c].floor)
        THEN [now[c] EXCEPT !.floor = prev[c].floor] ELSE now[c]]

\* --merge FILE: the worst floor of the sessions, for the cells of this one.
Merge(prev, now) ==
    [c \in DOMAIN now |->
        IF c \in DOMAIN prev /\ Less(now[c].floor, prev[c].floor)
        THEN [now[c] EXCEPT !.floor = prev[c].floor] ELSE now[c]]

-----------------------------------------------------------------------------
\* cells.load(): the generation's cells with an anchor's numbers.
Loaded(anchor) ==
    [c \in Cells |->
        IF c \in DOMAIN anchor
        THEN [Cell[c] EXCEPT !.achieved = anchor[c].achieved, !.floor = anchor[c].floor,
                             !.anchor = anchor[c].measured]
        ELSE Cell[c]]

Under(cells) == INSTANCE Scoring WITH Cell <- cells

\* compute() refuses a generation with an implemented cell nobody calibrated.
ScoreUnder(anchor, raw) ==
    IF Implemented \subseteq DOMAIN anchor THEN Under(Loaded(anchor))!Score(raw, FALSE)
                                           ELSE Refused

\* cartography.measure() and verdict_for(), of a generation that passed its checks
\* and its gate: whatever was calibrated is opened, resolvable or not.
CartographyVerdict(samples) ==
    IF Raises(samples) THEN [outcome |-> "REJECTED", measured |-> {}, unresolvable |-> {}]
    ELSE LET anchor == Session(samples) IN
         [outcome |-> "OPENED", measured |-> DOMAIN anchor,
          unresolvable |-> {c \in DOMAIN anchor :
                                ~Resolvable(anchor[c].achieved, anchor[c].floor)}]

=============================================================================
