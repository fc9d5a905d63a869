-------------------------------- MODULE MCRules --------------------------------
(***************************************************************************)
(* The pure rules over bounded inputs.  A case is a pull request for the    *)
(* guards, a raw file for the scorer, or a portfolio for the frontier; one  *)
(* step answers it, and the invariants compare the answer with what the     *)
(* rule is for, or with the answers to neighbouring cases.                  *)
(***************************************************************************)
EXTENDS Intake, Calibration, TLC

CONSTANTS
    NotAnswered,
    NewNames,       \* the names a pull request may register a kernel under
    Moves           \* the renames git may report

VARIABLES given, answer

\* The subsets of at most n members.
UpTo(n, set) == {{}} \cup {Range(f) : f \in [1 .. n -> set]}

-----------------------------------------------------------------------------
\* Pull requests

FilePaths == {"build", "governance", "scorer", "config", "old", "late", "new", "other",
              "kernel", "parked", "tolerance"}
PathArea == [q \in FilePaths |->
    CASE q = "build" -> "build"
      [] q = "governance" -> "governance"
      [] q \in {"kernel", "parked"} -> "contributor"
      [] OTHER -> "instrument"]
PathGen == [q \in FilePaths |->
    CASE q \in {"old", "late"} -> "BG-1" [] q = "new" -> "BG-2" [] q = "other" -> "BG-3"
      [] OTHER -> "none"]

Entries(a, b, c) == [g \in Generations |->
    CASE g = "BG-1" -> a [] g = "BG-2" -> b [] g = "BG-3" -> c]

\* Main does not have `config`, a file of the instrument, nor `late`, a file of a
\* generation it has.
OldMain == [q \in FilePaths |->
    IF q \in {"config", "late", "new", "other", "parked"} THEN Gone
    ELSE IF q = "tolerance" THEN Entries(1, 0, 0) ELSE 1]
\* Somebody else's cartography has landed in the meantime.
NewMain == [OldMain EXCEPT !["other"] = 3, !["tolerance"] = Entries(1, 0, 3)]

Heads ==
    {[OldMain EXCEPT !["build"] = b, !["governance"] = v, !["scorer"] = s, !["config"] = c,
                     !["old"] = o, !["late"] = l, !["new"] = n, !["other"] = m, !["tolerance"] = t] :
        b \in {1, 2}, v \in {1, 2}, s \in {1, 2, Gone}, c \in {1, Gone},
        o \in {1, 2, Gone}, l \in {1, Gone}, n \in {1, Gone}, m \in {1, Gone},
        t \in {Entries(1, 0, 0), Entries(1, 2, 0), Entries(1, 0, 2), Entries(1, 2, 2),
               Entries(2, 0, 0), Entries(2, 2, 0), Gone}}

OneOf(op, name, function, args) ==
    [op |-> op, name |-> name, function |-> function, args |-> args]

Registry == {OneOf("attention", "cuda", "attention_cuda", NoArgs),
             OneOf("attention", "tiled64", "attention_tiled", 64),
             OneOf("norm", "cuda", "norm_cuda", NoArgs),
             OneOf("norm", "quick", "norm_quick", NoArgs)}
Text(shape, constants, length) ==
    [shape |-> shape, constants |-> constants, length |-> length]
Definitions == ("attention_cuda" :> Text("A", <<1, 1, 1>>, 50) @@
                "attention_tiled" :> Text("T", <<1, 1, 1>>, 50) @@
                "norm_cuda" :> Text("N", <<1, 1, 1>>, 20) @@
                "norm_quick" :> Text("Q", <<1, 1, 1>>, 50))

NewRegistrations ==
    {OneOf(op, name, f[1], f[2]) :
        op \in Ops, name \in NewNames,
        f \in {<<"attention_cuda", NoArgs>>, <<"attention_tiled", 64>>,
               <<"attention_tiled", 128>>, <<"mine", NoArgs>>, <<"mine", 64>>}}

PullRequest(main, head, moved, regs, mine, named, cleared) ==
    [kind |-> "pull request", base |-> OldMain, main |-> main, head |-> head,
     moved |-> moved, regs |-> Registry \cup regs,
     defs |-> Definitions @@ ("mine" :> mine), named |-> named, cleared |-> cleared]

Plain == {OneOf("attention", "fast", "mine", NoArgs)}
Own == Text("own", <<1, 1, 1>>, 50)

\* A file of the instrument moved under src/.
ScorerMovedOut == {<<"scorer", "parked">>}

\* One implementation name per registration list.
OneName(regs) == \A r, s \in regs : r.op = s.op /\ r.name = s.name => r = s

\* A tree that changes a kernel, beside every tree; one kernel of one's own,
\* beside every registration.
GivenPullRequest ==
    \/ \E main \in {OldMain, NewMain}, head \in Heads :
          given = PullRequest(main, head, {}, Plain, Own, "none", FALSE)
    \/ \E m \in Moves :
          given = PullRequest(OldMain, [OldMain EXCEPT ![m[1]] = Gone, ![m[2]] = 9], {m},
                              Plain, Own, "none", FALSE)
    \/ \E regs \in UpTo(2, NewRegistrations),
          shape \in {"A", "T", "own"}, length \in {30, 50},
          constants \in {<<1, 1, 1>>, <<1, 1, 2>>, <<2, 2, 2>>},
          named \in {"none", "fast"}, cleared \in BOOLEAN :
          /\ OneName(regs)
          /\ given = PullRequest(OldMain, [OldMain EXCEPT !["kernel"] = 2], {}, regs,
                                 Text(shape, constants, length), named, cleared)

-----------------------------------------------------------------------------
\* Raw files

TwoCells == [c \in {"dit", "vae", "deep"} |->
    [weight |-> IF c = "dit" THEN 2 ELSE 1, implemented |-> c # "deep",
     achieved |-> <<1, 4>>, floor |-> <<1, 5>>, anchor |-> <<36, 1>>]]

Records(c, v, roots, memory, drift) ==
    {[cell |-> c, variant |-> v, repeat |-> k, status |-> "OK",
      root |-> roots[k], memory |-> memory, drift |-> drift] : k \in DOMAIN roots}

Quality == {<<1, 0>>, <<2, 0>>, <<0, 1>>, <<NotReported, 0>>}

Matrices ==
    {Records("dit", "base", db, 1, 0) \cup Records("dit", "candidate", dc, q[1], q[2]) \cup
     Records("vae", "base", <<6, 6>>, 1, 0) \cup Records("vae", "candidate", vc, vm, 0) :
        db \in {<<6, 6>>, <<6, 7>>, <<5, 7>>},
        dc \in {<<2, 3>>, <<3, 3>>, <<3, 4>>, <<4, 5>>, <<5, 5>>, <<5, 6>>, <<6, 6>>,
                <<5, 7>>, <<7, 7>>},
        q \in Quality,
        vc \in {<<4, 4>>, <<5, 5>>, <<5, 6>>, <<6, 6>>, <<5, 7>>, <<7, 7>>},
        vm \in {1, 2}}

FewMatrices == {m \in Matrices : \A r \in m : r.memory = 1 /\ r.root # 7}

\* One record lost, failed or doubled; a cell dropped; an undeclared one added.
Damaged(m) ==
    {m \ {r} : r \in m} \cup
    {(m \ {r}) \cup {[r EXCEPT !.status = "TIMEOUT"]} : r \in m} \cup
    {m \cup {[r EXCEPT !.root = 5]} : r \in m} \cup
    {{r \in m : r.cell = c} : c \in {"dit", "vae"}} \cup
    {m \cup Records("deep", v, <<6, 6>>, 1, 0) : v \in Variants}

\* At the held-out shape: a clear gain, one within the floor, and none.
Held(c, b, t) == Records(c, "base", <<b, b>>, 1, 0) \cup Records(c, "candidate", <<t, t>>, 1, 0)
ClearGain == Held("dit", 6, 5) \cup Held("vae", 6, 6)
HeldOut == {{}, ClearGain, Held("dit", 12, 11) \cup Held("vae", 6, 5),
            Held("vae", 6, 6)}

RawFile(records, held, correctness, determinism) ==
    [kind |-> "raw file", records |-> records, held |-> held,
     correctness |-> correctness, determinism |-> determinism]

GivenRawFile ==
    \/ \E m \in Matrices, h \in HeldOut : given = RawFile(m, h, "PASS", "yes")
    \/ \E m \in FewMatrices : \E d \in Damaged(m) : given = RawFile(d, {}, "PASS", "yes")
    \/ \E m \in FewMatrices,
          g \in {<<"BUILD_FAIL", "yes">>, <<"FAIL", "yes">>, <<"PASS", "no">>,
                 <<"PASS", "unknown">>} :
          given = RawFile(m, {}, g[1], g[2])

-----------------------------------------------------------------------------
\* Calibrations: two sessions, the second merged into the first, and a run scored
\* against what they leave; a control that agrees with itself, that wanders, or,
\* in the first session only, a cell that seems to beat its ceiling.

NineAtBest == [c \in {"dit", "vae", "deep"} |-> 9]
Sample(b) == [a |-> <<36, 36>>, b |-> b]
Controls == {Sample(<<36, 36>>), Sample(<<36, 30>>), Sample(<<36, 24>>)}
TooFast == [a |-> <<8, 8>>, b |-> <<8, 8>>]
Sessions == [Implemented -> Controls]

\* The base steady or wandering, within some sessions' floors and beyond others', and
\* the candidate faster or slower.
PlainMatrices == {m \in Matrices : \A r \in m : r.memory = 1 /\ r.drift = 0}

GivenCalibration ==
    \E first, second \in Sessions, m \in PlainMatrices, h \in {{}, ClearGain} :
        given = [kind |-> "calibration", first |-> first, second |-> second,
                 raw |-> RawFile(m, h, "PASS", "yes")]

-----------------------------------------------------------------------------
\* Portfolios

Portfolio(points, reference, top) ==
    [kind |-> "portfolio", points |-> points, reference |-> reference, top |-> top]

GivenPortfolio ==
    \/ \E ps \in UpTo(3, [1 .. 3 -> 0 .. 2]) : given = Portfolio(ps, <<0, 0, 0>>, 2)
    \/ \E ps \in UpTo(4, [1 .. 2 -> 0 .. 3]) : given = Portfolio(ps, <<1, 0>>, 3)
    \/ \E ps \in SUBSET [1 .. 1 -> 0 .. 3] : given = Portfolio(ps, <<1>>, 3)

-----------------------------------------------------------------------------
Init == /\ GivenPullRequest \/ GivenRawFile \/ GivenCalibration \/ GivenPortfolio
        /\ answer = NotAnswered

Answer(kind, value(_)) ==
    /\ given.kind = kind /\ answer = NotAnswered
    /\ answer' = value(given)
    /\ UNCHANGED given

JudgePullRequest == Answer("pull request", Route)
ScoreRawFile     == Answer("raw file", LAMBDA raw : Score(raw, FALSE))
ScoreAnchored    ==
    Answer("calibration", LAMBDA g : ScoreUnder(Merge(Session(g.first), Session(g.second)), g.raw))
MeasureVolume    == Answer("portfolio", LAMBDA p : Hypervolume(p.points, p.reference))

Next == JudgePullRequest \/ ScoreRawFile \/ ScoreAnchored \/ MeasureVolume

Spec == Init /\ [][Next]_<<given, answer>>

Answered(kind) == given.kind = kind /\ answer # NotAnswered

-----------------------------------------------------------------------------
\* Properties: pull requests

\* A pull request the instrument guard lets through can be merged without
\* changing anything that decides a measurement, whatever main has become since
\* it was branched: only generations main does not have gain files or entries
\* (instrument_guard.classify).  Of a guard that crashes, what it would have said.
RulerIsKept ==
    Answered("pull request") =>
        (GuardOutcome(GuardScript(given)) # "BLOCKED" /\ MergesCleanly(given)
            => KeepsTheRuler(given))

\* Whatever the candidate arm runs instead of the baseline is a kernel main does
\* not have: no callable of main's, no renamed copy with the same constants, and
\* a tile width of its own is no copy (reregistration.judge, candidate_impl and
\* the registry's resolve_impl together).
MeasuredIsNewWork ==
    Answered("pull request") /\ answer = "MEASURED" /\ ~given.cleared =>
        LET arm == Arm(CandidateImpl(given), given.regs) \ Arm("cuda", given.regs)
        IN arm # {} /\ \A r \in arm : ~RunsMainsKernel(r, given)

-----------------------------------------------------------------------------
\* Properties: raw files

Without(raw, c) == [raw EXCEPT !.records = {r \in @ : r.cell # c}]
Faster(raw, r) == [raw EXCEPT !.records = (@ \ {r}) \cup {[r EXCEPT !.root = @ - 1]}]
Untouched(raw, c) ==
    [raw EXCEPT !.records =
        {r \in @ : r.cell # c \/ r.variant = "base"} \cup
        {[r EXCEPT !.variant = "candidate"] : r \in Group(@, c, "base")}]

\* The mean gain over the repeats that both arms have is the floor at least.
FasterBy(base, cand, f) ==
    LET both == Shared(base, cand)
    IN Elapsed(cand, both) * (f[2] + f[1]) ^ Cardinality(both)
         <= Elapsed(base, both) * f[2] ^ Cardinality(both)

\* A raw file earns credit only if it is what a contribution is: a correct,
\* reproducible build, every cell run, no failure averaged in, and a cell where
\* every pair is faster, by more than that cell's own floor, at the held-out shape
\* too when that was run, with an operating point the base does not reach; the
\* credit is a positive share of the gap, and at most all of it.
CreditIsEarned ==
    Answered("raw file") /\ answer.credited # Zero =>
        LET rs == given.records
            Mean(c, v) == LET arm == Group(rs, c, v) IN Geomean(arm, Identity(arm))
            Gains(c) ==
                LET f == Cell[c].floor
                IN /\ \A b, t \in {r \in rs : r.cell = c} :
                        b.repeat = t.repeat /\ b.variant # t.variant =>
                            (t.root < b.root <=> t.variant = "candidate")
                   /\ Mean(c, "candidate") * f[2] < Mean(c, "base") * (f[2] - f[1])
                   /\ \A base \in {Group(given.held, c, "base")} \ {{}},
                         cand \in {Group(given.held, c, "candidate")} \ {{}} :
                        FasterBy(base, cand, f)
            Expands(c) == CellFrontier(c, Group(rs, c, "base"),
                                          Group(rs, c, "candidate")).gained # {}
        IN /\ given.correctness = "PASS" /\ given.determinism = "yes"
           /\ {r.cell : r \in rs} = Implemented
           /\ \A r \in rs : r.status = "OK"
           /\ \A c \in Implemented, v \in Variants : Cardinality(Group(rs, c, v)) = Repeats
           /\ \E c \in Implemented : Gains(c)
           /\ \E c \in Implemented : Expands(c)
           /\ Less(Zero, answer.credited) /\ ~Less(<<1, 1>>, answer.credited)

\* Dropping a cell's records never raises the credit, partial matrices being
\* scored on request or not (compute's coverage, decide_status's PARTIAL).
DroppingNeverPays ==
    Answered("raw file") =>
        \A c \in Implemented, partial \in BOOLEAN :
            ~Less(answer.credited, Score(Without(given, c), partial).credited)

\* A candidate that is faster in one repeat, and the same elsewhere, is never
\* credited less, unless it reaches the ceiling, which is refused, or gains in a
\* cell that the held-out shape does not confirm: no cell that starts to resolve,
\* and no interval that widens, costs anything.
FasterNeverPaysLess ==
    Answered("raw file") =>
        \A r \in {r \in given.records : r.variant = "candidate" /\ r.root > 1} :
            LET quicker == Score(Faster(given, r), FALSE)
            IN quicker.status \notin {"REFUSED", "SHAPE_OVERFIT"} =>
                 ~Less(quicker.credited, answer.credited)

\* A cell that did not resolve neither adds to the gap nor decides whether the
\* submission resolved: the same run with that cell untouched says the same
\* (the rule compute() writes into every receipt's interval).
UnresolvedAddsNothing ==
    Answered("raw file") /\ answer # Refused =>
        \A c \in DOMAIN answer.cells : ~answer.cells[c].resolved =>
            LET other == Score(Untouched(given, c), FALSE)
            IN other.gap = answer.gap /\ other.resolved = answer.resolved

\* A uniformly slower card of the pinned class (twice and three times the root, four
\* and nine times the seconds of two repeats), with no calibration of its own, has
\* the same receipt (compute.py's run_ceiling), and no guard but the one on the anchor
\* refuses it for being slow: nothing else sees how fast the card is.
SlowArm(arm, n) == {[r EXCEPT !.root = n * @] : r \in arm}
Slowed(raw, n) == [raw EXCEPT !.records = SlowArm(@, n), !.held = SlowArm(@, n)]
SlowerCardScoresTheSame ==
    Answered("raw file") /\ answer # Refused =>
        \A n \in {2, 3} :
            LET slow == Slowed(given, n) IN
            /\ BuildReceipt(slow) = answer
            /\ \A c \in DOMAIN answer.cells :
                LET base == Group(slow.records, c, "base")
                    cand == Group(slow.records, c, "candidate")
                IN Paired(base, cand) /\ Quiet(c, base) /\ AboveTheCeiling(c, base, cand)

-----------------------------------------------------------------------------
\* Properties: calibrations

Alone(g) == ScoreUnder(Session(g.second), g.raw)
Loses(receipt) ==
    /\ receipt # Refused
    /\ \E c \in DOMAIN receipt.cells : receipt.cells[c].resolved /\ receipt.cells[c].gap[1] < 0
QuietAlone(g) ==
    \A c \in Implemented :
        Under(Loaded(Session(g.second)))!Quiet(c, Group(g.raw.records, c, "base"))

\* The worst floor of the sessions only ever refuses (calibrate.py, --merge): a run
\* is credited at most what the last session alone would have it credited, and
\* nothing where that one refuses it, unless the wider floor hides a loss, an
\* overfitted cell or a base too noisy for the last session (compute.py:171).
WorstFloorOnlyRefuses ==
    Answered("calibration") /\ QuietAlone(given) =>
        \A alone \in {Alone(given)} :
            alone.status # "SHAPE_OVERFIT" /\ ~Loses(alone) =>
                ~Less(alone.credited, answer.credited)

-----------------------------------------------------------------------------
\* Properties: portfolios

\* The hypervolume, by inclusion-exclusion, by the staircase or on a line, is the
\* volume of the union of what the points dominate, with equal points, dominated
\* ones and ones on the reference corner among them.
VolumeIsExact ==
    Answered("portfolio") =>
        answer = BoxesCovered(given.points, given.reference, given.top)

-----------------------------------------------------------------------------
\* What the code's own words say, and its behaviour does not

\* pr_bot._run_guard: "A guard that crashes is the evaluator's fault, so it comes
\* back as ERROR, never as a pass."  A pull request that opens a generation and
\* carries the tolerance it must carry crashes the instrument guard.
CrashedGuardIsNoPass ==
    Answered("pull request") =>
        /\ GuardScript(given).crashed => answer \notin {"MEASURED", "CARTOGRAPHY"}
        /\ answer \in {"MEASURED", "CARTOGRAPHY"} /\ MergesCleanly(given)
             => KeepsTheRuler(given)

\* instrument_guard.py: "Only ADDING entries named after the generations the same
\* pull request opens is allowed".  A branch older than another cartography lacks
\* that one's entry, and is blocked for it.
OnlyChangesAreBlocked ==
    Answered("pull request") /\ answer = "SKIPPED" /\ MergesCleanly(given)
        => ~KeepsTheRuler(given)

\* bench.py: "skip the held-out shapes; the receipt cannot be credited without
\* them".
NoHeldOutNoCredit ==
    Answered("raw file") /\ given.held = {} => answer.credited = Zero

\* compute.py: "Cells that did not resolve contribute zero, are named, and do not
\* block the others."  The frontier counts them.
NoiseDoesNotBlock ==
    Answered("raw file") /\ answer # Refused =>
        \A c \in DOMAIN answer.cells :
            /\ ~answer.cells[c].resolved
            /\ \A r, s \in {r \in given.records : r.cell = c} :
                    r.memory = s.memory /\ r.drift = s.drift
            /\ Score(Untouched(given, c), FALSE).credited # Zero
            => answer.credited # Zero

\* calibrate.py: "Taking the worst can only refuse a real gain that was too small to
\* see".  It also hides a loss, or an overfitted gain, that was too small to see, and
\* it scores a run whose base wandered more than the last session's floor allows.
MergingOnlyRefuses ==
    Answered("calibration") => ~Less(Alone(given).credited, answer.credited)

\* calibrate.py: "keeping the WORST floor per cell".  A session in which the cell
\* beat its ceiling leaves it out, and the floors before it are forgotten.
WorstOfSessions ==
    Answered("calibration") =>
        \A c \in Implemented :
            LET between == [given.second EXCEPT ![c] = TooFast]
                last == Merge(Merge(Session(given.first), Session(between)),
                              Session(given.second))
            IN ~Less(last[c].floor, Session(given.first)[c].floor)

\* floor.py: "The paired ratios of a control against itself should centre on 1.0",
\* and a floor accepts no noise.  Nothing checks the centre: a control that is one
\* arm behind the other by more than it wanders is credited for it.
ControlIsNotCredited ==
    Answered("calibration") =>
        \A c \in Implemented :
            LET s == given.second[c]
                steady == [a |-> s.a, b |-> [k \in DOMAIN s.b |-> Min(Range(s.b))]]
                gap == Gap(<<Ceiling[c] * Measured(steady)[2], Measured(steady)[2]>>,
                           s.a[1], steady.b[1])
            IN ~Less(FloorAsGap(Achieved(c, steady), MeasureFloor(steady)), gap)

\* cartography.py: "every number that ends up frozen into the generation is measured
\* on the evaluator's box".  A cell that beat its ceiling is opened unmeasured, and
\* nothing can be scored in its generation.
OpenedIsMeasured ==
    Answered("calibration") =>
        \A c \in Implemented :
            LET v == CartographyVerdict([given.second EXCEPT ![c] = TooFast]) IN
            v.outcome = "OPENED" => v.measured = Implemented
=============================================================================
