------------------------------ MODULE RulesProofs ------------------------------
(***************************************************************************)
(* What is proved of the rules without state, for every pull request and    *)
(* every raw file: any trees, any main, any registrations and kernel texts, *)
(* any records and any cells.  The arithmetic they rest on is in            *)
(* ScoringProofs.                                                           *)
(***************************************************************************)
EXTENDS MCRules, ScoringProofs

-----------------------------------------------------------------------------
\* The instrument guard

\* A tolerance file has an entry for each generation, zero where it says nothing.
TolerancesOf == [Generations -> Nat]

\* git reports no rename of a file that decides a measurement: the guard would see
\* its new name only (MCRules_guards).
RulerStays(p) == \A m \in p.moved : m[1] \notin Ruler

Tolerances(p) ==
    /\ p.base[Tolerance] \in TolerancesOf \cup {Gone}
    /\ p.main[Tolerance] \in TolerancesOf
    /\ p.head[Tolerance] \in TolerancesOf \cup {Gone}

Opened(p) ==
    {GenOf[q] : q \in Cartography(Changed(p), ExistingGenerations(p.main))}

\* What the guard lets through although it is on its list.
Excused(p) ==
    /\ Tolerance \in Blocked(Changed(p), ExistingGenerations(p.main))
    /\ CarriesItsTolerance(p, Blocked(Changed(p), ExistingGenerations(p.main)), Opened(p))

\* A file of the ruler that the pull request changes is on the guard's list.
LEMMA ChangesAreListed ==
    ASSUME NEW p, RulerStays(p), NEW q \in Ruler, p.head[q] # p.base[q]
    PROVE  \E s : /\ <<s, q>> \in Changed(p)
                  /\ s = "A" => p.base[q] = Gone
<1> DEFINE from == {m[1] : m \in p.moved}
           to   == {m[2] : m \in p.moved}
<1>1. q \in Paths /\ q \notin from
  BY DEF Ruler, RulerStays
<1>2. CASE q \in to
  <2>1. <<"R", q>> \in Changed(p)
    BY <1>2 DEF Changed
  <2> QED
    BY <2>1
<1>3. CASE q \notin to
  <2> DEFINE s == Status(p.base[q], p.head[q])
  <2>1. <<s, q>> \in Changed(p)
    BY <1>1, <1>3 DEF Changed
  <2>2. s = "A" => p.base[q] = Gone
    BY DEF Status
  <2> QED
    BY <2>1, <2>2
<1> QED
  BY <1>2, <1>3

\* What the guard does not block, it has opened or excused.
LEMMA ListedIsOpened ==
    ASSUME NEW p, GuardScript(p).blocked = {}, NEW q \in Ruler, NEW s, <<s, q>> \in Changed(p)
    PROVE  \/ s = "A" /\ GenOf[q] \notin ExistingGenerations(p.main) \cup {None}
           \/ q = Tolerance /\ Excused(p)
<1> DEFINE rows == Changed(p)
           gens == ExistingGenerations(p.main)
           excused == IF CarriesItsTolerance(p, Blocked(rows, gens), Opened(p))
                      THEN {Tolerance} ELSE {}
<1>1. Blocked(rows, gens) \ excused = {}
  BY DEF GuardScript, Opened
<1>2. Area[q] \in {"instrument", "governance"} /\ <<s, q>>[1] = s /\ <<s, q>>[2] = q
  BY DEF Ruler
<1>3. CASE ~Opens(<<s, q>>, gens)
  <2>1. q \in Blocked(rows, gens)
    BY <1>2, <1>3 DEF Blocked
  <2> QED
    BY <1>1, <2>1 DEF Excused
<1>4. CASE Opens(<<s, q>>, gens)
  BY <1>2, <1>4 DEF Opens
<1> QED
  BY <1>3, <1>4

\* A generation that is opened has a new file, which the merge brings.
LEMMA OpenedExists ==
    ASSUME NEW p, NEW g \in Opened(p)
    PROVE  g \in ExistingGenerations(Merged(p)) \ ExistingGenerations(p.main)
<1> DEFINE gens == ExistingGenerations(p.main)
<1>1. PICK r \in Changed(p) : Opens(r, gens) /\ GenOf[r[2]] = g
  BY DEF Opened, Cartography
<1>2. r[1] = "A" /\ g \notin gens \cup {None}
  BY <1>1 DEF Opens
<1>3. PICK q \in Paths : r = <<Status(p.base[q], p.head[q]), q>> /\ p.base[q] # p.head[q]
  BY <1>1, <1>2 DEF Changed
<1>4. p.base[q] = Gone /\ p.head[q] # Gone /\ GenOf[q] = g
  BY <1>1, <1>2, <1>3 DEF Status
<1>5. q # Tolerance
  BY <1>2, <1>4, PathsAssumption
<1>6. Merged(p)[q] = p.head[q]
  BY <1>4, <1>5 DEF Merged, MergeOne
<1> QED
  BY <1>2, <1>4, <1>6 DEF ExistingGenerations

\* An entry the merge changes is a new one, of a generation the pull request opens.
LEMMA EntriesAreOpened ==
    ASSUME NEW p, RulerStays(p), Tolerances(p), GuardScript(p).blocked = {}
    PROVE  /\ Merged(p)[Tolerance] # Gone
           /\ \A g \in Generations :
                Merged(p)[Tolerance][g] # p.main[Tolerance][g] =>
                    p.main[Tolerance][g] = 0 /\ g \in Opened(p)
<1> DEFINE base == p.base[Tolerance]
           main == p.main[Tolerance]
           head == p.head[Tolerance]
           after == Merged(p)[Tolerance]
<1>1. Tolerance \in Ruler /\ Tolerance \in Paths /\ GenOf[Tolerance] = None
  BY PathsAssumption DEF Ruler
<1>2. main \in TolerancesOf /\ main # Gone
  BY GoneAssumption DEF Tolerances, TolerancesOf
<1>3. CASE head = base
  <2>1. CASE Gone \in {base, main, head}
    <3>1. after = main
      BY <1>1, <1>3, <2>1 DEF Merged, MergeOne
    <3> QED
      BY <1>2, <3>1
  <2>2. CASE Gone \notin {base, main, head}
    <3>1. after = [g \in Generations |-> MergeOne(base[g], main[g], head[g])]
      BY <1>1, <2>2 DEF Merged
    <3>2. \A g \in Generations : after[g] = main[g]
      BY <1>3, <3>1 DEF MergeOne
    <3>3. after = main
      BY <1>2, <3>1, <3>2 DEF TolerancesOf
    <3> QED
      BY <1>2, <3>3
  <2> QED
    BY <2>1, <2>2
<1>4. CASE head # base
  <2>1. Excused(p)
    BY <1>1, <1>4, ChangesAreListed, ListedIsOpened
  <2>2. head # Gone /\ OnlyAddsEntries(main, head, Opened(p))
    BY <2>1 DEF Excused, CarriesItsTolerance
  <2>3. head \in TolerancesOf
    BY <2>2 DEF Tolerances
  <2>4. \A g \in Generations :
            head[g] # main[g] => main[g] = 0 /\ g \in Opened(p)
    BY <1>2, <2>2, <2>3 DEF OnlyAddsEntries, TolerancesOf
  <2>5. CASE base = Gone
    <3>1. after = head
      BY <1>1, <1>4, <2>5 DEF Merged, MergeOne
    <3> QED
      BY <2>2, <2>4, <3>1
  <2>6. CASE base # Gone
    <3>1. after = [g \in Generations |-> MergeOne(base[g], main[g], head[g])]
      BY <1>1, <1>2, <2>2, <2>6 DEF Merged
    <3>2. base \in TolerancesOf
      BY <2>6 DEF Tolerances
    <3>3. \A g \in Generations : after[g] \in {main[g], head[g]}
      BY <3>1 DEF MergeOne
    <3>4. after \in TolerancesOf
      BY <1>2, <2>3, <3>1, <3>2 DEF MergeOne, TolerancesOf
    <3> QED
      BY <2>4, <3>3, <3>4, GoneAssumption DEF TolerancesOf
  <2> QED
    BY <2>5, <2>6
<1> QED
  BY <1>3, <1>4

\* Whatever main has become since the branch, a pull request that the instrument
\* guard does not block and that merges without a conflict leaves everything that
\* decides a measurement as main has it, but for files and tolerances of
\* generations main does not have.  A file that is renamed away is the exception
\* (MCRules_guards).
THEOREM GuardKeepsTheRuler ==
    ASSUME NEW p, RulerStays(p), Tolerances(p),
           GuardOutcome(GuardScript(p)) # "BLOCKED", MergesCleanly(p)
    PROVE  KeepsTheRuler(p)
<1> DEFINE gens == ExistingGenerations(p.main)
           after == Merged(p)
<1>1. GuardScript(p).blocked = {}
  BY DEF GuardOutcome
<1>2. ASSUME NEW q \in Ruler \ {Tolerance}
      PROVE  IF p.main[q] # Gone THEN after[q] = p.main[q]
             ELSE after[q] # Gone => GenOf[q] \notin gens \cup {None}
  <2>1. after[q] = MergeOne(p.base[q], p.main[q], p.head[q])
    BY <1>2 DEF Merged, Ruler
  <2>2. CASE p.head[q] = p.base[q] \/ p.head[q] = p.main[q]
    BY <2>1, <2>2 DEF MergeOne
  <2>3. CASE p.head[q] # p.base[q] /\ p.head[q] # p.main[q]
    <3>1. p.main[q] = p.base[q]
      BY <1>2, <2>3 DEF MergesCleanly, Ruler
    <3>2. p.base[q] = Gone /\ GenOf[q] \notin gens \cup {None}
      BY <1>1, <1>2, <2>3, ChangesAreListed, ListedIsOpened
    <3> QED
      BY <3>1, <3>2
  <2> QED
    BY <2>2, <2>3
<1>3. /\ after[Tolerance] # Gone
      /\ \A g \in Generations :
            after[Tolerance][g] # p.main[Tolerance][g] =>
                p.main[Tolerance][g] = 0 /\ g \in ExistingGenerations(after) \ gens
  BY <1>1, EntriesAreOpened, OpenedExists
<1> QED
  BY <1>2, <1>3 DEF KeepsTheRuler
-----------------------------------------------------------------------------
\* The re-registration guard and the candidate arm

\* What is said of registrations: each for an operator, of a function whose text
\* has a length.
Registered(p) ==
    \A r \in p.regs : r.op \in Ops /\ p.defs[r.function].length \in Nat

\* No kernel of main's has the candidate's name.  Of two kernels of one name for
\* two operators the arm runs both (MCRules_guards).
NameIsNew(p) == \A b \in MainRegs : b.name # CandidateImpl(p)

\* A text is alike to itself, however strict the similarity.
LEMMA AlikeItself ==
    ASSUME NEW a, a.length \in Nat
    PROVE  Alike(a, a)
<1> DEFINE differ == {i \in DOMAIN a.constants : a.constants[i] # a.constants[i]}
<1>1. differ = {} /\ Cardinality(differ) = 0
  BY FS_EmptySet
<1>2. ASSUME NEW n \in Nat, NEW s \in 0 .. 100
      PROVE  100 * n >= s * n
  BY <1>2
<1>3. 100 * (a.length - Cardinality(differ)) >= Similar * a.length
  BY <1>1, <1>2, RegistryAssumption
<1> QED
  BY <1>3 DEF Alike

\* The candidate is a name the pull request registers.
LEMMA CandidateIsNamed ==
    ASSUME NEW p, CandidateImpl(p) # None
    PROVE  CandidateImpl(p) \in CandidateNames(p)
<1>1. CASE Cardinality(CandidateNames(p)) = 1
  <2>1. CandidateNames(p) # {}
    BY <1>1, FS_EmptySet
  <2> QED
    BY <1>1, <2>1 DEF CandidateImpl
<1>2. CASE Cardinality(CandidateNames(p)) # 1
  BY <1>2 DEF CandidateImpl
<1> QED
  BY <1>1, <1>2

\* What runs main's kernel is a re-registration, whatever it is called.
LEMMA MainsKernelIsFound ==
    ASSUME NEW p, Registered(p), NEW r \in p.regs, RunsMainsKernel(r, p)
    PROVE  IsReregistration(r, p.defs)
<1>1. CASE \E b \in MainRegs : Callable(b) = Callable(r)
  BY <1>1 DEF IsReregistration
<1>2. CASE ~ \E b \in MainRegs : Callable(b) = Callable(r)
  <2>1. r.function \notin DOMAIN MainDefs
    BY <1>2 DEF RunsMainsKernel
  <2>2. PICK b \in MainRegs : /\ r.args \in {NoArgs, b.args} \/ b.args = NoArgs
                              /\ p.defs[r.function] = MainDefs[b.function]
                              /\ p.defs[r.function].length >= MinTokens
    BY <1>2 DEF RunsMainsKernel
  <2>3. r.function \notin {c.function : c \in MainRegs}
    BY <2>1, RegistryAssumption
  <2>4. Alike(p.defs[r.function], MainDefs[b.function])
    BY <2>2, AlikeItself DEF Registered
  <2>5. SameKernel(r, b, p.defs)
    BY <2>2, <2>4 DEF SameKernel
  <2> QED
    BY <2>2, <2>3, <2>5 DEF IsReregistration
<1> QED
  BY <1>1, <1>2

\* Whatever the candidate arm of a measured pull request runs instead of the
\* baseline is new work, and it runs something: none of it is a callable of main's,
\* nor a copy of a kernel of main's under other names, and no operator falls back
\* on a kernel nobody submitted.  A maintainer may clear a pull request of this.
THEOREM MeasuredRunsNewWork ==
    ASSUME NEW p, Registered(p), NameIsNew(p), Route(p) = "MEASURED", ~p.cleared
    PROVE  LET arm == Arm(CandidateImpl(p), p.regs) \ Arm("cuda", p.regs)
           IN arm # {} /\ \A r \in arm : r \in NewRegs(p) /\ ~RunsMainsKernel(r, p)
<1> DEFINE impl == CandidateImpl(p)
           arm == Arm(impl, p.regs) \ Arm("cuda", p.regs)
<1>1. impl # None /\ ~Reregistered(p)
  BY DEF Route
<1>2. \A op : ResolveImpl(op, "cuda", p.regs) = "cuda"
  BY DEF ResolveImpl
<1>3. PICK n \in NewRegs(p) : n.name = impl
  BY <1>1, CandidateIsNamed DEF CandidateNames
<1>4. n \in p.regs /\ n.name # "cuda"
  BY RegistryAssumption DEF NewRegs, Registered
<1>5. n \in arm
  BY <1>2, <1>3, <1>4 DEF Arm, ResolveImpl
<1>6. ASSUME NEW r \in arm
      PROVE  r \in NewRegs(p) /\ ~RunsMainsKernel(r, p)
  <2>1. r \in p.regs /\ r.name = impl
    BY <1>2 DEF Arm, ResolveImpl
  <2>2. r \in NewRegs(p)
    BY <2>1 DEF NewRegs, NameIsNew
  <2>3. ~IsReregistration(r, p.defs)
    BY <1>1, <2>2 DEF Reregistered
  <2> QED
    BY <2>1, <2>2, <2>3, MainsKernelIsFound
<1> QED
  BY <1>5, <1>6

-----------------------------------------------------------------------------
\* The same of a run, whatever pull requests it is given

\* Any case whatever, and its answer by the rules: the cases of Init are some.
AnyCase == answer = NotAnswered /\ [][Next]_<<given, answer>>

\* What is proved of any case holds in the runs.
LEMMA RunsAreCases == Spec => AnyCase
<1>1. Init => answer = NotAnswered
  BY DEF Init
<1> QED
  BY <1>1, PTL DEF Spec, AnyCase

GivenIsMerged == given.kind = "pull request" => RulerStays(given) /\ Tolerances(given)
GivenIsNamed ==
    given.kind = "pull request" =>
        Registered(given) /\ (Route(given) = "MEASURED" => NameIsNew(given))

\* An answer is the rule's, for what was given.
AnswerIsTheRule ==
    /\ Answered("pull request") => answer = Route(given)
    /\ Answered("raw file") => answer = Score(given, FALSE)
    /\ Answered("portfolio") => answer = Hypervolume(given.points, given.reference)

\* An answer is what the rules say of what was given.
LEMMA AnswersByTheRules == AnyCase => []AnswerIsTheRule
<1>1. answer = NotAnswered => AnswerIsTheRule
  BY DEF AnswerIsTheRule, Answered
<1>2. AnswerIsTheRule /\ [Next]_<<given, answer>> => AnswerIsTheRule'
  BY DEF Next, JudgePullRequest, ScoreRawFile, ScoreAnchored, MeasureVolume, Answer, Answered,
         AnswerIsTheRule
<1> QED
  BY <1>1, <1>2, PTL DEF AnyCase

\* What is given stays as it is while it is answered.
LEMMA GivenStays == [Next]_<<given, answer>> => given' = given
BY DEF Next, JudgePullRequest, ScoreRawFile, ScoreAnchored, MeasureVolume, Answer

\* The instrument guard keeps the ruler, of any pull request that renames nothing
\* out of it and merges into a main that has its tolerance file.
THEOREM RulerAlwaysKept == AnyCase /\ GivenIsMerged => []RulerIsKept
<1>1. GivenIsMerged /\ [Next]_<<given, answer>> => GivenIsMerged'
  BY GivenStays DEF GivenIsMerged
<1>2. GivenIsMerged => RulerIsKept
  BY GuardKeepsTheRuler DEF GivenIsMerged, RulerIsKept, Answered
<1> QED
  BY <1>1, <1>2, PTL DEF AnyCase

\* What is answered MEASURED measures new work, of any pull request whose candidate
\* takes no name of main's.
THEOREM MeasuredAlwaysNew == AnyCase /\ GivenIsNamed => []MeasuredIsNewWork
<1>1. GivenIsNamed /\ [Next]_<<given, answer>> => GivenIsNamed'
  BY GivenStays DEF GivenIsNamed
<1>2. GivenIsNamed /\ AnswerIsTheRule => MeasuredIsNewWork
  BY MeasuredRunsNewWork DEF GivenIsNamed, AnswerIsTheRule, MeasuredIsNewWork, Answered
<1> QED
  BY <1>1, <1>2, AnswersByTheRules, PTL DEF AnyCase

-----------------------------------------------------------------------------
\* What a credit is of, and what dropping a cell does to it

\* What the status of a receipt says of its run.
LEMMA CreditingStatus ==
    ASSUME NEW correctness, NEW determinism, NEW survived \in BOOLEAN,
           NEW complete \in BOOLEAN, NEW resolved \in BOOLEAN, NEW gap, NEW delta,
           DecideStatus(correctness, determinism, survived, complete, resolved, gap, delta)
                \in CreditingStatuses
    PROVE  /\ correctness = "PASS" /\ determinism # "no"
           /\ survived /\ complete /\ resolved /\ gap[1] > 0 /\ delta[1] > 0
BY DEF DecideStatus, CreditingStatuses

\* A receipt that credits something is of a correct build that reproduces itself
\* and of a whole run: every implemented cell, no other, the same repeats of both
\* arms, none of them failed.  Some cell resolved, no resolved gain was lost at the
\* held-out shape, and the frontier moved out.
THEOREM CreditIsOfAWholeRun ==
    ASSUME NEW raw, NEW partial \in BOOLEAN, ScoredCells(raw.records) \subseteq Cells,
           Score(raw, partial).credited # Zero
    PROVE  /\ raw.correctness = "PASS" /\ raw.determinism \notin {"no", "unknown"}
           /\ ScoredCells(raw.records) = Implemented
           /\ \A c \in Implemented :
                LET base == Group(raw.records, c, "base")
                    cand == Group(raw.records, c, "candidate")
                IN /\ RepeatsOf(base) = RepeatsOf(cand)
                   /\ Cardinality(base) = Cardinality(cand) /\ Cardinality(base) >= Repeats
                   /\ \A r \in base \cup cand : r.status = "OK"
           /\ \E c \in Implemented : PerCell(raw.records)[c].resolved
           /\ Survived(PerCell(raw.records), raw.held) /\ Expansion(raw.records)[1] > 0
<1> DEFINE receipt == BuildReceipt(raw)
           records == raw.records
           cells == PerCell(records)
<1>1. raw.determinism # "unknown" /\ Computable(records, partial) /\ Score(raw, partial) = receipt
  BY DEF Score, Refused
<1>2. receipt.status \in CreditingStatuses
  BY <1>1 DEF BuildReceipt
<1>3. /\ raw.correctness = "PASS" /\ raw.determinism # "no"
      /\ Survived(cells, raw.held) /\ Complete(records) /\ Aggregate(cells).resolved
      /\ Expansion(records)[1] > 0
  <2>1. /\ Survived(cells, raw.held) \in BOOLEAN /\ Complete(records) \in BOOLEAN
        /\ Aggregate(cells).resolved \in BOOLEAN
    BY DEF Survived, Complete, Aggregate
  <2>2. DecideStatus(raw.correctness, raw.determinism, Survived(cells, raw.held),
                     Complete(records), Aggregate(cells).resolved, Aggregate(cells).gap,
                     Expansion(records)) \in CreditingStatuses
    BY <1>2 DEF BuildReceipt
  <2> QED
    BY <2>1, <2>2, CreditingStatus
<1>4. \A c \in ScoredCells(records) :
        Scorable(c, Group(records, c, "base"), Group(records, c, "candidate"))
  BY <1>1 DEF Computable
<1>5. ScoredCells(records) = Implemented
  <2>1. \A c \in ScoredCells(records) : Cell[c].implemented
    BY <1>4 DEF Scorable
  <2> QED
    BY <1>3, <2>1 DEF Complete, Implemented
<1>6. ASSUME NEW c \in Implemented
      PROVE  LET base == Group(records, c, "base")
                 cand == Group(records, c, "candidate")
             IN /\ RepeatsOf(base) = RepeatsOf(cand)
                /\ Cardinality(base) = Cardinality(cand) /\ Cardinality(base) >= Repeats
                /\ \A r \in base \cup cand : r.status = "OK"
  <2>1. Paired(Group(records, c, "base"), Group(records, c, "candidate"))
    BY <1>4, <1>5 DEF Scorable
  <2> QED
    BY <2>1 DEF Paired, Sampled
<1>7. \E c \in Implemented : cells[c].resolved
  BY <1>3, <1>5 DEF Aggregate, PerCell
<1> QED
  BY <1>1, <1>3, <1>5, <1>6, <1>7

\* A run that leaves out a cell is credited nothing, scored in part or not, however
\* well it does in the others.
THEOREM DroppedIsUncredited ==
    ASSUME NEW records, NEW held, NEW correctness, NEW determinism,
           NEW c \in Implemented, NEW partial \in BOOLEAN
    PROVE  Score(Without(RawFile(records, held, correctness, determinism), c), partial).credited
             = Zero
<1> DEFINE rest == {r \in records : r.cell # c}
           less == Without(RawFile(records, held, correctness, determinism), c)
<1>0. less.records = rest
  BY DEF Without, RawFile
<1>1. c \notin ScoredCells(less.records)
  BY <1>0 DEF ScoredCells
<1>2. ~Complete(less.records)
  BY <1>1 DEF Complete
<1>3. BuildReceipt(less).status \notin CreditingStatuses
  BY <1>2 DEF BuildReceipt, DecideStatus, CreditingStatuses
<1>4. BuildReceipt(less).credited = Zero
  BY <1>3 DEF BuildReceipt
<1> QED
  BY <1>4 DEF Score, Refused

-----------------------------------------------------------------------------
\* What a run of the scorer credits

\* A raw file holds finitely many records, of declared cells.
GivenIsRecorded ==
    given.kind = "raw file" =>
        /\ given = RawFile(given.records, given.held, given.correctness, given.determinism)
        /\ Recorded(given.records)

\* A base arm that was run reports its memory, so that it has a point of its own.
BaseReports ==
    given.kind = "raw file" =>
        \A c \in ScoredCells(given.records) :
            Group(given.records, c, "base") # {} =>
                \E r \in Group(given.records, c, "base") : r.memory # NotReported

\* A run that leaves out a cell is credited nothing, and nothing is the least a run
\* is credited: whatever raw file is given, none of its cells is worth dropping.
THEOREM DroppingNeverEverPays == AnyCase /\ GivenIsRecorded => []DroppingNeverPays
<1>1. GivenIsRecorded /\ [Next]_<<given, answer>> => GivenIsRecorded'
  BY GivenStays DEF GivenIsRecorded
<1>2. GivenIsRecorded /\ AnswerIsTheRule => DroppingNeverPays
  <2> SUFFICES ASSUME GivenIsRecorded, AnswerIsTheRule, Answered("raw file"),
                      NEW c \in Implemented, NEW partial \in BOOLEAN
               PROVE  ~Less(answer.credited, Score(Without(given, c), partial).credited)
    BY DEF DroppingNeverPays
  <2>1. /\ answer = Score(given, FALSE) /\ Recorded(given.records)
        /\ given = RawFile(given.records, given.held, given.correctness, given.determinism)
    BY DEF GivenIsRecorded, AnswerIsTheRule, Answered
  <2>2. Score(Without(given, c), partial).credited = Zero
    <3>1. PICK records, held, correctness, determinism :
            given = RawFile(records, held, correctness, determinism)
      BY <2>1
    <3> QED
      BY <3>1, DroppedIsUncredited
  <2>3. AtMost(Zero, answer.credited)
    BY <2>1, CreditIsNotNegative
  <2> QED
    BY <2>2, <2>3 DEF AtMost
<1> QED
  BY <1>1, <1>2, AnswersByTheRules, PTL DEF AnyCase

\* A cell that did not resolve neither adds to the gap nor decides whether the run
\* resolved: with its candidate replaced by its base, of any raw file whose base arms
\* report their memory, the receipt says the same.
THEOREM UnresolvedAlwaysAddsNothing ==
    AnyCase /\ GivenIsRecorded /\ BaseReports => []UnresolvedAddsNothing
<1>1. GivenIsRecorded /\ BaseReports /\ [Next]_<<given, answer>>
        => GivenIsRecorded' /\ BaseReports'
  BY GivenStays DEF GivenIsRecorded, BaseReports
<1>2. GivenIsRecorded /\ BaseReports /\ AnswerIsTheRule => UnresolvedAddsNothing
  <2> DEFINE records == given.records
  <2> SUFFICES ASSUME GivenIsRecorded, BaseReports, AnswerIsTheRule, Answered("raw file"),
                      answer # Refused, NEW c \in DOMAIN answer.cells,
                      ~answer.cells[c].resolved
               PROVE  LET other == Score(Untouched(given, c), FALSE)
                      IN other.gap = answer.gap /\ other.resolved = answer.resolved
    BY DEF UnresolvedAddsNothing
  <2>1. /\ answer = BuildReceipt(given) /\ given.determinism # "unknown"
        /\ Computable(records, FALSE) /\ Recorded(records)
        /\ given = RawFile(records, given.held, given.correctness, given.determinism)
    BY DEF GivenIsRecorded, AnswerIsTheRule, Answered, Score
  <2>2. Scored(records) /\ answer.cells = PerCell(records)
    BY <2>1 DEF Computable, Scored, BuildReceipt
  <2>3. c \in ScoredCells(records) /\ ~PerCell(records)[c].resolved
    BY <2>2 DEF PerCell
  <2> DEFINE other == Untouched(given, c)
  <2>4. other.records = Copied(records, c) /\ other.determinism = given.determinism
    BY <2>1 DEF Untouched, RawFile, Copied, Copy
  <2>5. /\ Scored(Copied(records, c))
        /\ Aggregate(PerCell(Copied(records, c))) = Aggregate(PerCell(records))
    BY <2>2, <2>3, UnresolvedCountsForNothing
  <2>6. PICK b \in Group(records, c, "base") : b.memory # NotReported
    <3>1. Group(records, c, "base") # {}
      BY <2>1, <2>3 DEF Computable, Scorable, Paired
    <3> QED
      BY <2>3, <3>1 DEF BaseReports, Answered
  <2>7. /\ ScoredCells(Copied(records, c)) = ScoredCells(records)
        /\ \A k \in Cells \ {c}, v \in Variants :
              Group(Copied(records, c), k, v) = Group(records, k, v)
        /\ Group(Copied(records, c), c, "base") = Group(records, c, "base")
    BY <2>1, <2>6, CopiedGroups
  <2>8. Computable(Copied(records, c), FALSE)
    <3>1. \A k \in ScoredCells(records) :
            HasAPoint(Group(Copied(records, c), k, "base"), Group(Copied(records, c), k, "candidate"))
      <4>1. HasAPoint(Group(Copied(records, c), c, "base"),
                      Group(Copied(records, c), c, "candidate"))
        BY <2>6, <2>7 DEF HasAPoint
      <4>2. ScoredCells(records) \subseteq Cells
        BY <2>2, CellsAreScored
      <4> QED
        BY <2>1, <2>7, <4>1, <4>2 DEF Computable, Variants
    <3> QED
      BY <2>1, <2>5, <2>7, <3>1 DEF Computable, Complete, Scored
  <2>9. Score(other, FALSE) = BuildReceipt(other)
    BY <2>1, <2>4, <2>8 DEF Score
  <2>10. /\ BuildReceipt(other).gap = Aggregate(PerCell(other.records)).gap
         /\ BuildReceipt(other).resolved = Aggregate(PerCell(other.records)).resolved
         /\ BuildReceipt(given).gap = Aggregate(PerCell(records)).gap
         /\ BuildReceipt(given).resolved = Aggregate(PerCell(records)).resolved
    BY DEF BuildReceipt
  <2> QED
    BY <2>1, <2>4, <2>5, <2>9, <2>10
<1> QED
  BY <1>1, <1>2, AnswersByTheRules, PTL DEF AnyCase
-----------------------------------------------------------------------------
\* Portfolios

\* A portfolio has finitely many points between the bounds of its objectives, of
\* which there is at least one.
GivenIsAPortfolio ==
    given.kind = "portfolio" =>
        /\ DOMAIN given.reference = 1 .. Cardinality(DOMAIN given.reference)
        /\ DOMAIN given.reference # {}
        /\ ArePoints(given.points, given.reference, given.top)

\* The volume measured is the volume of what the points cover, of any portfolio of
\* any number of points and objectives.
THEOREM VolumeIsAlwaysExact == AnyCase /\ GivenIsAPortfolio => []VolumeIsExact
<1>1. GivenIsAPortfolio /\ [Next]_<<given, answer>> => GivenIsAPortfolio'
  BY GivenStays DEF GivenIsAPortfolio
<1>2. GivenIsAPortfolio /\ AnswerIsTheRule => VolumeIsExact
  <2> SUFFICES ASSUME GivenIsAPortfolio, AnswerIsTheRule, Answered("portfolio")
               PROVE  answer = BoxesCovered(given.points, given.reference, given.top)
    BY DEF VolumeIsExact
  <2> DEFINE n == Cardinality(DOMAIN given.reference)
  <2>1. /\ ArePoints(given.points, given.reference, given.top)
        /\ DOMAIN given.reference = 1 .. n /\ DOMAIN given.reference # {}
    BY DEF GivenIsAPortfolio, Answered
  <2>2. IsFiniteSet(DOMAIN given.reference)
    BY <2>1 DEF ArePoints, IsCorner
  <2>3. n \in Nat \ {0}
    BY <2>1, <2>2, FS_CardinalityType, FS_EmptySet
  <2>4. Hypervolume(given.points, given.reference)
          = BoxesCovered(given.points, given.reference, given.top)
    BY <2>1, <2>3, HypervolumeIsExact
  <2> QED
    BY <2>4 DEF AnswerIsTheRule
<1> QED
  BY <1>1, <1>2, AnswersByTheRules, PTL DEF AnyCase
-----------------------------------------------------------------------------
\* What earns credit

\* The records of a raw file are of the generation's repeats, and a build that was
\* checked reproduces itself or does not.
GivenIsMeasured ==
    given.kind = "raw file" =>
        /\ Recorded(given.records)
        /\ \A r \in given.records : r.repeat \in 1 .. Repeats
        /\ given.determinism \in {"yes", "no", "unknown"}

\* The arms of a run that is credited have one record per repeat, and no other.
LEMMA ArmsAreWhole ==
    ASSUME NEW records, Scored(records), \A r \in records : r.repeat \in 1 .. Repeats,
           NEW c \in ScoredCells(records), NEW v \in Variants
    PROVE  LET arm == Group(records, c, v)
           IN /\ Recorded(arm) /\ Sampled(arm) /\ InRepeats(arm)
              /\ Cardinality(arm) = Repeats
<1> DEFINE arm == Group(records, c, v)
<1>1. Paired(Group(records, c, "base"), Group(records, c, "candidate"))
  BY DEF Scored, Scorable
<1>2. Sampled(arm) /\ Cardinality(RepeatsOf(arm)) >= Repeats
  BY <1>1 DEF Paired, Variants
<1>3. Recorded(arm)
  BY GroupsAreRecorded DEF Scored
<1>4. InRepeats(arm)
  BY DEF InRepeats, RepeatsOf, Group
<1> HIDE DEF arm
<1>5. Cardinality(arm) = Repeats
  BY <1>2, <1>4, RepeatsAreAll DEF Sampled
<1> QED
  BY <1>2, <1>3, <1>4, <1>5 DEF arm

\* A cell that adds to the credit of a run is faster in every pair, and its gain is
\* beyond its floor.
LEMMA CreditedCellGains ==
    ASSUME NEW records, Scored(records), \A r \in records : r.repeat \in 1 .. Repeats,
           NEW c \in ScoredCells(records), PerCell(records)[c].credited[1] > 0
    PROVE  LET base == Group(records, c, "base")
               cand == Group(records, c, "candidate")
           IN /\ PerCell(records)[c].resolved /\ PerCell(records)[c].gap[1] > 0
              /\ \A b \in base, t \in cand : b.repeat = t.repeat => t.root < b.root
              /\ Geomean(cand, Identity(cand)) * Cell[c].floor[2]
                    < Geomean(base, Identity(base)) * (Cell[c].floor[2] - Cell[c].floor[1])
<1> DEFINE base == Group(records, c, "base")
           cand == Group(records, c, "candidate")
<1>1. PerCell(records)[c] = ScoreCell(c, base, cand)
  BY DEF PerCell
<1>2. Samples(c, base, cand)
  BY CellsAreScored
<1>3. /\ Recorded(base) /\ Sampled(base) /\ InRepeats(base)
      /\ Recorded(cand) /\ Sampled(cand)
  BY ArmsAreWhole DEF Variants
<1> HIDE DEF base, cand
<1>4. ScoreCell(c, base, cand).resolved /\ ScoreCell(c, base, cand).gap[1] > 0
  BY <1>1, <1>2, <1>3, CreditIsAboveTheFloor
<1>5. /\ \A k \in RepeatsOf(base) : Root(cand, k) < Root(base, k)
      /\ Geomean(cand, Identity(cand)) * Cell[c].floor[2]
            < Geomean(base, Identity(base)) * (Cell[c].floor[2] - Cell[c].floor[1])
  BY <1>1, <1>2, <1>3, CreditIsAGain
<1>6. ASSUME NEW b \in base, NEW t \in cand, b.repeat = t.repeat
      PROVE  t.root < b.root
  <2>1. b.repeat \in RepeatsOf(base) /\ Root(base, b.repeat) = b.root
    BY <1>3, RootOfARecord
  <2>2. Root(cand, t.repeat) = t.root
    BY <1>3, RootOfARecord
  <2> QED
    BY <1>5, <1>6, <2>1, <2>2
<1> QED
  BY <1>1, <1>4, <1>5, <1>6 DEF base, cand

\* A run is credited only for what a contribution is: a correct build that
\* reproduces itself, every cell run and no failure averaged in, a cell that is
\* faster in every pair, beyond its floor and at the held-out shape too, and a
\* point that the base does not reach; of any raw file the harness writes, for any
\* number of cells, two or three repeats and any number at the held-out shape.
THEOREM CreditIsAlwaysEarned == AnyCase /\ GivenIsMeasured => []CreditIsEarned
<1>1. GivenIsMeasured /\ [Next]_<<given, answer>> => GivenIsMeasured'
  BY GivenStays DEF GivenIsMeasured
<1>2. GivenIsMeasured /\ AnswerIsTheRule => CreditIsEarned
  <2> DEFINE rs == given.records
             base(c) == Group(rs, c, "base")
             cand(c) == Group(rs, c, "candidate")
             mean(c, v) == LET arm == Group(rs, c, v) IN Geomean(arm, Identity(arm))
  <2> SUFFICES ASSUME GivenIsMeasured, AnswerIsTheRule, Answered("raw file"),
                      answer.credited # Zero
               PROVE  CreditIsEarned
    BY DEF CreditIsEarned
  <2>1. /\ Recorded(rs) /\ \A r \in rs : r.repeat \in 1 .. Repeats
        /\ given.determinism \in {"yes", "no", "unknown"}
    BY DEF GivenIsMeasured, Answered
  <2>2. answer = Score(given, FALSE)
    BY DEF AnswerIsTheRule
  <2>3. Computable(rs, FALSE) /\ answer = BuildReceipt(given)
    BY <2>2 DEF Score, Refused
  <2>4. Scored(rs)
    BY <2>1, <2>3 DEF Computable, Scored
  <2>5. ScoredCells(rs) \subseteq Cells /\ DOMAIN PerCell(rs) = ScoredCells(rs)
    BY <2>4, CellsAreScored
  <2>6. /\ given.correctness = "PASS" /\ given.determinism \notin {"no", "unknown"}
        /\ ScoredCells(rs) = Implemented
        /\ Survived(PerCell(rs), given.held) /\ Expansion(rs)[1] > 0
        /\ \A c \in Implemented : \A r \in base(c) \cup cand(c) : r.status = "OK"
    BY <2>2, <2>5, CreditIsOfAWholeRun
  <2>7. given.determinism = "yes"
    BY <2>1, <2>6
  <2>8. {r.cell : r \in rs} = Implemented
    BY <2>6 DEF ScoredCells
  <2>9. ASSUME NEW r \in rs
        PROVE  r.status = "OK"
    <3>1. r.cell \in Implemented /\ r.variant \in Variants
      BY <2>1, <2>8 DEF Recorded, RawRecords
    <3>2. r \in base(r.cell) \cup cand(r.cell)
      BY <3>1 DEF Group, Variants
    <3> QED
      BY <2>6, <3>1, <3>2
  <2>10. \A c \in Implemented, v \in Variants : Cardinality(Group(rs, c, v)) = Repeats
    BY <2>1, <2>4, <2>6, ArmsAreWhole
  <2>11. answer.credited = Aggregate(PerCell(rs)).gap
    BY <2>3 DEF BuildReceipt
  <2>12. answer.credited \in Rationals /\ Less(Zero, answer.credited)
    BY <2>1, <2>2, CreditIsNotNegative
  <2>13. answer.credited[1] > 0
    BY <2>12, ShareOfTheGap
  <2>14. ~Less(<<1, 1>>, answer.credited)
    <3>1. Within(answer.credited, 1)
      BY <2>4, <2>11, CreditIsFromACell
    <3> QED
      BY <2>12, <3>1, ShareOfTheGap
  <2>15. PICK c \in Implemented : PerCell(rs)[c].credited[1] > 0
    BY <2>4, <2>6, <2>11, <2>13, CreditIsFromACell
  <2>16. /\ PerCell(rs)[c].resolved /\ PerCell(rs)[c].gap[1] > 0
         /\ \A b \in base(c), t \in cand(c) : b.repeat = t.repeat => t.root < b.root
         /\ mean(c, "candidate") * Cell[c].floor[2]
              < mean(c, "base") * (Cell[c].floor[2] - Cell[c].floor[1])
    BY <2>1, <2>4, <2>6, <2>15, CreditedCellGains
  <2>17. ASSUME NEW b \in {r \in rs : r.cell = c}, NEW t \in {r \in rs : r.cell = c},
                b.repeat = t.repeat, b.variant # t.variant
         PROVE  t.root < b.root <=> t.variant = "candidate"
    <3>1. b.variant \in Variants /\ t.variant \in Variants
      BY <2>1 DEF Recorded, RawRecords
    <3>2. CASE t.variant = "candidate"
      <4>1. t \in cand(c) /\ b \in base(c)
        BY <2>17, <3>1, <3>2 DEF Group, Variants
      <4> QED
        BY <2>16, <2>17, <3>2, <4>1
    <3>3. CASE t.variant # "candidate"
      <4>1. b \in cand(c) /\ t \in base(c)
        BY <2>17, <3>1, <3>3 DEF Group, Variants
      <4>2. b.root < t.root
        BY <2>16, <2>17, <4>1
      <4>3. b.root \in Nat /\ t.root \in Nat
        BY <2>1 DEF Recorded, RawRecords
      <4>4. ~(t.root < b.root)
        BY <4>2, <4>3, OneIsFaster
      <4> QED
        BY <3>3, <4>4
    <3> QED
      BY <3>2, <3>3
  <2>18. \A b \in {Group(given.held, c, "base")} \ {{}},
            t \in {Group(given.held, c, "candidate")} \ {{}} : FasterBy(b, t, Cell[c].floor)
    <3> SUFFICES ASSUME Group(given.held, c, "base") # {}, Group(given.held, c, "candidate") # {}
                 PROVE  FasterBy(Group(given.held, c, "base"), Group(given.held, c, "candidate"),
                                 Cell[c].floor)
      OBVIOUS
    <3>1. HeldUp(given.held, c)
      BY <2>5, <2>6, <2>16 DEF Survived
    <3> QED
      BY <3>1, HeldUpInSeconds DEF FasterBy
  <2>19. \E k \in Implemented : CellFrontier(k, base(k), cand(k)).gained # {}
    BY <2>4, <2>6, SomeCellExpands
  <2> QED
    BY <2>6, <2>7, <2>8, <2>9, <2>10, <2>12, <2>14, <2>16, <2>17, <2>18, <2>19
       DEF CreditIsEarned
<1> QED
  BY <1>1, <1>2, AnswersByTheRules, PTL DEF AnyCase

-----------------------------------------------------------------------------
\* What a faster run is credited

\* The status of a run that gains, when nothing refuses it.
LEMMA StillCredits ==
    ASSUME NEW raw, raw.correctness = "PASS", raw.determinism # "no", Complete(raw.records),
           Aggregate(PerCell(raw.records)).resolved,
           Aggregate(PerCell(raw.records)).gap[1] > 0, Expansion(raw.records)[1] > 0,
           BuildReceipt(raw).status # "SHAPE_OVERFIT"
    PROVE  BuildReceipt(raw).status = "FRONTIER_EXPANDED"
BY DEF BuildReceipt, DecideStatus

\* What a receipt credits.
LEMMA ReceiptCredits ==
    ASSUME NEW raw
    PROVE  BuildReceipt(raw).credited =
             IF BuildReceipt(raw).status \in CreditingStatuses
             THEN Aggregate(PerCell(raw.records)).gap ELSE Zero
BY DEF BuildReceipt

\* One candidate record faster: the receipt credits no less, unless it is refused or
\* held to be fitted to the shape.
LEMMA FasterCreditsNoLess ==
    ASSUME NEW records, NEW held, NEW correctness, NEW determinism, Recorded(records),
           \A s \in records : s.repeat \in 1 .. Repeats,
           NEW raw, raw = RawFile(records, held, correctness, determinism),
           NEW r \in records, r.variant = "candidate", r.root > 1,
           Score(Faster(raw, r), FALSE).status \notin {"REFUSED", "SHAPE_OVERFIT"}
    PROVE  ~Less(Score(Faster(raw, r), FALSE).credited, Score(raw, FALSE).credited)
<1> DEFINE others == Quickened(records, r)
           quick == Faster(raw, r)
<1>1. /\ raw.records = records /\ raw.held = held
      /\ raw.correctness = correctness /\ raw.determinism = determinism
      /\ quick.records = others /\ quick.held = held
      /\ quick.correctness = correctness /\ quick.determinism = determinism
  BY DEF RawFile, Faster, Quickened
<1>2. Recorded(others) /\ ScoredCells(others) = ScoredCells(records)
  BY QuickenedIsRecorded
<1>3. Score(quick, FALSE) = BuildReceipt(quick) /\ Computable(others, FALSE)
  BY <1>1 DEF Score, Refused
<1> HIDE DEF others, quick
<1>4. CASE Score(raw, FALSE).credited = Zero
  <2>1. AtMost(Zero, Score(quick, FALSE).credited)
    BY <1>1, <1>2, CreditIsNotNegative
  <2> QED
    BY <1>4, <2>1 DEF AtMost, quick
<1>5. CASE Score(raw, FALSE).credited # Zero
  <2> DEFINE x == PerCell(records)
             y == PerCell(others)
  <2>1. Computable(records, FALSE) /\ Score(raw, FALSE) = BuildReceipt(raw)
    BY <1>1, <1>5 DEF Score, Refused
  <2>2. /\ Scored(records) /\ Scored(others)
        /\ Complete(records) \in BOOLEAN /\ Complete(others) = Complete(records)
    BY <1>2, <1>3, <2>1 DEF Computable, Scored, Complete
  <2>3. BuildReceipt(raw).status \in CreditingStatuses
    BY <1>5, <2>1, ReceiptCredits
  <2>4. /\ correctness = "PASS" /\ determinism # "no" /\ Complete(records)
        /\ Aggregate(x).resolved /\ Aggregate(x).gap[1] > 0 /\ Expansion(records)[1] > 0
    <3>1. Survived(x, held) \in BOOLEAN /\ Aggregate(x).resolved \in BOOLEAN
      BY DEF Survived, Aggregate
    <3>2. DecideStatus(correctness, determinism, Survived(x, held), Complete(records),
                       Aggregate(x).resolved, Aggregate(x).gap, Expansion(records))
            \in CreditingStatuses
      BY <1>1, <2>3 DEF BuildReceipt
    <3> HIDE DEF x
    <3> QED
      BY <2>2, <3>1, <3>2, CreditingStatus
  <2>5. Sampled(Group(records, r.cell, "candidate"))
    <3>1. r.cell \in ScoredCells(records)
      BY DEF ScoredCells
    <3> QED
      BY <2>2, <3>1 DEF Scored, Scorable, Paired
  <2>6. \A c : /\ Group(others, c, "base") = Group(records, c, "base")
               /\ IsAsFast(Group(others, c, "candidate"), Group(records, c, "candidate"))
    BY <2>5, QuickenedGroups DEF others
  <2>7. \A s \in others : s.repeat \in 1 .. Repeats
    <3>1. \A s \in others : s \in records \/ s.repeat = r.repeat
      BY QuickRecord DEF others, Quickened, Recorded
    <3> QED
      BY <3>1
  <2>8. /\ Aggregate(y).resolved /\ AtMost(Aggregate(x).gap, Aggregate(y).gap)
        /\ Aggregate(y).gap[1] > 0 /\ Expansion(others)[1] > 0
    BY <1>2, <2>2, <2>4, <2>6, <2>7, RunGrows
  <2>9. BuildReceipt(quick).status \in CreditingStatuses
    <3>1. BuildReceipt(quick).status # "SHAPE_OVERFIT"
      BY <1>3 DEF quick
    <3>2. Complete(quick.records)
      BY <1>1, <2>2, <2>4
    <3>3. BuildReceipt(quick).status = "FRONTIER_EXPANDED"
      BY <1>1, <2>4, <2>8, <3>1, <3>2, StillCredits
    <3> QED
      BY <3>3 DEF CreditingStatuses
  <2>10. /\ Score(raw, FALSE).credited = Aggregate(x).gap
         /\ Score(quick, FALSE).credited = Aggregate(y).gap
    BY <1>1, <1>3, <2>1, <2>3, <2>9, ReceiptCredits DEF quick
  <2> QED
    BY <2>8, <2>10 DEF AtMost, quick
<1> QED
  BY <1>4, <1>5

\* A candidate that is faster in one repeat, and the same elsewhere, is never
\* credited less, unless it is refused or the held-out shape does not confirm it; of
\* any raw file the harness writes, any number of cells, two or three repeats: no cell
\* that starts or ceases to resolve, and no interval that widens, costs anything.
THEOREM FasterNeverEverPaysLess ==
    AnyCase /\ GivenIsRecorded /\ GivenIsMeasured => []FasterNeverPaysLess
<1>1. GivenIsRecorded /\ GivenIsMeasured /\ [Next]_<<given, answer>>
        => GivenIsRecorded' /\ GivenIsMeasured'
  BY GivenStays DEF GivenIsRecorded, GivenIsMeasured
<1>2. GivenIsRecorded /\ GivenIsMeasured /\ AnswerIsTheRule => FasterNeverPaysLess
  <2> SUFFICES ASSUME GivenIsRecorded, GivenIsMeasured, AnswerIsTheRule, Answered("raw file"),
                      NEW r \in given.records, r.variant = "candidate", r.root > 1,
                      Score(Faster(given, r), FALSE).status \notin {"REFUSED", "SHAPE_OVERFIT"}
               PROVE  ~Less(Score(Faster(given, r), FALSE).credited, answer.credited)
    BY DEF FasterNeverPaysLess
  <2>1. /\ answer = Score(given, FALSE) /\ Recorded(given.records)
        /\ \A s \in given.records : s.repeat \in 1 .. Repeats
        /\ given = RawFile(given.records, given.held, given.correctness, given.determinism)
    BY DEF GivenIsRecorded, GivenIsMeasured, AnswerIsTheRule, Answered
  <2>2. PICK records, held, correctness, determinism :
          given = RawFile(records, held, correctness, determinism)
    BY <2>1
  <2>3. given.records = records
    BY <2>2 DEF RawFile
  <2>4. Recorded(records) /\ \A s \in records : s.repeat \in 1 .. Repeats
    BY <2>1, <2>3
  <2>5. r \in records
    BY <2>3
  <2>6. ~Less(Score(Faster(given, r), FALSE).credited, Score(given, FALSE).credited)
    BY <2>2, <2>4, <2>5, FasterCreditsNoLess
  <2> QED
    BY <2>1, <2>6
<1> QED
  BY <1>1, <1>2, AnswersByTheRules, PTL DEF AnyCase

-----------------------------------------------------------------------------
\* A slower card

\* A held-out cell that was measured in both arms was measured in the same repeats
\* of both, once in each, and no record of it is a failure.
HeldIsPaired == given.kind = "raw file" => Recorded(given.held) /\ HeldInPairs(given.held)

\* The receipt of the slower card, field by field.
LEMMA SlowerReceipt ==
    ASSUME NEW records, NEW held, NEW correctness, NEW determinism,
           Scored(records), \A r \in records : r.repeat \in 1 .. Repeats,
           Recorded(held), HeldInPairs(held), NEW n \in Nat \ {0},
           NEW raw, raw = RawFile(records, held, correctness, determinism)
    PROVE  /\ BuildReceipt(Slowed(raw, n)) = BuildReceipt(raw)
           /\ Slowed(raw, n).records = Stretched(records, n)
           /\ DOMAIN BuildReceipt(raw).cells = ScoredCells(records)
<1> DEFINE slow == Slowed(raw, n)
           cells == PerCell(records)
<1>1. /\ raw.records = records /\ raw.held = held /\ raw.correctness = correctness
      /\ raw.determinism = determinism
  BY DEF RawFile
<1>2. /\ slow.records = Stretched(records, n) /\ slow.held = Stretched(held, n)
      /\ slow.correctness = correctness /\ slow.determinism = determinism
  BY DEF RawFile, Slowed, SlowArm, Stretched
<1> HIDE DEF slow
<1>3. /\ PerCell(slow.records) = cells /\ Expansion(slow.records) = Expansion(records)
      /\ Complete(slow.records) <=> Complete(records)
  BY <1>2, RunScales
<1>4. DOMAIN cells = ScoredCells(records) /\ ScoredCells(records) \in SUBSET Cells
  BY CellsAreScored
<1> HIDE DEF cells
<1>5. Survived(cells, slow.held) <=> Survived(cells, held)
  BY <1>2, <1>4, SurvivalScales
<1> DEFINE agg == Aggregate(cells)
           delta == Expansion(records)
           status == DecideStatus(correctness, determinism, Survived(cells, held),
                                  Complete(records), agg.resolved, agg.gap, delta)
           receipt == [status |-> status, gap |-> agg.gap, resolved |-> agg.resolved,
                       delta |-> delta,
                       credited |-> IF status \in CreditingStatuses THEN agg.gap ELSE Zero,
                       cells |-> cells]
<1>6. BuildReceipt(raw) = receipt
  BY <1>1 DEF BuildReceipt, cells
<1>7. DecideStatus(slow.correctness, slow.determinism, Survived(cells, slow.held),
                   Complete(slow.records), agg.resolved, agg.gap, delta) = status
  BY <1>2, <1>3, <1>5 DEF DecideStatus
<1>8. BuildReceipt(slow) = receipt
  <2> HIDE DEF status
  <2> QED
    BY <1>3, <1>7 DEF BuildReceipt
<1>9. receipt.cells = cells
  OBVIOUS
<1> QED
  BY <1>2, <1>4, <1>6, <1>8, <1>9 DEF slow, cells

\* What the slower card must have in common with the card that answered.
SameWhenSlower(raw, answered, n) ==
    LET slow == Slowed(raw, n) IN
    /\ BuildReceipt(slow) = answered
    /\ \A c \in DOMAIN answered.cells :
        LET base == Group(slow.records, c, "base")
            cand == Group(slow.records, c, "candidate")
        IN Paired(base, cand) /\ Quiet(c, base) /\ AboveTheCeiling(c, base, cand)

\* The slower card's receipt, and what the guards of its cells say.
LEMMA SlowerScoresTheSame ==
    ASSUME NEW records, NEW held, NEW correctness, NEW determinism,
           Scored(records), \A r \in records : r.repeat \in 1 .. Repeats,
           Recorded(held), HeldInPairs(held), NEW n, n \in Nat \ {0},
           NEW raw, raw = RawFile(records, held, correctness, determinism),
           NEW answered, answered = BuildReceipt(raw)
    PROVE  SameWhenSlower(raw, answered, n)
<1>1. /\ BuildReceipt(Slowed(raw, n)) = answered
      /\ Slowed(raw, n).records = Stretched(records, n)
      /\ DOMAIN answered.cells = ScoredCells(records)
  BY SlowerReceipt
<1>2. \A c \in ScoredCells(records) :
        /\ Paired(Group(Stretched(records, n), c, "base"),
                  Group(Stretched(records, n), c, "candidate"))
        /\ Quiet(c, Group(Stretched(records, n), c, "base"))
        /\ AboveTheCeiling(c, Group(Stretched(records, n), c, "base"),
                              Group(Stretched(records, n), c, "candidate"))
  BY RunScales
<1> QED
  BY <1>1, <1>2 DEF SameWhenSlower

\* Whatever run the scorer accepts, a card that is slower throughout has the same
\* receipt, and only the guard on the anchor sees that it is slower.
THEOREM SlowerCardAlwaysScoresTheSame ==
    AnyCase /\ GivenIsRecorded /\ GivenIsMeasured /\ HeldIsPaired => []SlowerCardScoresTheSame
<1>1. GivenIsRecorded /\ GivenIsMeasured /\ HeldIsPaired /\ [Next]_<<given, answer>>
        => GivenIsRecorded' /\ GivenIsMeasured' /\ HeldIsPaired'
  BY GivenStays DEF GivenIsRecorded, GivenIsMeasured, HeldIsPaired
<1>2. GivenIsRecorded /\ GivenIsMeasured /\ HeldIsPaired /\ AnswerIsTheRule
        => SlowerCardScoresTheSame
  <2> SUFFICES ASSUME GivenIsRecorded, GivenIsMeasured, HeldIsPaired, AnswerIsTheRule,
                      Answered("raw file"), answer # Refused, NEW n \in {2, 3}
               PROVE  SameWhenSlower(given, answer, n)
    BY DEF SlowerCardScoresTheSame, SameWhenSlower
  <2>1. n \in Nat \ {0}
    BY SlowerBy
  <2>2. /\ answer = Score(given, FALSE)
        /\ Recorded(given.records) /\ Recorded(given.held) /\ HeldInPairs(given.held)
        /\ \A r \in given.records : r.repeat \in 1 .. Repeats
    BY DEF GivenIsRecorded, GivenIsMeasured, HeldIsPaired, AnswerIsTheRule, Answered
  <2>3. PICK records, held, correctness, determinism :
          given = RawFile(records, held, correctness, determinism)
    <3>1. given = RawFile(given.records, given.held, given.correctness, given.determinism)
      BY DEF GivenIsRecorded, Answered
    <3> QED
      BY <3>1
  <2>4. given.records = records /\ given.held = held
    BY <2>3 DEF RawFile
  <2>5. answer = BuildReceipt(given) /\ Computable(given.records, FALSE)
    BY <2>2 DEF Score
  <2>6. Scored(records) /\ \A r \in records : r.repeat \in 1 .. Repeats
    BY <2>2, <2>4, <2>5 DEF Computable, Scored
  <2>7. Recorded(held) /\ HeldInPairs(held)
    BY <2>2, <2>4
  <2> QED
    BY <2>1, <2>3, <2>5, <2>6, <2>7, SlowerScoresTheSame
<1> QED
  BY <1>1, <1>2, AnswersByTheRules, PTL DEF AnyCase
=============================================================================
