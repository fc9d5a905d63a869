# A verification project for Burnisher

Burnisher is a C++/CUDA text-to-image runtime and, around it, a Python evaluator that measures
contributed kernels, records every measurement in an append-only ledger and pays for verified gains
through labels on pull requests. This directory holds TLA+ specifications of the parts of it that
several actors touch at once, the TLC runs that check them and the TLAPS proofs about them.

## The system

| component | code | state | operations |
|:--|:--|:--|:--|
| Ledger | `eval/burnscore/ledger.py` | `receipts/*.json`, `current.json` | append a receipt, recompute the totals, show, audit |
| Challenges | `eval/burnscore/challenge.py` | `challenges/*.json` | attach a counter-receipt, decide whether a credit is held |
| Receipts | `eval/burnscore/receipt.py` | none | decide the status, build, verify |
| Command line | `tools/burnish` | none | `score`, `challenge`, `ledger` and the offline tools |
| Round | `eval/round.py`, `eval/run_round_cron.sh` | the round's queue and results, its lock | synchronise holds, freeze, evaluate, merge one, send the rest back |
| Pull request bot | `eval/pr_bot.py`, `eval/burnscore/verdict.py` | labels on GitHub, `evaluations/*.json` | decide who is due, evaluate, label, comment, record |
| Locks | `eval/runner.py`, `eval/round.py` | two lock files, the device | exclude rounds and benchmarks |
| Copycat guard | `scripts/copycat_guard.py`, `eval/burnscore/copycat.py` | observations and blocks | record who was first, judge, block, lift |
| Other guards | `scripts/instrument_guard.py`, `scripts/reregistration_guard.py` | none | classify a diff |
| Score pipeline | `eval/score_submission.sh`, `gate.py`, `bench.py`, `runner.py` | gate cache, work directory | gate both arms, bench, score |
| Scoring arithmetic | `eval/burnscore/{compute,frontier,floor,...}.py` | none | floors, Pareto front, bootstrap, status |
| Publishing | `eval/publish_ledger.py` | a git repository | commit and push the ledger |
| Offline tools | `calibrate.py`, `cartography.py`, `make_generation.py`, ... | files | one-shot |
| Runtime | `src/`, `include/`, `tools/burnisher_main.cpp` | device memory, registry, solver history | load, encode, denoise, decode |

Cron starts a round every two hours. The round asks the ledger which credits are held and moves the
holds to the labels, lists the open pull requests, keeps the ones that are due (the bot's records
and the labels decide), and evaluates them oldest first until its slots are spent. An evaluation runs
the guards, builds, and calls the score pipeline, whose last step appends a receipt to the ledger and
recomputes `current.json`. The bot then labels, comments and records; the round merges or labels the
largest gain and sends the other gains back. Operators file counter-receipts with `burnish challenge`
at any time; contributors push and edit at any time; maintainers clear and merge at any time.

**What is hard.** The files have no locks and every write is a truncation and a write, so commands
interleave and processes die between the steps. A script that is timed out leaves its stage running,
and every jailed command ends by killing whatever runs as the same account, another evaluation's
build or benchmark included. The box is rented and may be lost with what was not pushed. An answer is a label, a comment and a record on two
systems, any of which may fail. Labels are read by later rounds and by people long after they were
set. Retries, clearances, holds and rebases compose over many rounds. Whether a number pays is decided by
a chain of guards, floors, intervals and weights in which each part is tested and their composition
is not.

**What makes it correct.** The ledger never loses or rewrites evidence, counts only independent
evidence, and its totals catch up with it. A credit is paid once per baseline, to the largest gain of
a round, for a receipt the ledger has, and not while it is held or under review. Every commit is
answered, and no commit is measured for ever. A receipt is of a gated build and of complete pairs of
runs that had the device to themselves. Whoever is blocked as a copycat copied something that was on
record. Nothing a submission can add, drop or slow down earns credit it did not measure.

## The modules

| module | what it is |
|:--|:--|
| `LedgerRules` | the pure rules: what may be filed, agreement, holds, totals |
| `LedgerPromise` | what the ledger promises a reader, without files or processes |
| `Ledger` | the files and the processes that write them; extends `LedgerRules` and implements `LedgerPromise` |
| `MCLedger` | receipts and counter-receipts for its runs |
| `LedgerProofs` | type correctness, independent evidence, nothing is rewritten, what ends a hold, and that `Ledger` implements `LedgerPromise` |
| `Round` | rounds, labels, records and everybody else |
| `MCRound` | names for the sets its runs choose from |
| `RoundProofs` | type correctness, the receipt behind a paid label |
| `RoundCredit` | withheld gains, the best and only merge, one credit per baseline, attempts |
| `Publishing` | the ledger's git repository: commit, push, clone |
| `Evaluation` | builds, stages, the device, the gate cache and label requests of several processes on one box; extends `Publishing` |
| `ReceiptPromise` | what the measuring promises, without guards, stages, processes or faults; `Evaluation` implements it |
| `MCEvaluation` | submissions for its runs |
| `EvaluationProofs` | type correctness, exclusion on the device; receipts are gated and paired, the cache, what was published, one outcome, and that `Evaluation` implements `ReceiptPromise` |
| `CopycatRules` | how the guard judges a diff against observations |
| `Copycat` | the corpus, the block log and the guard's runs |
| `MCCopycat` | two authors and what they push |
| `CopycatProofs` | type correctness, append-only observations, lasting blocks and their evidence |
| `Intake` | instrument guard, re-registration guard, candidate arm, the order they are asked in |
| `FrontierRules` | Pareto front, hypervolume, what a portfolio gains |
| `Scoring` | from raw records to a receipt; uses `FrontierRules` |
| `Calibration` | sessions, floors and their merge, a score under an anchor, a proposed cell |
| `MCRules` | bounded inputs for the four, a reference for each answer, and the properties |
| `FrontierProofs` | sums and products over finite sets, and the hypervolume of any portfolio |
| `ScoringProofs` | fractions and their totals, cells, runs and resamples; a faster run, a slower card |
| `RulesProofs` | the guards, the candidate arm and the scorer, for every input; extends `MCRules` and `ScoringProofs` |

### Ledger

A file is `Absent`, `Torn` (truncated by `write_text` and not yet written) or its content. Each
process has a program counter; one step is one file operation, or the reading of everything
`update_current` reads. `AppendReceipt`, `OpenReceipt`, `WriteReceipt` are `append_receipt`;
`FileChallenge`, `OpenChallenge`, `WriteChallenge` are `cmd_challenge` and `attach`;
`ComputeCurrent` (or `UpdateFails`, when a file does not parse), `OpenCurrent`, `WriteCurrent` are
`update_current`; `SyncHolds` starts it at the beginning of a round, and `Show` starts it without
the challenges, as `burnish ledger show` does. `Crash` loses the process at any step and keeps the
files. A call that only reads or is refused changes nothing and is not a step.

Abstractions. A receipt is a record of the fields the rules read; `stamp` stands for everything
else under the digest. `gap_remaining_fraction` is a product over exactly the set `paid`, so the
document is the four sets. Reading all files is one step: a reader that saw half of another's files
computes totals of fewer receipts, which `LedgerPromise` allows and later steps cannot distinguish
from having read earlier. The four non-crediting statuses that appear stand for all of them. A
challenge for a generation that is not in the operator's tree, after which nothing is recomputed, is
left out.

### Round

`gh` is what GitHub knows of each pull request, `record` and `receipts` what the disk does,
`disputed` which receipts the ledger holds (`Held` of `LedgerRules`, whose evolution `Ledger`
models). A commit and a description are numbers. What the guards, the build and the benchmark say
is chosen from `Kinds` in `Take`, except what the ledger decides: a score for a pull request that
has a receipt is the refusal of `append_receipt`, hence `score error`. One step is one operation of
the bot on GitHub or on the disk: the label, then the comment (with the closing of a copy), then the
record. `set_label` asks for the deletion of each old label and ignores a DELETE that fails
(`check=False`), so that `SetLabel` may leave any of them beside the new one; when another of its
requests raises, or the round dies in it, `LabelFails` and `Crash` have what is left: all old labels,
or those whose DELETE failed, without the new one. `kept` remembers which labels stand because their
DELETE failed, for the properties to tell them from those the round set; no action reads it. `Crash`
ends the round anywhere. `tries` counts the evaluations of a pull request nobody has changed since; it is
read by a property only, and so is the test in `StillAsFrozen`.

`queue` and `todo` are sets, and `Before` has the order of the code's lists: `Oldest` and `First` take
what is next. `todo` holds the labels still to be set, first for holds and releases, later for the
gains sent back.
The label and the comment of one such entry are one step when they succeed, and `SyncFails` and
`SendBackRaises` have the case where the label went through and the comment did not.

Abstractions. A paid label is `"gap"` whatever its number, and every measured status that pays nothing
is `"unpaid"`. One receipt per pull request is what the ledger's ids allow; an operator's correction
under another id is in `Ledger` and not here. The reading of the queue and of the labels is one step.
A second round finds the lock taken and does nothing.

### Evaluation

Each evaluator (a round or a pass of `pr_bot`) has a program counter `ev`, each process that may use
the device a `stage`: gate, bench or calibration, from the check of the device (`Enter`) through
`GpuLock` (`Lock`), `require_idle_device` (`IdleCheck`) and `run_once` (`Launch`, `RunEnds`,
`RunFails`) to its exit code. `Begin`, `Unpack` and `Build` are `_evaluate` up to the binary;
`Start`, `GateBase`, `OpenCache`, `WriteCache`, `NextStage` and `Score` are the lines of
`score_submission.sh`, `CheckCell` and `NextStage` those of `cartography.py`; `ReadLabels`,
`DeleteLabel`, `AddLabel` and `LabelRaises` are `set_label`, whose DELETE may fail and leave the label
(`kept`, as in `Round`) and whose other requests may raise; `CommitLedger` and `PushLedger` are the end of a round.
`Timeout` gives the stage of a script to one of `Orphans`, because `subprocess.run` kills the script
and not its children. `Killed` and `BuildsKilled` are `kill_leftovers`: the mark `hit` says that a
process has been killed and has not noticed yet. `BoxStops` loses processes and locks and keeps the
files; `BoxLost` loses the files too, and the next box clones what was pushed.

Abstractions. What a build does is chosen once, in `Init`, from `Submissions`: whether it builds, and
how the latents of its two arms compare with the oracle (`Behaviours`). Records of a bench are the
arms they are of. The candidate's gate and the bench read the files of the same work directory. An
orphan's report goes to a directory nobody reads. Guards, records and clearances are in `Round`,
`Intake` and `Copycat`; `Due` is `needs_evaluation` without them. The receipt and its raw file are one
step here, while the code copies the raw file later.

`ReceiptPromise` has three steps: `Measure` files one whole receipt, `Publish` shows some of what is
filed, `LoseBox` forgets what was not shown. Nothing in it says how a build comes to deserve a receipt,
so it fails for any cache, retry, timeout or fault that lets one through.

### Copycat

`corpus` is the directory of observations by file name, `blocks` the log. A run of the guard lists
the pull requests (`List`), reads the corpus (`Observe`), looks for its own file (`CheckEntry`),
truncates and writes it (`OpenEntry`, `WriteEntry`), judges (`JudgeIt`), appends a block
(`AppendBlock`) and closes (`ClosePR`); evaluators may die at any of them. Pushes, rebases, branches
stacked on others, merges, reopenings and clearances come from outside. Code is a set of parts with a
mass in fingerprints; tokenising, k-grams and winnowing are what makes two texts the same part.
Thresholds are the code's percentages and `MinMass`, `EmbedMin` and `TinyMin`.

### Intake, FrontierRules, Scoring and Calibration

These keep no state. `Intake` has trees (paths and contents), registrations and function bodies, and
`Route` is the order of `_evaluate`: guard, re-registration, candidate, measurement. `Scoring` works
on raw records: `Computable` has the refusals of `compute`, `ScoreCell` the gap, interval and floor of
a cell, `Aggregate` the weighted sum, `CellFrontier` and `Expansion` the portfolio, `HeldUp` the
held-out shape, then `DecideStatus` and `BuildReceipt`. All arithmetic is on exact fractions. A latency
is `root ^ Repeats`, so that the geometric mean of the declared repeats is an integer; the held-out
shape is measured in a number of repeats of its own (`bench.py` takes two there when three are
declared), so `HeldUp` compares products of seconds with the power of the floor that belongs to that
number. The bootstrap draws every resample there is instead of a seeded twenty thousand, and its 99%
interval ends at the extremes: of two or three repeats the rarest resample has a probability of 1/27,
more than the 0.5% left out at either end. From four on this is not so, and `CellsAssumption` says
`Repeats \in 2 .. 3`; the generation declares three. `Calibration`
gives the anchors `Scoring` takes as constants, and instantiates it with them.

## The runs

The bounds are the values in each `.cfg`; the constants that only bound the state space are
`MaxCrashes` in `Ledger`, `MaxHeads`, `MaxBodies`, `MaxFaults` and `MaxDisputes` in `Round`,
`MaxTries` and `MaxFaults` in `Evaluation`, and `MaxHeads`, `MaxTime`, `MaxLifts` and `MaxFaults` in
`Copycat`. In `Record` the count of attempts stops at one above `MaxAttempts`, which changes no
comparison. Deadlock is checked where a new round may always start. It is not in `copycat`, where
the bounded contributors stop and the guard has nothing left to do, nor in `rules`, where a case is
over once it is answered.

| run | states | what it explores | what it shows |
|:--|--:|:--|:--|
| `ledger` | 20 889 | a scorer (a new commit, a correction, a receipt that does not verify), an operator (disputing and confirming counter-receipts of three cards), one death | nothing filed is rewritten, evidence is independent, a hold falls only to agreeing measurements, `LedgerPromise` is implemented, totals are repaired |
| `round_rules` | 3 123 899 | two slots, `--merge`, two gains, pushes, clearances, copies, reviews, re-registrations, guard errors | one credit per baseline, the largest gain is merged, evaluations are bounded, a gain under review is neither paid nor merged |
| `round_by_hand` | 7.3 million | two slots, no `--merge`: pushes, edits, disputes and releases, a person who merges, one failed request, ignored DELETE or death | a paid label has a receipt that pays, `merge-first` stands only beside it unless its own DELETE was ignored |
| `round_live` | 1 953 995 | one slot, `--merge`: pushes, closings, disputes and releases, copies, guard errors, one failed request, ignored DELETE or merge conflict | every last commit is answered, holds and releases reach the labels, also of merged pull requests, and no two merges are credited against one baseline |
| `evaluation` | 3.5 million | two pull requests of eight sorts, two rounds, an orphan, two tries, two faults of eight kinds | receipts are gated and paired, the cache serves gates that passed, one outcome per pull request besides those whose DELETE failed, what was published stays known, `ReceiptPromise` is implemented |
| `evaluation_live` | 91 thousand | a round, an operator's calibration, an orphan, a person on the device, two faults of nine kinds | one runtime on the device, every evaluation ends, receipts are published |
| `copycat` | 6.6 million | two authors, one of whom may submit the other's code alone or inside more; three commits, a clearance, lift or reopening, one death or failed request | blocks rest on what is on file, hold until lifted, and no observation is rewritten |
| `rules` | 116 842 | diffs of nine files against two mains; two registrations of two operators; raw files of two cells with two repeats, whole and damaged; two sessions of calibration and bases that wander; up to four points in one to three objectives | the nine properties below |

`rules` answers each case in one step, and its invariants compare the answer with an independent
statement of what the rule is for, or with the answers to neighbouring cases:
`RulerIsKept` (a pull request that passes the guard merges without changing what decides a
measurement), `MeasuredIsNewWork` (the candidate arm runs a kernel main does not have),
`CreditIsEarned` (what credit takes, stated without the scorer's operators for floors and intervals),
`DroppingNeverPays`, `FasterNeverPaysLess`, `UnresolvedAddsNothing`, `SlowerCardScoresTheSame` (a card
four or nine times slower has the very same receipt, and of the guards only the one on the anchor may
refuse it), `WorstFloorOnlyRefuses` (a merged floor credits no more than the last session's, and nothing
where that one refuses, unless it hides a loss, an overfitted cell or a base too noisy for the last
session) and `VolumeIsExact` (inclusion and exclusion, the staircase and the line, against counted unit
boxes).

Why the bounds are enough for what they ask. Two processes are what races in the ledger: an update
is lost, or a check outrun, between two. Three cards are needed to dispute a receipt and to release
it; two ids and a correction cover a superseded receipt. In `Round` two pull requests compete for
the merge and the rebase; two commits are one push; one fault shows every partial failure, and later
rounds run on what it left; two changes of standing are a hold and its release. `round_live` uses one
slot so that the oldest can starve the youngest if anything can. `MaxAttempts` is 2 (3 in the code)
where attempts are counted and 1 in `round_by_hand`, which has no guard errors; its only evaluator
errors are refused receipts and raised labels. In `evaluation` two prompts tell a gate that looks at
all of them from one that looks at the first, two replays are what a digest needs to differ, one
paired repeat and two at the held-out shape are enough to lose the turn of the arms, two faults are a
timeout and a death on what it left, and two tries the second receipt. In `copycat` three commits are
an original, a copy and one push more. In `rules` two cells are one that resolves beside one that does
not, and the third, which nobody implemented, must not count.

**What the passing runs leave out.** Each leaves out the inputs that are known to break it; the
next section has them. `round_rules` has no faults, no disputes and no answer that raises or is
unmeasured; `round_live` has no death and none of those answers either; what `round_by_hand`,
`round_live` and `evaluation` say of labels they say of those whose DELETE did not fail; `ledger` has one scorer, as
the theorems do, and counter-receipts that always share a cell with their receipt. `evaluation` has
no pass of `pr_bot` beside its rounds, which breaks `OneOutcome` only; `copycat` has one evaluator;
`rules` has no renames and no two kernels under one name.

**Fairness.** `FairSpec` of `Ledger` asks that a process which has begun a call goes on and that
rounds go on starting (`SyncHolds`), because cron starts them; it asks nothing of operators.
`FairSpec` of `Round` asks the same of the round and nothing of contributors, maintainers or
challengers. `FairSpec` of `Evaluation` asks that stages and scripts go on, that rounds start, and
that a person on the device leaves it: `GpuLock` waits without a limit, so without the last one
nothing ends. It asks nothing of operators, passes or faults. None of them asks that a request or a
push ever succeeds; the number of faults is bounded instead. A lock that is free is taken by anyone
who waits; weak fairness is enough because everybody else's tries are bounded.

### Where the code and its documents differ

Each of these runs checks one statement of a document, comment or test of the repository, and TLC
finds a behaviour of the code without it. `PROJECT.json` has the lines.

| run | property | what happens |
|:--|:--|:--|
| `ledger_lost_update` | `FreshWhenIdle` | `burnish ledger show` beside a score, with no `current.json` yet: both compute the totals, and `show` writes the older ones last, without the receipt |
| `round_new_commit` | `EveryAnswerIsAScore` | the second scored commit of a pull request ends in `eval-error` |
| `round_merged_head` | `MergedHeadWasMeasured` | a commit pushed during the round is merged unmeasured |
| `round_release` | `ReviewIsWithheld` | a dispute and its release pay a gain that was under review |

Further configurations reproduce, one input at a time, what the passing runs leave out. TLC finds the
property violated in each (`tlc -config <configuration>.cfg`, with the module of its prefix).

| configuration | property | what happens |
|:--|:--|:--|
| `MCLedger_two_scorers` | `AppendOnly` | two evaluators of one pull request overwrite each other's receipt |
| `MCLedger_empty_counter` | `ReleaseIsMeasured` | a counter-receipt with no cell in common releases a hold |
| `MCRound_cleared` | `ClearanceIsHonoured` | a cleared copycat review ends in `eval-error`: its receipt is already filed |
| `MCRound_timeouts` | `EvaluationsAreBounded` | an evaluation that raises sets no label and is repeated in every round |
| `MCRound_unmeasured` | `EvaluationsAreBounded` | so is a cartography submission that cannot be measured |
| `MCRound_lost_record` | `EveryHeadIsAnswered` | a death between label and record leaves a pull request nothing makes due |
| `MCRound_release_rebase` | `OneCreditPerBaseline` | a dispute and its release pay a gain that was sent back for a rebase |
| `MCRound_closed` | `OneCreditPerBaseline` | a winner closed before its merge stays paid and the next round pays against the same `main` |
| `MCRound_two_winners` | `NoDoublePay` | by hand, two rounds name two winners against one `main` |
| `MCRound_lost_comment` | `MergesTheBest` | a failed comment drops the larger gain, which stays paid, and merges a smaller |
| `MCRound_kept_label` | `HeldReplacesPaid` | a gain is put on hold, the DELETE of its paid label fails and is ignored, and the label stands beside `held` with nothing to remove it |
| `MCEvaluation_two_evaluators` | `OneOutcome` | a pass of `pr_bot` beside a round leaves two outcome labels |
| `MCEvaluation_build_fail` | `BuildFailIsTrue` | the end of an orphaned stage kills a build, which is answered `build-fail` |
| `MCEvaluation_verdicts` | `CacheIsTheRun` | the base arm's gate of one build is served to another whose base arm fails |
| `MCEvaluation_verdicts` | `GateFailureIsFinal`, by itself | a candidate that fails its gate ends the script, which is answered `eval-error` and measured again |
| `MCEvaluation_verdicts` | `CellIsJudged`, by itself | somebody starts a program on the device and a sound cell is answered `partial` |
| `MCCopycat_rebased` | `ObservedFirstIsNotBlocked` | the author seen first rebases and is blocked for his copy |
| `MCCopycat_stacked` | `StackedIsNotBlocked` | a pull request is blocked as a copy of the branch stacked on it, which was evaluated first |
| `MCCopycat_torn` | `GuardRecovers` | a death while an observation is written ends every later run of the guard |
| `MCCopycat_two_guards` | `CorpusIsAppendOnly` | two runs on one commit write its observation twice |
| `MCRules_guards` | `RulerIsKept` | a file of the instrument that is renamed away passes the guard |
| `MCRules_guards` | `MeasuredIsNewWork`, by itself | a kernel that takes the name of one of main's for another operator is measured together with that one |
| `MCRules_documents` | eight, one at a time | each is a sentence of the code, quoted above its property in `MCRules` |

The eight of `MCRules_documents`: `CrashedGuardIsNoPass` (a guard that crashes leaves no report, and
the bot reads that as a contributor's change), `OnlyChangesAreBlocked` (a branch older than another
cartography is blocked for the entry it lacks), `NoHeldOutNoCredit` (a raw file without held-out
records is credited), `NoiseDoesNotBlock` (an unresolved cell moves the frontier), `MergingOnlyRefuses`
(a worse floor hides a loss or an overfitted gain as well, and scores a base that the last session would
refuse as too noisy), `WorstOfSessions` (a cell that one session
leaves out forgets its floors), `ControlIsNotCredited` (a control off centre by more than it wanders is
a gain), `OpenedIsMeasured` (a cell that beats its ceiling is opened unmeasured).

## The proofs

All of them use only the named assumptions on the constants, which the runs evaluate, and the
assumptions said here.

### The ledger

`tlapm LedgerProofs.tla` checks the following for every set of ids,
cards, receipts and counter-receipts, and any number of crashes.

* `TypeCorrect`: `Spec => []TypeOK`, for any number of processes.
* `IndependentEvidence`: `Spec => []EvidenceIsIndependent`.
* `NeverRewritten`: `Spec => AppendOnly`.
* `HoldsNeedAgreement`: `Spec => ReleaseNeedsAgreement`.
* `LedgerKeepsPromise`: `Spec => PromiseKept`, the refinement of `LedgerPromise`.

The last four assume `OneOfEach`: at most one scorer and at most one filer. They may be two
processes that interleave, or one. The round's lock gives the first half, provided nobody runs
`pr_bot` or `burnish score` beside it; `MCLedger_two_scorers` shows what happens otherwise, so the
assumption cannot be dropped.

None of the properties is inductive by itself: between the check for a file and its write the
process remembers a fact about the directory. `WriterInv` says what it remembers: the file it is
about to open is still absent, the one it has opened is still torn, and the receipt a challenge was
compared with is still filed and still fits. With it no write touches anything filed (`Appends`).
Disputes are therefore only added, and by counting both sides a hold that falls has gained a card
that agrees; its measurement is the one file whose content landed in that step (`EvidenceLands`).
`RefinementInv` adds that what is being filed was verified, and that a document computed and not yet
written, however late it is written, is the totals of records and challenges the ledger has:
`DocKnown`, which survives other processes' steps because the ledger only grows (`SeenLater`). Each
write of content is then the step of the promise with its name, the truncation of a receipt or a
challenge is invisible to a reader, and that of `current.json` is `Unreadable`.

### The evaluation

`tlapm EvaluationProofs.tla` checks the following for any number of pull
requests, rounds, passes, operators, orphans, repeats, tries and faults.

* `TypeCorrect`: `Spec => []TypeOK`, by `Typed`, which adds that whoever is past `Begin` has a pull
  request.
* `ExclusiveDevice`: `Spec => []DeviceIsExclusive`, by `Locked`: whoever is between `Lock` and its
  last run is the holder of the lock. A timeout moves stage and lock together; the end of a stage
  gives the lock back only if it was its own.
* `PairedReceipts`: `Spec => []ReceiptsArePaired`, by `Alternating`: the records of a stage are in
  turn and fewer than it needs, those of a work directory and of a receipt are none or all.
* `GatedReceipts`: `Spec => []ReceiptsAreGated`, by `Judged`: a `PASS` in a work directory or in the
  cache is of latents that were right, and a bench past `Enter` has two of them. It needs that a
  script's place and its stage agree (`InStep`) and that what is measured was built (`Built`).
* `CachedGates`: `Spec => []CacheServesPasses`, by `Cached`: an evaluator that is about to fill the
  cache, or whose gate has just ended well, holds a `PASS` of its own build (`InHand`). Two may fill it at once.
* `KnownReceipts`: `Spec => []PublishedIsKnown`, by `Known`: histories only grow, and all of them is in
  the ledger of the box, a new box's too.
* `MeasuringKeepsPromise`: `Spec => ReceiptPromiseKept`, the refinement of `ReceiptPromise`. The
  mapping takes the records behind each receipt as they are, the pull requests that build and whose
  gates really passed for those that deserve one, and the last published commit for what everybody
  can see. A script's place is not enough to know that there is something to score: `InHand`, in
  `Cached`, carries the records from the end of the bench to `Score`, through the death or the
  timeout of everybody else, and `InLedger` says that the ledger's directory has the receipts and
  nothing else. `Score` is then the one step that measures, or is refused; `Push` is the one that
  publishes, and `Known` says that it takes nothing back; `BoxLost` forgets what was not published;
  every other step is invisible.
* `RoundsGiveOneOutcome`: `Spec => []OneOutcome`, by `Labelling`: whoever is not idle holds the round's
  lock, and the labels a relabelling finds are the ones it read. A label that `set_label` failed to delete
  stands beside the new one and is not counted.

`GatedReceipts`, `CachedGates` and `MeasuringKeepsPromise` assume `Prompts > 1`: with one prompt a gate cannot tell an arm that
is wrong only on later ones. `RoundsGiveOneOutcome` assumes `Passes = {}`;
`MCEvaluation_two_evaluators` shows that it must.

### The round

`tlapm RoundProofs.tla` and `tlapm RoundCredit.tla` check the following for any number of pull
requests, slots, commits, descriptions, faults and disputes.

| theorem | states | assumes | without it |
|:--|:--|:--|:--|
| `TypeCorrect` | `[]TypeOK` | | |
| `ReceiptBehindLabel` | `[]PaidHasReceipt` | | |
| `MergeFirstBesidePaid` | `[]MergeFirstIsPaid`: of each merge-first whose own DELETE did not fail | | |
| `MergedIsPaid` | `MergesThePaid` | | |
| `MergedOncePerBaseline` | `[]NoDoublePay` | `--merge` | `MCRound_two_winners` |
| `WithheldUnderReview` | `[]ReviewIsWithheld` | nobody disputes | `round_release` |
| `BestIsMerged` | `MergesTheBest` | `--merge`, no request or DELETE fails, no evaluation raises | `MCRound_lost_comment` |
| `CreditedOnce` | `[]OneCreditPerBaseline` | `--merge`, nobody closes or disputes | `MCRound_closed`, `MCRound_release_rebase` |
| `AttemptsAreBounded` | `[](faults = 0 => EvaluationsAreBounded)` | no answer that raises or is unmeasured | `MCRound_timeouts`, `MCRound_unmeasured` |

The assumptions are about who acts and what fails, never about how many there are. `MergesThePaid` says
that what is merged is paid, or merged by hand by a merge-first whose DELETE had failed: a merge-first is
deleted when its pull request is put on hold or answered anew, and if that fails it stands beside the new
label for a person to follow. A paid label that stays the same way has its receipt all the same
(`ReceiptBehindLabel`).
`OneCreditPerBaseline` speaks of states in which no round runs and nothing has failed yet.
`MergesThePaid` and `MergesTheBest` differ in what the merged gain is compared with: the first with the
round's list of results, whatever failed while it was made, the second with every paid label among the
answered.

All of them rest on `PaidInv`: the types, that an evaluation that raised is never about to be labelled
(`Typed`), and `PaidFacts`. `PaidHasReceipt` is not inductive, because a round sets a label it decided
on many steps before. `PaidFacts` says what is true of each of those decisions while everybody else acts:
no pull request is in two hands of the round at once (`HandsApart`), the answer about to be labelled is
the ledger's (`JobIsFiled`), every result is of a receipt that pays and keeps its label
(`ResultsArePaid`), and a release in `todo` is of a receipt that pays (`TodoIsFiled`).

* `WithheldInv` adds that a review has a receipt from its answer on, which has every later score refused
  (`ReviewStands`, `JobIsFresh`), and that nothing is held to be released (`NothingHeld`).
* `BestInv` adds that a paid label set in this round is in its list (`LabelsAreResults`).
* `CreditInv` adds, until something fails, that who is paid is merged, except for what the round has in
  its list or is about to send back (`PaidIsMerged`, `RoundIsCurrent`, `LosersAreSentBack`), that a
  round's base is the present `main`, and that every merge was against one that is past
  (`BasesAreSpent`).
* `MergeInv` needs less, and survives every fault: while a round measures or merges, its base is `main`
  (`BaseIsMain`), and receipts of merged pull requests have different bases (`MergesAreApart`).
* `AttemptsInv` adds, until something fails, that whoever was answered by anything but an error, a copy
  or a re-registration stays answered, and that errors are counted in the record (`AnswersAreFinal`).

### The copycat guard

`tlapm CopycatProofs.tla` checks the following for any number of pull requests, authors and pieces of
code, and every order of pushes, rebases, merges, deaths and runs.

* `TypeCorrect`: `Spec => []TypeOK`, by `Typed`.
* `BlocksHold`: `Spec => BlocksHoldUntilLifted`: the log only grows, and of two records of one account
  the later decides (`LatestDecides`).
* `ObservationsStay`: `Spec => CorpusIsAppendOnly`.
* `BlocksHaveEvidence`: `Spec => []BlocksAreEvidenced`.

The last two assume `OneAtATime`, one evaluator; `MCCopycat_two_guards` shows what two do.
`BlocksAreEvidenced` compares a record of the log with files that were read three steps before it was
written, in between which commits are pushed and files written. `FileInv` carries the evidence over:
no commit on file is newer than the newest push (`HeadsAreOld`), a commit has one version of the code, in
its branch, in a listing and on file (`HeadsAreCode`), and a run remembers what is on file, its own
entry included (`AtRecord`), so that what it concludes is borne out by files that only grow
(`BlocksAreBorne`).

### The rules

`tlapm FrontierProofs.tla`, `tlapm ScoringProofs.tla` and `tlapm RulesProofs.tla` check the following for
every pull request, raw file and portfolio. `RulesProofs` extends `MCRules` to name its properties, and
proves them of `AnyCase`, which is `MCRules` without `Init`: what is given is any value that fulfils the
assumption of the theorem, and the bounded inputs of the runs are some of these (`RunsAreCases`; TLC
finds the assumptions true of all of them).

* `GuardKeepsTheRuler`: a pull request the instrument guard does not block, and that merges without a
  conflict, fulfils `KeepsTheRuler`, whatever main has become since. What it changes of the ruler is on
  the guard's list (`ChangesAreListed`), what is on the list is opened or excused (`ListedIsOpened`),
  and what is excused adds only entries of generations that the merge brings (`EntriesAreOpened`,
  `OpenedExists`). It assumes that no such file is renamed away and that main has its tolerance file.
* `MeasuredRunsNewWork`: the candidate arm of a pull request that is routed to the measurement runs
  something the base arm does not, and all of that is new work. It assumes that the candidate takes no
  name of a kernel of main's, and that no maintainer has cleared the pull request.
  `MCRules_guards` breaks both theorems without their assumptions.
* `RulerAlwaysKept` and `MeasuredAlwaysNew` are `AnyCase => []RulerIsKept` and `AnyCase => []MeasuredIsNewWork`
  from them, for what is given (`GivenIsMerged`, `GivenIsNamed`).
* `CreditIsOfAWholeRun` and `DroppedIsUncredited`: what a credit needs and a run without one of the cells
  does not have, for partial scoring too.
* `DroppingNeverEverPays`: `AnyCase => []DroppingNeverPays`: nothing is the least a run is credited.
* `UnresolvedAlwaysAddsNothing`: `AnyCase => []UnresolvedAddsNothing`. A cell that did not resolve is credited
  zero, and so is the copy of its base, whose every resample is a gap of zero.
* `HypervolumeIsExact`, and from it `VolumeIsAlwaysExact`, `AnyCase => []VolumeIsExact`: for any number of
  points and objectives the volume computed is the number of unit boxes above the corner that some
  point covers. The Pareto front covers what its portfolio covers. Inclusion and exclusion over the
  front is a sieve: one more box adds what it has and takes away what it shares (`OneMoreSieve`). The
  staircase is disjoint slabs, one per point, as deep as the step to the next one (`SlabIsCounted`);
  on a line only the greatest counts.
* `CreditIsAlwaysEarned`: `AnyCase => []CreditIsEarned`. A resample may draw one repeat every time, so an
  interval above the floor has every repeat of the candidate faster, by that much; the anchor refuses
  what is faster than the ceiling, so a gap is at most the whole; a larger volume takes a point the
  base's front does not cover; and a weighted mean of shares is a share.
* `FasterNeverEverPaysLess`: `AnyCase => []FasterNeverPaysLess`. All fractions of two runs have a common
  denominator, over which they are integers (`IsOf`, `TotalOnScale`). Every draw of the faster run has a
  gap as large, so its interval moves up; what a cell has beyond its floor, and zero if it did not
  resolve, grows even where a cell starts to resolve or ceases to, so the run resolves still
  and its mean is as large; and its points cover what the others did, so the frontier still moves.
* `SlowerCardAlwaysScoresTheSame`: `AnyCase => []SlowerCardScoresTheSame`. Every product of a card n times
  slower has the factor `n^Repeats`. Euclid's algorithm on multiples gives the multiple (`GCDScales`),
  so the reduced gaps of all resamples are equal, and with them the interval, what resolves and the mean.
  The tests of spread, ceiling and held-out shape compare products of equal degree, and volumes stand in
  the proportion of one box to the boxes it is divided into.

The theorems about scores are for any number of cells and, by `CellsAssumption`, two or three repeats of
each arm; the number at the held-out shape is free. From `DroppingNeverEverPays` on, they are about what
the harness writes: `GivenIsRecorded` (finitely many records of positive times), `GivenIsMeasured`
(repeats numbered from one to the declared number, determinism one of its three values), `HeldIsPaired` (the
same held-out repeats in both arms, once each, of positive times)
and, for unresolved cells, `BaseReports` (a base arm reports its memory at least once). `bench.py` writes
one record for each repeat and arm of `interleave`, at least two at the held-out shape. None of them says
that a run is whole, paired or successful; the guards of the scorer do. `GivenIsAPortfolio` has points
between the corner and the top of the space.

Sums, products and the greatest common divisor are recursive functions over sets and numbers. That such
a function exists at all is proved first, without an induction rule: if it failed for some finite set or
number, it would fail for a least one (`LeastSubset`, `LeastNatural` in `FrontierProofs`), and the one
before that extends to it. `PartSums`, `PartProducts` and `PartTotals` then give them one element at a time, in any order.

### Only model-checked

The liveness properties, which are out of the prover's reach (`EventuallyFresh`, `EveryHeadIsAnswered`,
`HoldsReachLabels`, `EveryEvaluationEnds`, `EventuallyPublished`), and `WorstFloorOnlyRefuses`: it compares
two instances of `Scoring` whose cells are what a calibration left, and the theorems about an instance
with parameters of that kind cannot be cited where the parameters depend on the state.

## Not modelled

* Token fingerprinting, k-grams and winnowing, and the regular expressions of the guards: text, whose
  result the models take as input.
* `geometry.py`, `dtypes.py` and `pipeline.py`, which multiply tensor shapes into a ceiling, and the
  tensor operators and models of the runtime: floating-point arithmetic without control.
* The runtime's allocator and pipeline: one thread, no state that outlives a run.
* `screen.py`, `make_generation.py`, `roofline_table.py`, the set-up scripts and `scripts/`
  (`make_issues.py`, `manifest.py` and others): they act once, from files to files.
* The structural checks of a proposed cell one by one (the model has their verdict), and the copy of the
  raw measurements beside a receipt, after which a death leaves a receipt that cannot be derived again.
* `audit.py`, which recomputes a receipt with the score's own functions: a model of it would agree with
  itself. What may differ, the calibration embedded in the raw file, arguments and defaults, is data the
  models do not carry.
* A last line of `blocked.jsonl` that a death cuts short: the log has whole lines only.
* A run of `bench` with more repeats than the generation declares, and a held-out shape whose two arms
  share no repeat, on which `compute.py` raises.
* The wording of comments and reports, and colours and descriptions of labels.

## Plan

Done: `Ledger` and `Evaluation` with their promises, `Publishing`, `Round` and `Copycat`, each with its
proofs; the rules, with proofs of all but one. Next, most important first:

1. The raw file beside the receipt, as a step of `Evaluation` between the score and the label.
2. The structural checks of a proposed cell, as a rule of `Intake`.
