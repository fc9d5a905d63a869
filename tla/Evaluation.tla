------------------------------ MODULE Evaluation ------------------------------
(***************************************************************************)
(* How a pull request that has passed the guards is measured: built as the  *)
(* sandbox account (eval/pr_bot.py, eval/sandbox.py), gated, benched and    *)
(* scored by a script of stages (eval/score_submission.sh, gate.py,         *)
(* bench.py, tools/burnish), or checked, gated and calibrated if it opens a *)
(* cell (cartography.py, calibrate.py), then labelled request by request.   *)
(* Rounds take the round's lock and publish the ledger; passes of pr_bot    *)
(* take no lock; operators calibrate; somebody may use the device by hand.  *)
(* All of them meet at the device's lock (eval/runner.py).                  *)
(*                                                                          *)
(* A stage is a process of its own: when the script that waits for it is    *)
(* timed out it goes on without a parent, as one of Orphans.  What is true  *)
(* of a submission is chosen in Init from Submissions.                      *)
(***************************************************************************)
EXTENDS Publishing, FiniteSets

CONSTANTS
    Rounds,         \* processes started by cron: eval/round.py
    Passes,         \* processes started by hand: eval/pr_bot.py
    Operators,      \* processes of `burnish calibrate`
    Orphans,        \* names for stages that outlive their script
    Submissions,    \* what a pull request may be
    Replays,        \* --gate-repeats
    Prompts,        \* frozen prompts of the generation
    Repeats,        \* paired repeats of a bench and of a calibration
    MaxTries,       \* bound: evaluations of one pull request
    MaxFaults,      \* bound: faults over a behaviour, guests not counted
    Faults,         \* which of AllFaults happen
    Nobody

Evaluators == Rounds \cup Passes
Procs == Evaluators \cup Operators \cup Orphans
AllFaults == {"timeout", "death", "box", "guest", "refused", "load", "crash", "delete", "api"}

\* Latents of an arm: always right, right but not the same bytes every time,
\* wrong on every prompt, wrong on every prompt but the first.
Behaviours == {"good", "flaky", "far", "late"}
AllSubmissions == [kind : {"kernel", "cell"}, builds : BOOLEAN, sound : BOOLEAN,
                   base : Behaviours, cand : Behaviours]

ASSUME EvaluationAssumption ==
    /\ Rounds \cap (Passes \cup Operators \cup Orphans) = {}
    /\ Passes \cap (Operators \cup Orphans) = {} /\ Operators \cap Orphans = {}
    /\ Nobody \notin Procs
    /\ Submissions \subseteq AllSubmissions
    /\ Replays \in Nat \ {0} /\ Prompts \in Nat \ {0} /\ Repeats \in Nat \ {0}
    /\ MaxTries \in Nat /\ MaxFaults \in Nat /\ Faults \subseteq AllFaults

VARIABLES
    sub,            \* what each pull request is
    gpu,            \* who holds the device's lock
    guest,          \* somebody uses the device by hand
    stage,          \* the stage each process runs
    ev,             \* where each evaluator is
    roundLock,
    work,           \* the files of an evaluator's work directory
    cache,          \* the cached gate of the base arm, and whose build it ran in
    labels,         \* the outcome labels of each pull request
    kept,           \* those of them GitHub refused to delete (history)
    receipts,       \* the records behind each receipt, <<>> where there is none
    tries, faults

device == <<gpu, stage>>
files == <<work, cache, receipts, publishing>>
outcomes == <<labels, kept>>
vars == <<sub, device, guest, ev, roundLock, files, outcomes, tries, faults>>

GateStages == {"gate-base", "gate-cand", "gate-cell"}
Stages == GateStages \cup {"bench", "calibrate", "anchor"}
At == {"off", "enter", "wait", "locked", "ready", "running", "over"}
Pcs == {"idle", "round", "unpack", "build", "start", "cache", "fill", "filled", "score",
        "check", "answer", "delete", "push"} \cup Stages
Outcomes == {"build-fail", "eval-error", "scored", "cell-opened", "partial"}
Results == {"absent", "empty", "PASS", "FAIL", "NOT_RUN"}

Off == [what |-> "anchor", at |-> "off", pr |-> Nobody, recs |-> <<>>, seen |-> {},
        again |-> FALSE, hit |-> FALSE, rc |-> 0]
Idle == [pc |-> "idle", pr |-> Nobody, hit |-> FALSE, want |-> "eval-error", old |-> {}]
NoFiles == [base |-> "absent", cand |-> "absent", raw |-> <<>>]
NoCache == [is |-> "absent", by |-> Nobody]

Init ==
    /\ sub \in [PRs -> Submissions]
    /\ gpu = Nobody /\ guest = FALSE
    /\ stage = [p \in Procs |-> Off]
    /\ ev = [e \in Evaluators |-> Idle]
    /\ roundLock = Nobody
    /\ work = [e \in Evaluators |-> NoFiles]
    /\ cache = NoCache
    /\ labels = [pr \in PRs |-> {}] /\ kept = [pr \in PRs |-> {}]
    /\ receipts = [pr \in PRs |-> <<>>]
    /\ tries = [pr \in PRs |-> 0] /\ faults = 0
    /\ PublishingInit

Fault(f) == f \in Faults /\ faults < MaxFaults /\ faults' = faults + 1

-----------------------------------------------------------------------------
\* Stages, and the device they wait for

Holding(p) == stage[p].at \in {"locked", "ready", "running"}
Running(p) == stage[p].at = "running"
Busy == guest \/ \E p \in Procs : Running(p)        \* nvidia-smi lists a process

\* A stage ends with an exit code and its lock goes with it.
Over(p, rc) ==
    IF p \in Orphans THEN Off
                     ELSE [Off EXCEPT !.what = stage[p].what, !.at = "over", !.rc = rc]

\* Mutant: a stage that fails leaves the device locked.
KeepsLock(p, rc) == IF gpu = p /\ rc = 0 THEN Nobody ELSE gpu

LockAfter(p, rc) == IF gpu = p THEN Nobody ELSE gpu

End(p, rc) ==
    /\ stage' = [stage EXCEPT ![p] = Over(p, rc)]
    /\ gpu' = LockAfter(p, rc)

Elsewhere == UNCHANGED <<sub, guest, roundLock, cache, outcomes, receipts, tries, publishing>>

\* What bench.py asks of the two gates before it waits for the device.
GatesPass(w) == w.base = "PASS" /\ w.cand = "PASS"

\* tools/burnish looks at the device without its lock, and bench.py reads the
\* gates; cartography.py starts gate.py and calibrate.py itself.
Enter(p) ==
    /\ stage[p].at = "enter"
    /\ CASE Busy /\ stage[p].what \notin {"gate-cell", "calibrate"} -> End(p, 3)
         [] ~Busy /\ stage[p].what = "bench" /\ (p \in Orphans \/ ~GatesPass(work[p])) ->
                End(p, 2)
         [] OTHER -> stage' = [stage EXCEPT ![p].at = "wait"] /\ UNCHANGED gpu
    /\ UNCHANGED <<ev, work, faults>> /\ Elsewhere

\* Mutant: the lock's file is opened and not locked.
OpensOnly(p) ==
    /\ stage[p].at = "wait"
    /\ gpu' = p
    /\ stage' = [stage EXCEPT ![p].at = "locked"]
    /\ UNCHANGED <<ev, work, faults>> /\ Elsewhere

\* GpuLock.__enter__ waits as long as it takes.
Lock(p) ==
    /\ stage[p].at = "wait" /\ gpu = Nobody
    /\ gpu' = p
    /\ stage' = [stage EXCEPT ![p].at = "locked"]
    /\ UNCHANGED <<ev, work, faults>> /\ Elsewhere

\* require_idle_device, under the lock
IdleCheck(p) ==
    /\ stage[p].at = "locked"
    /\ IF Busy THEN End(p, 3)
               ELSE stage' = [stage EXCEPT ![p].at = "ready"] /\ UNCHANGED gpu
    /\ UNCHANGED <<ev, work, faults>> /\ Elsewhere

\* run_once, up to the runtime's start.  An orphan's binary went with the build
\* directory of its evaluation.
Launch(p) ==
    /\ stage[p].at = "ready" /\ p \notin Orphans
    /\ stage' = [stage EXCEPT ![p].at = "running", ![p].hit = FALSE]
    /\ UNCHANGED <<gpu, ev, work, faults>> /\ Elsewhere

\* sandbox.kill_leftovers: all that runs as the account dies, whoever started it.
Jailed(p) == p \notin Operators
Killed(st, p) ==
    [q \in Procs |-> IF q # p /\ Jailed(q) /\ st[q].at = "running"
                     THEN [st[q] EXCEPT !.hit = TRUE] ELSE st[q]]
BuildsKilled(e) ==
    [x \in Evaluators |-> IF x # e /\ ev[x].pc \in {"unpack", "build"}
                          THEN [ev[x] EXCEPT !.hit = TRUE] ELSE ev[x]]

LaunchFails(p) ==
    /\ stage[p].at = "ready" /\ p \in Orphans
    /\ stage' = [Killed(stage, p) EXCEPT ![p] = Off]
    /\ gpu' = LockAfter(p, 1)
    /\ ev' = BuildsKilled(p)
    /\ UNCHANGED <<work, faults>> /\ Elsewhere

\* The runs a stage makes: determinism replays and the other prompts of a gate,
\* interleaved arms of a bench, also at a held-out shape, or of a calibration.
HeldRepeats == IF Repeats \div 2 < 2 THEN 2 ELSE Repeats \div 2
Needed(what) ==
    CASE what \in GateStages -> Replays + Prompts - 1
      [] what = "bench" -> 2 * Repeats + 2 * HeldRepeats
      [] OTHER -> 2 * Repeats
Turn(k) == IF k % 2 = 1 THEN "base" ELSE "candidate"

\* Mutant: the sample of a run that failed to load is kept beside its repeat's.
KeepsBoth(st) ==
    st.recs \o [k \in 1 .. (IF st.again THEN 2 ELSE 1) |-> Turn(Len(st.recs) + 1)]

Recorded(st) == Append(st.recs, Turn(Len(st.recs) + 1))

Arm(p) == IF stage[p].what = "gate-base" THEN sub[stage[p].pr].base ELSE sub[stage[p].pr].cand
Latents(p) == IF stage[p].what \in GateStages /\ Arm(p) = "flaky" THEN {"one", "other"}
                                                                  ELSE {"one"}

\* Mutant: the report has what was measured where its verdict should be.
Unjudged(arm) == arm

\* Mutant: only the prompt of the replays is compared.
FirstPrompt(arm) == IF arm = "far" THEN "FAIL" ELSE "PASS"

\* The worst prompt decides.
Correctness(arm) ==
    IF \E prompt \in 1 .. Prompts : arm = "far" \/ (arm = "late" /\ prompt > 1)
    THEN "FAIL" ELSE "PASS"

\* What a gate reports, determinism first.
GateResult(p, seen) == IF Cardinality(seen) > 1 THEN "NOT_RUN" ELSE Correctness(Arm(p))

Write(p, result, recs) ==
    work' = IF p \notin Evaluators THEN work ELSE
        CASE stage[p].what = "gate-base" -> [work EXCEPT ![p].base = result]
          [] stage[p].what \in {"gate-cand", "gate-cell"} -> [work EXCEPT ![p].cand = result]
          [] stage[p].what = "bench" -> [work EXCEPT ![p].raw = recs]
          [] OTHER -> work

\* The digests of the replays, and whether the runs so far are enough: all that are
\* needed, or a second digest among the replays.
IsGate(p) == stage[p].what \in GateStages
Seen(p, recs, latent) ==
    IF IsGate(p) /\ Len(recs) <= Replays THEN stage[p].seen \cup {latent} ELSE stage[p].seen
Enough(p, recs, seen) ==
    \/ Len(recs) >= Needed(stage[p].what)
    \/ IsGate(p) /\ Len(recs) = Replays /\ Cardinality(seen) > 1

\* kill_leftovers follows every process of the account.
Rest(p) == IF Jailed(p) THEN Killed(stage, p) ELSE stage
BuildsAfter(p) == ev' = IF Jailed(p) THEN BuildsKilled(p) ELSE ev

Reports(p, recs, seen) ==
    LET result == IF IsGate(p) THEN GateResult(p, seen) ELSE "absent"
        rc == IF IsGate(p) /\ result # "PASS" THEN 1 ELSE 0
    IN /\ Write(p, result, recs)
       /\ stage' = [Rest(p) EXCEPT ![p] = Over(p, rc)]
       /\ gpu' = LockAfter(p, rc)

RunsAgain(p, recs, seen, again) ==
    /\ stage' = [Rest(p) EXCEPT ![p] = [stage[p] EXCEPT !.at = "ready", !.recs = recs,
                                                       !.seen = seen, !.again = again]]
    /\ UNCHANGED <<gpu, work>>

\* The runtime ends well and its sample is recorded.
RunEnds(p) ==
    /\ Running(p) /\ ~stage[p].hit
    /\ \E latent \in Latents(p) :
        LET recs == Recorded(stage[p])   seen == Seen(p, recs, latent)
        IN IF Enough(p, recs, seen) THEN Reports(p, recs, seen)
                                    ELSE RunsAgain(p, recs, seen, FALSE)
    /\ BuildsAfter(p)
    /\ UNCHANGED faults /\ Elsewhere

\* The runtime fails: killed by somebody's kill_leftovers, by itself, by a report
\* that is none, or not of what was asked; or for want of memory, when it is run
\* once more.
RunFails(p) ==
    /\ Running(p)
    /\ \/ /\ IF stage[p].hit THEN UNCHANGED faults
             ELSE Fault("crash") \/ (stage[p].again /\ Fault("load"))
          /\ stage' = [Rest(p) EXCEPT ![p] = Over(p, 3)]
          /\ gpu' = LockAfter(p, 3)
          /\ UNCHANGED work
       \/ /\ ~stage[p].hit /\ ~stage[p].again /\ Fault("load")
          /\ RunsAgain(p, stage[p].recs, stage[p].seen, TRUE)
    /\ BuildsAfter(p)
    /\ Elsewhere

\* An operator starts `burnish calibrate`, once.
Calibrate(p) ==
    /\ p \in Operators /\ stage[p].at = "off"
    /\ stage' = [stage EXCEPT ![p].at = "enter"]
    /\ UNCHANGED <<gpu, ev, work, faults>> /\ Elsewhere

StageStep(p) == Enter(p) \/ Lock(p) \/ IdleCheck(p) \/ Launch(p) \/ LaunchFails(p)
                \/ RunEnds(p) \/ RunFails(p)

-----------------------------------------------------------------------------
\* Evaluators

Goto(e, pc) == ev' = [ev EXCEPT ![e].pc = pc]
Home(e) == IF e \in Rounds THEN "round" ELSE "idle"
HomeOf(e) == [Idle EXCEPT !.pc = Home(e)]

\* The script starts a stage and waits for it.
Run(e, what) ==
    /\ stage' = [stage EXCEPT ![e] = [Off EXCEPT !.what = what, !.at = "enter", !.pr = ev[e].pr]]
    /\ Goto(e, what)
Answer(e, outcome) == ev' = [ev EXCEPT ![e].pc = "answer", ![e].want = outcome]

\* Mutant: a round does not look whether another one is running.
AlwaysStarts(e) ==
    /\ e \in Rounds /\ ev[e].pc = "idle"
    /\ roundLock' = e /\ Goto(e, "round")
    /\ UNCHANGED <<sub, device, guest, files, outcomes, tries, faults>>

\* round.Lock: a second round does not wait.
StartRound(e) ==
    /\ e \in Rounds /\ ev[e].pc = "idle" /\ roundLock = Nobody
    /\ roundLock' = e /\ Goto(e, "round")
    /\ UNCHANGED <<sub, device, guest, files, outcomes, tries, faults>>

Due(pr) == (labels[pr] = {} \/ "eval-error" \in labels[pr]) /\ tries[pr] < MaxTries

\* _evaluate, once the guards have passed: a new work directory and build tree.
Begin(e, pr) ==
    /\ ev[e].pc = Home(e) /\ Due(pr)
    /\ ev' = [ev EXCEPT ![e] = [Idle EXCEPT !.pc = "unpack", !.pr = pr]]
    /\ work' = [work EXCEPT ![e] = NoFiles]
    /\ tries' = [tries EXCEPT ![pr] = @ + 1]
    /\ UNCHANGED <<sub, device, guest, roundLock, cache, receipts, publishing, outcomes, faults>>

\* build_submission: the archive is unpacked, then built, each as the account and
\* each followed by kill_leftovers.  An unpacking that was killed raises.
Unpack(e) ==
    /\ ev[e].pc = "unpack"
    /\ stage' = Killed(stage, e)
    /\ ev' = [BuildsKilled(e) EXCEPT ![e] = IF ev[e].hit THEN HomeOf(e)
                                                         ELSE [ev[e] EXCEPT !.pc = "build"]]
    /\ UNCHANGED <<gpu, work, faults>> /\ Elsewhere

Build(e) ==
    /\ ev[e].pc = "build"
    /\ stage' = Killed(stage, e)
    /\ LET s == sub[ev[e].pr] IN
       ev' = [BuildsKilled(e) EXCEPT ![e] =
                IF ev[e].hit \/ ~s.builds
                THEN [ev[e] EXCEPT !.pc = "answer", !.want = "build-fail"]
                ELSE [ev[e] EXCEPT !.pc = IF s.kind = "kernel" THEN "start" ELSE "check"]]
    /\ UNCHANGED <<gpu, work, faults>> /\ Elsewhere

\* score_submission.sh refuses to start beside another benchmark.
Start(e) ==
    /\ ev[e].pc = "start"
    /\ IF Busy THEN Answer(e, "eval-error") ELSE Goto(e, "cache")
    /\ UNCHANGED <<sub, device, guest, roundLock, files, outcomes, tries, faults>>

\* Mutant: a file that exists will do, also an empty one ([ -f ] for [ -s ]).
AnyFile == cache.is # "absent"

Hit == cache.is \notin {"absent", "empty"}

\* 1/4: the base arm's gate comes from the cache, or is run.
GateBase(e) ==
    /\ ev[e].pc = "cache"
    /\ IF Hit THEN Run(e, "gate-cand") /\ work' = [work EXCEPT ![e].base = cache.is]
              ELSE Run(e, "gate-base") /\ UNCHANGED work
    /\ UNCHANGED <<gpu, faults>> /\ Elsewhere

\* cp truncates, then writes; 2/4 follows.
OpenCache(e) ==
    /\ ev[e].pc = "fill"
    /\ cache' = [is |-> "empty", by |-> ev[e].pr]
    /\ Goto(e, "filled")
    /\ UNCHANGED <<sub, device, guest, roundLock, work, receipts, publishing, outcomes, tries,
                   faults>>

WriteCache(e) ==
    /\ ev[e].pc = "filled"
    /\ cache' = [is |-> work[e].base, by |-> ev[e].pr]
    /\ Run(e, "gate-cand")
    /\ UNCHANGED <<sub, gpu, guest, roundLock, work, receipts, publishing, outcomes, tries,
                   faults>>

\* Mutant: without set -e the script goes on after a stage that failed.
GoesOn(e, next) == Goto(e, next)

\* set -e: a stage that failed is the end of the script.
AfterStage(e, next) ==
    IF stage[e].rc = 0 THEN Goto(e, next) ELSE Answer(e, "eval-error")

\* A stage is over and the script goes on: 1/4 to the cache, 3/4 the bench, 4/4
\* the score; in cartography.py, gate and calibration.
NextStage(e) ==
    /\ ev[e].pc \in Stages /\ stage[e].at = "over"
    /\ CASE ev[e].pc = "gate-base" -> AfterStage(e, "fill") /\ UNCHANGED stage
         [] ev[e].pc = "gate-cand" -> IF stage[e].rc = 0 THEN Run(e, "bench")
                                      ELSE Answer(e, "eval-error") /\ UNCHANGED stage
         [] ev[e].pc = "bench" -> AfterStage(e, "score") /\ UNCHANGED stage
         [] ev[e].pc = "gate-cell" -> IF stage[e].rc = 0 THEN Run(e, "calibrate")
                                      ELSE Answer(e, "partial") /\ UNCHANGED stage
         [] OTHER -> /\ Answer(e, IF stage[e].rc = 0 THEN "cell-opened" ELSE "partial")
                     /\ UNCHANGED stage
    /\ UNCHANGED <<gpu, work, faults>> /\ Elsewhere

\* cmd_score: append_receipt refuses a second receipt of a pull request.
Score(e) ==
    /\ ev[e].pc = "score"
    /\ LET pr == ev[e].pr IN
       IF receipts[pr] = <<>>
       THEN /\ receipts' = [receipts EXCEPT ![pr] = work[e].raw]
            /\ ledger' = ledger \cup {pr}
            /\ Answer(e, "scored")
       ELSE UNCHANGED <<receipts, ledger>> /\ Answer(e, "eval-error")
    /\ UNCHANGED <<sub, device, guest, roundLock, work, cache, local, remote, outcomes, tries,
                   faults>>

\* cartography.check; measure gates the cell against its own oracle.
CheckCell(e) ==
    /\ ev[e].pc = "check"
    /\ IF sub[ev[e].pr].sound THEN Run(e, "gate-cell")
                              ELSE Answer(e, "partial") /\ UNCHANGED stage
    /\ UNCHANGED <<gpu, work, faults>> /\ Elsewhere

\* set_label: read the labels, delete the others one by one, add the new one.
ReadLabels(e) ==
    /\ ev[e].pc = "answer"
    /\ ev' = [ev EXCEPT ![e].pc = "delete", ![e].old = labels[ev[e].pr] \ {ev[e].want}]
    /\ UNCHANGED <<sub, device, guest, roundLock, files, outcomes, tries, faults>>

\* A DELETE that GitHub refuses is ignored (check=False), and its label stays.
DeleteLabel(e) ==
    /\ ev[e].pc = "delete"
    /\ \E l \in ev[e].old :
        /\ \/ /\ labels' = [labels EXCEPT ![ev[e].pr] = @ \ {l}]
              /\ kept' = [kept EXCEPT ![ev[e].pr] = @ \ {l}]
              /\ UNCHANGED faults
           \/ /\ kept' = [kept EXCEPT ![ev[e].pr] = @ \cup {l}]
              /\ Fault("delete") /\ UNCHANGED labels
        /\ ev' = [ev EXCEPT ![e].old = @ \ {l}]
    /\ UNCHANGED <<sub, device, guest, roundLock, files, tries>>

AddLabel(e) ==
    /\ ev[e].pc = "delete" /\ ev[e].old = {}
    /\ labels' = [labels EXCEPT ![ev[e].pr] = @ \cup {ev[e].want}]
    /\ kept' = [kept EXCEPT ![ev[e].pr] = @ \ {ev[e].want}]
    /\ ev' = [ev EXCEPT ![e] = HomeOf(e)]
    /\ UNCHANGED <<sub, device, guest, roundLock, files, tries, faults>>

\* The reading or the POST fails, or any request times out: set_label raises, and
\* what the requests before it did stays.
LabelRaises(e) ==
    /\ ev[e].pc \in {"answer", "delete"} /\ Fault("api")
    /\ ev' = [ev EXCEPT ![e] = HomeOf(e)]
    /\ UNCHANGED <<sub, device, guest, roundLock, files, outcomes, tries>>

\* Mutant: a round with nothing new to commit does not push.
PushesNews(e) ==
    /\ e \in Rounds /\ ev[e].pc = "round"
    /\ Commit /\ Goto(e, IF Committed(local) = ledger THEN "idle" ELSE "push")
    /\ roundLock' = IF Committed(local) = ledger THEN Nobody ELSE roundLock
    /\ UNCHANGED <<sub, device, guest, work, cache, receipts, outcomes, tries, faults>>

\* The round's queue is done: publish_ledger, inside the lock.
CommitLedger(e) ==
    /\ e \in Rounds /\ ev[e].pc = "round"
    /\ Commit /\ Goto(e, "push")
    /\ UNCHANGED roundLock
    /\ UNCHANGED <<sub, device, guest, work, cache, receipts, outcomes, tries, faults>>

\* A refused push does not fail the round.
PushLedger(e) ==
    /\ ev[e].pc = "push"
    /\ \/ Push /\ UNCHANGED faults
       \/ Fault("refused") /\ UNCHANGED publishing
    /\ Goto(e, "idle") /\ roundLock' = Nobody
    /\ UNCHANGED <<sub, device, guest, work, cache, receipts, outcomes, tries>>

\* The script or cartography.py is timed out: _evaluate raises, no label is set,
\* the stage goes on.
Timeout(e) ==
    /\ ev[e].pc \in Stages /\ stage[e].at # "over" /\ Fault("timeout")
    /\ \E o \in Orphans :
        /\ stage[o].at = "off"
        /\ stage' = [stage EXCEPT ![o] = stage[e], ![e] = Off]
        /\ gpu' = IF gpu = e THEN o ELSE gpu
    /\ ev' = [ev EXCEPT ![e] = HomeOf(e)]
    /\ UNCHANGED work /\ Elsewhere

-----------------------------------------------------------------------------
\* Everybody else

GuestArrives ==
    /\ ~guest /\ "guest" \in Faults /\ guest' = TRUE
    /\ UNCHANGED <<sub, device, ev, roundLock, files, outcomes, tries, faults>>
GuestLeaves ==
    /\ guest /\ guest' = FALSE
    /\ UNCHANGED <<sub, device, ev, roundLock, files, outcomes, tries, faults>>

\* The box stops; locks and processes go, files stay.  Or it is lost, and the next
\* one clones what was published.
Gone ==
    /\ gpu' = Nobody /\ stage' = [p \in Procs |-> Off]
    /\ ev' = [e \in Evaluators |-> Idle] /\ roundLock' = Nobody
    /\ guest' = FALSE /\ work' = [e \in Evaluators |-> NoFiles]
    /\ UNCHANGED <<sub, outcomes, tries>>
BoxStops == Fault("death") /\ Gone /\ UNCHANGED <<cache, receipts, publishing>>
BoxLost ==
    /\ Fault("box") /\ Gone /\ Clone
    /\ cache' = NoCache
    /\ receipts' = [pr \in PRs |-> IF pr \in ledger' THEN receipts[pr] ELSE <<>>]

EvaluatorStep(e) ==
    \/ Unpack(e) \/ Build(e) \/ Start(e) \/ GateBase(e) \/ OpenCache(e) \/ WriteCache(e)
    \/ NextStage(e) \/ Score(e) \/ CheckCell(e) \/ ReadLabels(e) \/ DeleteLabel(e)
    \/ AddLabel(e) \/ LabelRaises(e) \/ CommitLedger(e) \/ PushLedger(e)

Next ==
    \/ \E p \in Procs : StageStep(p) \/ Calibrate(p)
    \/ \E e \in Evaluators : StartRound(e) \/ EvaluatorStep(e) \/ Timeout(e)
    \/ \E e \in Evaluators, pr \in PRs : Begin(e, pr)
    \/ GuestArrives \/ GuestLeaves \/ BoxStops \/ BoxLost

Spec == Init /\ [][Next]_vars

\* What has begun goes on, cron starts rounds, a person's run on the device ends.
FairSpec ==
    /\ Spec
    /\ \A p \in Procs : WF_vars(StageStep(p))
    /\ \A e \in Evaluators : WF_vars(EvaluatorStep(e))
    /\ WF_vars(\E e \in Rounds : StartRound(e))
    /\ WF_vars(GuestLeaves)

-----------------------------------------------------------------------------
StageType == [what : Stages, at : At, pr : PRs \cup {Nobody},
              recs : Seq({"base", "candidate"}), seen : SUBSET {"one", "other"},
              again : BOOLEAN, hit : BOOLEAN, rc : 0 .. 3]
EvType == [pc : Pcs, pr : PRs \cup {Nobody}, hit : BOOLEAN,
           want : Outcomes, old : SUBSET Outcomes]
WorkType == [base : Results, cand : Results, raw : Seq({"base", "candidate"})]

TypeOK ==
    /\ sub \in [PRs -> Submissions]
    /\ gpu \in Procs \cup {Nobody} /\ guest \in BOOLEAN
    /\ stage \in [Procs -> StageType]
    /\ ev \in [Evaluators -> EvType]
    /\ roundLock \in Rounds \cup {Nobody}
    /\ work \in [Evaluators -> WorkType]
    /\ cache \in [is : Results, by : PRs \cup {Nobody}]
    /\ labels \in [PRs -> SUBSET Outcomes] /\ kept \in [PRs -> SUBSET Outcomes]
    /\ receipts \in [PRs -> Seq({"base", "candidate"})]
    /\ tries \in [PRs -> 0 .. MaxTries] /\ faults \in 0 .. MaxFaults
    /\ ledger \subseteq PRs /\ local \in Seq(SUBSET PRs) /\ remote \in Seq(SUBSET PRs)

\* Two runtimes never share the device, whatever stages have lost their script:
\* a measurement waits for the one before it (GpuLock in eval/runner.py).
DeviceIsExclusive == \A p, q \in Procs : Running(p) /\ Running(q) => p = q

\* A receipt is of a build that passed its gate on every prompt, and was timed
\* beside a base arm whose gate had passed in some build: correctness precedes
\* speed through caches, timeouts, restarts and second attempts.
ReceiptsAreGated ==
    \A pr \in PRs : receipts[pr] # <<>> =>
        /\ sub[pr].builds /\ sub[pr].cand \in {"good", "flaky"}
        /\ \E q \in PRs : sub[q].base \in {"good", "flaky"}

\* The records of a receipt are complete pairs, base beside candidate, one process
\* each, whatever runs had to be repeated.
ReceiptsArePaired ==
    \A pr \in PRs : receipts[pr] # <<>> =>
        /\ Len(receipts[pr]) = Needed("bench")
        /\ \A k \in 1 .. Needed("bench") \div 2 :
            receipts[pr][2 * k - 1] = "base" /\ receipts[pr][2 * k] = "candidate"

\* What the cache would answer is a gate that passed in the build it came from:
\* neither a failure nor a file cut short is served to later submissions.
CacheServesPasses ==
    Hit => /\ cache.is = "PASS" /\ cache.by \in PRs
           /\ sub[cache.by].base \in {"good", "flaky"}

\* A pull request has at most one outcome beside those GitHub refused to delete,
\* wherever set_label raises or is stopped among its requests.
OneOutcome == \A pr \in PRs : Cardinality(labels[pr] \ kept[pr]) <= 1

\* Stages, caches, locks and faults away, measuring keeps the promise of
\* ReceiptPromise: one whole receipt for a build that deserves it, and no change of it
\* but a lost box's forgetting what it had not published.
Worthy == {pr \in PRs : /\ sub[pr].builds /\ sub[pr].cand \in {"good", "flaky"}
                        /\ \E q \in PRs : sub[q].base \in {"good", "flaky"}}

Promise == INSTANCE ReceiptPromise WITH
    Pairs     <- Repeats + HeldRepeats,
    worthy    <- Worthy,
    record    <- receipts,
    published <- Committed(remote)

ReceiptPromiseKept == Promise!Spec

\* An evaluation that has begun ends: nobody waits for ever for the device, however
\* the stages before it ended.
EveryEvaluationEnds ==
    \A e \in Evaluators : ev[e].pc \notin {"idle", "round"} ~> ev[e].pc \in {"idle", "round"}

\* A receipt is published, after however many refused pushes, unless the box is
\* lost with it.
EventuallyPublished ==
    \A pr \in PRs : pr \in ledger ~> (pr \in Committed(remote) \/ pr \notin ledger)

-----------------------------------------------------------------------------
\* What the documents say and the code does not do.

\* "A cache hit is the same file the run would have produced"
\* (score_submission.sh:115).
CacheIsTheRun ==
    \A e \in Evaluators : ev[e].pc = "gate-cand" /\ work[e].base = "PASS" =>
        sub[ev[e].pr].base \in {"good", "flaky"}

\* burnish:build-fail is "the submission did not build" (verdict.py:108).
BuildFailIsTrue == \A pr \in PRs : "build-fail" \in labels[pr] => ~sub[pr].builds

\* A candidate that fails its gate is rejected, not an error of the evaluator
\* that will be re-run.
GateFailureIsFinal ==
    \A pr \in PRs : "eval-error" \in labels[pr] => sub[pr].cand \notin {"far", "late"}

\* A box that cannot measure does not fail a cell (cartography.py:239).
CellIsJudged ==
    \A pr \in PRs : "partial" \in labels[pr] =>
        ~sub[pr].sound \/ sub[pr].cand # "good"

=============================================================================
