--------------------------- MODULE EvaluationProofs ---------------------------
(***************************************************************************)
(* Proofs about Evaluation, for every number of pull requests, evaluators,  *)
(* operators and orphans, and any number of faults of every kind.           *)
(***************************************************************************)
EXTENDS Evaluation, FiniteSetTheorems, TLAPS

Active(e) == ev[e].pc \notin {"idle", "round", "push"}
UnderWay(p) == stage[p].at \notin {"off", "over"}

\* An evaluator past its first step works on a pull request.
Typed == TypeOK /\ \A e \in Evaluators : Active(e) => ev[e].pr \in PRs

\* The lock's file has one holder.
Locked == \A p \in Procs : Holding(p) => gpu = p

-----------------------------------------------------------------------------
\* Type correctness

LEMMA OffType == Off \in StageType
BY DEF Off, StageType, Stages, At

\* A stage that ended is a stage.
LEMMA OverType ==
    ASSUME NEW p \in Procs, stage[p] \in StageType, NEW rc \in 0 .. 3
    PROVE  Over(p, rc) \in StageType
<1> DEFINE over == [Off EXCEPT !.what = stage[p].what, !.at = "over", !.rc = rc]
<1>1. over \in StageType
  BY OffType DEF StageType, At
<1> QED
  BY <1>1, OffType DEF Over

\* Killing the account's processes marks them and changes nothing else.
LEMMA KilledType ==
    ASSUME NEW st \in [Procs -> StageType], NEW p
    PROVE  Killed(st, p) \in [Procs -> StageType]
<1>1. ASSUME NEW q \in Procs
      PROVE  st[q] \in StageType /\ [st[q] EXCEPT !.hit = TRUE] \in StageType
  BY DEF StageType
<1> QED
  BY <1>1 DEF Killed

LEMMA BuildsKilledType ==
    ASSUME ev \in [Evaluators -> EvType], NEW e
    PROVE  BuildsKilled(e) \in [Evaluators -> EvType]
BY DEF BuildsKilled, EvType

LEMMA EndType ==
    ASSUME NEW p \in Procs, NEW rc \in 0 .. 3, End(p, rc),
           stage \in [Procs -> StageType], gpu \in Procs \cup {Nobody}
    PROVE  stage' \in [Procs -> StageType] /\ gpu' \in Procs \cup {Nobody}
BY OverType DEF End, LockAfter

LEMMA RunType ==
    ASSUME NEW e \in Evaluators, NEW what \in Stages, Run(e, what),
           stage \in [Procs -> StageType], ev \in [Evaluators -> EvType]
    PROVE  stage' \in [Procs -> StageType] /\ ev' \in [Evaluators -> EvType]
<1> DEFINE new == [Off EXCEPT !.what = what, !.at = "enter", !.pr = ev[e].pr]
<1>1. ev[e].pr \in PRs \cup {Nobody}
  BY DEF EvType
<1>2. new \in StageType
  BY <1>1, OffType DEF StageType, At
<1>3. what \in Pcs
  BY DEF Pcs
<1>4. ev' \in [Evaluators -> EvType]
  BY <1>3 DEF Run, Goto, EvType
<1> QED
  BY <1>2, <1>4 DEF Run

LEMMA RecordedType ==
    ASSUME NEW p \in Procs, stage[p] \in StageType
    PROVE  Recorded(stage[p]) \in Seq({"base", "candidate"})
BY DEF Recorded, Turn, StageType

\* The initial values of the records.
LEMMA StartType ==
    /\ Idle \in EvType /\ NoFiles \in WorkType
    /\ NoCache \in [is : Results, by : PRs \cup {Nobody}]
BY DEF Idle, EvType, Pcs, Outcomes, NoFiles, WorkType, NoCache, Results

LEMMA EvaluatorsAreProcs == Evaluators \subseteq Procs /\ Orphans \subseteq Procs
BY DEF Procs

LEMMA FaultType ==
    ASSUME faults \in 0 .. MaxFaults, NEW f, Fault(f)
    PROVE  faults' \in 0 .. MaxFaults
BY EvaluationAssumption DEF Fault

\* Going on changes the place of one evaluator and nobody's pull request.
LEMMA GotoType ==
    ASSUME NEW e \in Evaluators, NEW pc \in Pcs, Goto(e, pc),
           ev \in [Evaluators -> EvType]
    PROVE  /\ ev' \in [Evaluators -> EvType]
           /\ ev'[e] = [ev[e] EXCEPT !.pc = pc] /\ ev'[e].pc = pc
           /\ \A x \in Evaluators : ev'[x].pr = ev[x].pr /\ (x # e => ev'[x] = ev[x])
BY DEF Goto, EvType

LEMMA AnswerType ==
    ASSUME NEW e \in Evaluators, NEW outcome \in Outcomes, Answer(e, outcome),
           ev \in [Evaluators -> EvType]
    PROVE  /\ ev' \in [Evaluators -> EvType]
           /\ ev'[e] = [ev[e] EXCEPT !.pc = "answer", !.want = outcome]
           /\ ev'[e].pc = "answer" /\ ev'[e].want = outcome
           /\ \A x \in Evaluators : ev'[x].pr = ev[x].pr /\ (x # e => ev'[x] = ev[x])
BY DEF Answer, EvType, Pcs

\* What a stage writes is a report or a list of records.
LEMMA GateResultType ==
    \A p, seen : GateResult(p, seen) \in {"PASS", "FAIL", "NOT_RUN"}
BY DEF GateResult, Correctness

LEMMA WriteType ==
    ASSUME NEW p, NEW result \in Results, NEW recs \in Seq({"base", "candidate"}),
           Write(p, result, recs), work \in [Evaluators -> WorkType]
    PROVE  work' \in [Evaluators -> WorkType]
<1>1. CASE p \notin Evaluators
  BY <1>1 DEF Write
<1>2. CASE p \in Evaluators
  BY <1>2 DEF Write, WorkType
<1> QED
  BY <1>1, <1>2

LEMMA InitType == Init => Typed
<1> SUFFICES ASSUME Init PROVE Typed
  OBVIOUS
<1>1. tries \in [PRs -> 0 .. MaxTries] /\ faults \in 0 .. MaxFaults
  BY EvaluationAssumption DEF Init
<1>2. /\ <<>> \in Seq({"base", "candidate"}) /\ <<>> \in Seq(SUBSET PRs)
      /\ {} \in SUBSET Outcomes
  OBVIOUS
<1>3. ledger \subseteq PRs /\ local \in Seq(SUBSET PRs) /\ remote \in Seq(SUBSET PRs)
  BY <1>2 DEF Init, PublishingInit
<1>4. TypeOK
  BY <1>1, <1>2, <1>3, OffType, StartType DEF Init, TypeOK
<1> QED
  BY <1>4 DEF Init, Idle, Typed, Active

LEMMA AtType ==
    ASSUME NEW st \in [Procs -> StageType], NEW p \in Procs, NEW at \in At
    PROVE  [st EXCEPT ![p].at = at] \in [Procs -> StageType]
BY DEF StageType

\* Evaluators keep their places, or at least their pull requests.
LEMMA KeepsPrs ==
    ASSUME Typed, NEW e \in Evaluators,
           \A x \in Evaluators : /\ ev'[x].pr = ev[x].pr
                                 /\ x # e => ev'[x].pc = ev[x].pc,
           Active(e) \/ ev'[e].pc \in {"idle", "round", "push"}
    PROVE  \A x \in Evaluators : Active(x)' => ev'[x].pr \in PRs
BY DEF Typed, Active

LEMMA BuildsKilledKeeps ==
    ASSUME ev \in [Evaluators -> EvType], NEW e
    PROVE  \A x \in Evaluators : /\ BuildsKilled(e)[x].pr = ev[x].pr
                                 /\ BuildsKilled(e)[x].pc = ev[x].pc
                                 /\ BuildsKilled(e)[x].want = ev[x].want
                                 /\ BuildsKilled(e)[x].old = ev[x].old
BY DEF BuildsKilled, EvType

\* What a step at the device or of a script leaves alone keeps its type.
LEMMA ElsewhereType ==
    ASSUME Typed, Elsewhere,
           stage' \in [Procs -> StageType], gpu' \in Procs \cup {Nobody},
           ev' \in [Evaluators -> EvType], work' \in [Evaluators -> WorkType],
           faults' \in 0 .. MaxFaults,
           \A e \in Evaluators : Active(e)' => ev'[e].pr \in PRs
    PROVE  Typed'
BY DEF Typed, TypeOK, Elsewhere, outcomes, publishing

\* A stage step that is not over with a run.
LEMMA StageType1 ==
    ASSUME Typed, UNCHANGED <<ev, work, faults>>, Elsewhere,
           stage' \in [Procs -> StageType], gpu' \in Procs \cup {Nobody}
    PROVE  Typed'
<1>1. \A e \in Evaluators : Active(e)' => ev'[e].pr \in PRs
  BY DEF Typed, Active
<1>2. /\ ev' \in [Evaluators -> EvType] /\ work' \in [Evaluators -> WorkType]
      /\ faults' \in 0 .. MaxFaults
  BY DEF Typed, TypeOK
<1> QED
  BY <1>1, <1>2, ElsewhereType

LEMMA EnterType ==
    ASSUME Typed, NEW p \in Procs, Enter(p) \/ Lock(p) \/ IdleCheck(p) \/ Launch(p)
    PROVE  Typed'
<1>1. stage \in [Procs -> StageType] /\ gpu \in Procs \cup {Nobody}
  BY DEF Typed, TypeOK
<1>2. UNCHANGED <<ev, work, faults>> /\ Elsewhere
  BY DEF Enter, Lock, IdleCheck, Launch
<1>3. \/ \E rc \in {2, 3} : End(p, rc)
      \/ \E at \in At : stage' = [stage EXCEPT ![p].at = at] /\ gpu' \in {p, gpu}
      \/ Launch(p)
  BY DEF Enter, Lock, IdleCheck, At
<1>4. CASE \E rc \in {2, 3} : End(p, rc)
  BY <1>1, <1>2, <1>4, EndType, StageType1
<1>5. CASE \E at \in At : stage' = [stage EXCEPT ![p].at = at] /\ gpu' \in {p, gpu}
  BY <1>1, <1>2, <1>5, AtType, StageType1
<1>6. CASE Launch(p)
  <2> DEFINE st == [stage EXCEPT ![p].at = "running"]
             on == [st EXCEPT ![p].hit = FALSE]
  <2>1. on \in [Procs -> StageType]
    <3>1. st \in [Procs -> StageType]
      BY <1>1, AtType DEF At
    <3> HIDE DEF st
    <3> QED
      BY <3>1 DEF StageType
  <2>2. stage' = on /\ gpu' = gpu
    BY <1>6 DEF Launch
  <2> QED
    BY <1>1, <1>2, <2>1, <2>2, StageType1
<1> QED
  BY <1>3, <1>4, <1>5, <1>6

\* The end of a run of the sandbox account marks what else runs as it.
LEMMA KillsType ==
    ASSUME Typed, NEW p \in Procs, Elsewhere,
           ev' = BuildsKilled(p) \/ ev' = ev,
           stage' \in [Procs -> StageType], gpu' \in Procs \cup {Nobody},
           work' \in [Evaluators -> WorkType], faults' \in 0 .. MaxFaults
    PROVE  Typed'
<1>1. ev' \in [Evaluators -> EvType]
  BY BuildsKilledType DEF Typed, TypeOK
<1>2. \A x \in Evaluators : ev'[x].pr = ev[x].pr /\ ev'[x].pc = ev[x].pc
  BY BuildsKilledKeeps DEF Typed, TypeOK
<1>3. \A x \in Evaluators : Active(x)' => ev'[x].pr \in PRs
  BY <1>2 DEF Typed, Active
<1> QED
  BY <1>1, <1>3, ElsewhereType

LEMMA LaunchFailsType ==
    ASSUME Typed, NEW p \in Procs, LaunchFails(p)
    PROVE  Typed'
<1>1. stage \in [Procs -> StageType] /\ gpu \in Procs \cup {Nobody}
  BY DEF Typed, TypeOK
<1>2. stage' \in [Procs -> StageType]
  BY <1>1, KilledType, OffType DEF LaunchFails
<1>3. gpu' \in Procs \cup {Nobody} /\ ev' = BuildsKilled(p) /\ Elsewhere
  BY <1>1 DEF LaunchFails, LockAfter
<1>4. work' \in [Evaluators -> WorkType] /\ faults' \in 0 .. MaxFaults
  BY DEF LaunchFails, Typed, TypeOK
<1> QED
  BY <1>2, <1>3, <1>4, KillsType

LEMMA RunAgainType ==
    ASSUME Typed, NEW p \in Procs, NEW recs \in Seq({"base", "candidate"}),
           NEW seen \in SUBSET {"one", "other"}, NEW again \in BOOLEAN,
           RunsAgain(p, recs, seen, again)
    PROVE  stage' \in [Procs -> StageType] /\ gpu' \in Procs \cup {Nobody}
           /\ work' \in [Evaluators -> WorkType]
<1> DEFINE new == [stage[p] EXCEPT !.at = "ready", !.recs = recs, !.seen = seen, !.again = again]
<1>1. Rest(p) \in [Procs -> StageType] /\ stage[p] \in StageType
  BY KilledType DEF Rest, Typed, TypeOK
<1>2. new \in StageType
  BY <1>1 DEF StageType, At
<1>3. stage' = [Rest(p) EXCEPT ![p] = new]
  BY DEF RunsAgain
<1> QED
  BY <1>1, <1>2, <1>3 DEF RunsAgain, Typed, TypeOK

LEMMA RunEndsType ==
    ASSUME Typed, NEW p \in Procs, RunEnds(p)
    PROVE  Typed'
<1> DEFINE recs == Recorded(stage[p])
<1>1. PICK latent \in Latents(p) :
        \/ Reports(p, recs, Seen(p, recs, latent))
        \/ RunsAgain(p, recs, Seen(p, recs, latent), FALSE)
  BY DEF RunEnds
<1> DEFINE seen == Seen(p, recs, latent)
<1>2. /\ Rest(p) \in [Procs -> StageType] /\ stage[p] \in StageType
      /\ gpu \in Procs \cup {Nobody} /\ work \in [Evaluators -> WorkType]
  BY KilledType DEF Rest, Typed, TypeOK
<1>3. recs \in Seq({"base", "candidate"}) /\ seen \in SUBSET {"one", "other"}
  BY <1>2, RecordedType DEF Seen, Latents, StageType
<1>4. /\ ev' = BuildsKilled(p) \/ ev' = ev
      /\ Elsewhere /\ faults' \in 0 .. MaxFaults
  BY DEF RunEnds, BuildsAfter, Typed, TypeOK
<1>5. CASE Reports(p, recs, seen)
  <2>1. PICK result \in {"absent", "PASS", "FAIL", "NOT_RUN"}, rc \in {0, 1} :
          /\ Write(p, result, recs)
          /\ stage' = [Rest(p) EXCEPT ![p] = Over(p, rc)] /\ gpu' = LockAfter(p, rc)
    BY <1>5, GateResultType DEF Reports
  <2> HIDE DEF recs, seen
  <2>2. work' \in [Evaluators -> WorkType]
    <3>1. result \in Results
      BY DEF Results
    <3> QED
      BY <1>2, <1>3, <2>1, <3>1, WriteType
  <2>3. stage' \in [Procs -> StageType]
    BY <1>2, <2>1, OverType
  <2> QED
    BY <1>2, <1>4, <2>1, <2>2, <2>3, KillsType DEF LockAfter
<1>6. CASE RunsAgain(p, recs, seen, FALSE)
  BY <1>3, <1>4, <1>6, RunAgainType, KillsType
<1> QED
  BY <1>1, <1>5, <1>6

LEMMA RunFailsType ==
    ASSUME Typed, NEW p \in Procs, RunFails(p)
    PROVE  Typed'
<1>1. /\ Rest(p) \in [Procs -> StageType] /\ stage[p] \in StageType
      /\ gpu \in Procs \cup {Nobody} /\ work \in [Evaluators -> WorkType]
      /\ faults \in 0 .. MaxFaults
  BY KilledType DEF Rest, Typed, TypeOK
<1>2. /\ ev' = BuildsKilled(p) \/ ev' = ev
      /\ Elsewhere
  BY DEF RunFails, BuildsAfter
<1>3. faults' \in 0 .. MaxFaults
  BY <1>1, FaultType DEF RunFails
<1>4. CASE /\ stage' = [Rest(p) EXCEPT ![p] = Over(p, 3)] /\ gpu' = LockAfter(p, 3)
           /\ UNCHANGED work
  <2>1. stage' \in [Procs -> StageType]
    BY <1>1, <1>4, OverType
  <2> QED
    BY <1>1, <1>2, <1>3, <1>4, <2>1, KillsType DEF LockAfter
<1>5. CASE RunsAgain(p, stage[p].recs, stage[p].seen, TRUE)
  <2>1. stage[p].recs \in Seq({"base", "candidate"}) /\ stage[p].seen \in SUBSET {"one", "other"}
    BY <1>1 DEF StageType
  <2> QED
    BY <1>2, <1>3, <1>5, <2>1, RunAgainType, KillsType
<1> QED
  BY <1>4, <1>5 DEF RunFails

\* A script goes on: to a place, to an answer, or to a stage.
LEMMA ScriptType ==
    ASSUME Typed, NEW e \in Evaluators, Active(e), NEW pc \in Pcs, NEW outcome \in Outcomes,
           NEW what \in Stages,
           \/ (Goto(e, pc) \/ Answer(e, outcome)) /\ UNCHANGED stage
           \/ Run(e, what)
    PROVE  /\ stage' \in [Procs -> StageType] /\ ev' \in [Evaluators -> EvType]
           /\ \A x \in Evaluators : Active(x)' => ev'[x].pr \in PRs
<1>1. stage \in [Procs -> StageType] /\ ev \in [Evaluators -> EvType]
  BY DEF Typed, TypeOK
<1>2. \A x \in Evaluators : ev'[x].pr = ev[x].pr /\ (x # e => ev'[x].pc = ev[x].pc)
  <2>1. CASE Goto(e, pc)
    BY <1>1, <2>1, GotoType
  <2>2. CASE Answer(e, outcome)
    BY <1>1, <2>2, AnswerType
  <2>3. CASE Run(e, what)
    BY <1>1, <2>3 DEF Run, Goto, EvType
  <2> QED
    BY <2>1, <2>2, <2>3
<1>3. \A x \in Evaluators : Active(x)' => ev'[x].pr \in PRs
  BY <1>2, KeepsPrs
<1> QED
  BY <1>1, <1>3, GotoType, AnswerType, RunType

LEMMA NextStageType ==
    ASSUME Typed, NEW e \in Evaluators, NextStage(e)
    PROVE  Typed'
<1>1. Active(e) /\ Elsewhere /\ UNCHANGED <<gpu, work, faults>>
  BY DEF NextStage, Active, Stages, GateStages
<1>2. \/ \E pc \in {"fill", "score"} : Goto(e, pc) /\ UNCHANGED stage
      \/ \E outcome \in Outcomes : Answer(e, outcome) /\ UNCHANGED stage
      \/ \E what \in {"bench", "calibrate"} : Run(e, what)
  BY DEF NextStage, AfterStage, Outcomes
<1>3. "fill" \in Pcs /\ "score" \in Pcs /\ "bench" \in Stages /\ "calibrate" \in Stages
      /\ "partial" \in Outcomes
  BY DEF Pcs, Stages, Outcomes
<1>4. /\ stage' \in [Procs -> StageType] /\ ev' \in [Evaluators -> EvType]
      /\ \A x \in Evaluators : Active(x)' => ev'[x].pr \in PRs
  BY <1>1, <1>2, <1>3, ScriptType
<1>5. /\ gpu' \in Procs \cup {Nobody} /\ work' \in [Evaluators -> WorkType]
      /\ faults' \in 0 .. MaxFaults
  BY <1>1 DEF Typed, TypeOK
<1> QED
  BY <1>1, <1>4, <1>5, ElsewhereType

\* Unpacking and building, as the sandbox account.
LEMMA BuildType ==
    ASSUME Typed, NEW e \in Evaluators, Unpack(e) \/ Build(e)
    PROVE  Typed'
<1>1. /\ stage \in [Procs -> StageType] /\ ev \in [Evaluators -> EvType]
      /\ gpu' \in Procs \cup {Nobody} /\ work' \in [Evaluators -> WorkType]
      /\ faults' \in 0 .. MaxFaults /\ Elsewhere /\ Active(e)
  BY DEF Unpack, Build, Typed, TypeOK, Active
<1>2. stage' \in [Procs -> StageType]
  BY <1>1, KilledType DEF Unpack, Build
<1>3. PICK new \in EvType :
        /\ ev' = [BuildsKilled(e) EXCEPT ![e] = new]
        /\ new.pr = ev[e].pr \/ new.pc \in {"idle", "round"}
  <2>1. HomeOf(e) \in EvType /\ HomeOf(e).pc \in {"idle", "round"}
    BY StartType DEF HomeOf, Home, Idle, EvType, Pcs
  <2>2. \A pc \in {"build", "start", "check"} :
            [ev[e] EXCEPT !.pc = pc] \in EvType /\ [ev[e] EXCEPT !.pc = pc].pr = ev[e].pr
    BY <1>1 DEF EvType, Pcs
  <2>3. LET new == [ev[e] EXCEPT !.pc = "answer", !.want = "build-fail"]
        IN  new \in EvType /\ new.pr = ev[e].pr
    <3>1. "answer" \in Pcs /\ "build-fail" \in Outcomes
      BY DEF Pcs, Outcomes
    <3> QED
      BY <1>1, <3>1 DEF EvType
  <2>4. CASE Unpack(e)
    BY <2>1, <2>2, <2>4 DEF Unpack
  <2>5. CASE Build(e)
    BY <2>2, <2>3, <2>5 DEF Build
  <2> QED
    BY <2>4, <2>5
<1>4. ev' \in [Evaluators -> EvType]
  BY <1>1, <1>3, BuildsKilledType
<1>5. \A x \in Evaluators : Active(x)' => ev'[x].pr \in PRs
  BY <1>1, <1>3, BuildsKilledType, BuildsKilledKeeps DEF Typed, Active
<1> QED
  BY <1>1, <1>2, <1>4, <1>5, ElsewhereType

\* The steps that start a stage.
LEMMA StartsType ==
    ASSUME Typed, NEW e \in Evaluators, GateBase(e) \/ CheckCell(e)
    PROVE  Typed'
<1>1. /\ gpu' \in Procs \cup {Nobody} /\ faults' \in 0 .. MaxFaults
      /\ cache.is \in Results /\ work \in [Evaluators -> WorkType]
      /\ Elsewhere /\ Active(e)
  BY DEF GateBase, CheckCell, Typed, TypeOK, Active
<1>2. work' \in [Evaluators -> WorkType]
  BY <1>1 DEF GateBase, CheckCell, WorkType
<1>3. \/ Answer(e, "partial") /\ UNCHANGED stage
      \/ \E what \in {"gate-base", "gate-cand", "gate-cell"} : Run(e, what)
  BY DEF GateBase, CheckCell
<1>4. {"gate-base", "gate-cand", "gate-cell"} \subseteq Stages
      /\ "partial" \in Outcomes /\ "idle" \in Pcs /\ "anchor" \in Stages
  BY DEF Stages, GateStages, Outcomes, Pcs
<1>5. /\ stage' \in [Procs -> StageType] /\ ev' \in [Evaluators -> EvType]
      /\ \A x \in Evaluators : Active(x)' => ev'[x].pr \in PRs
  BY <1>1, <1>3, <1>4, ScriptType
<1> QED
  BY <1>1, <1>2, <1>5, ElsewhereType

LEMMA TimeoutType ==
    ASSUME Typed, NEW e \in Evaluators, Timeout(e)
    PROVE  Typed'
<1>1. /\ stage \in [Procs -> StageType] /\ ev \in [Evaluators -> EvType]
      /\ work' \in [Evaluators -> WorkType] /\ faults' \in 0 .. MaxFaults /\ Elsewhere
  BY FaultType DEF Timeout, Typed, TypeOK
<1>2. PICK o \in Orphans : /\ stage' = [stage EXCEPT ![o] = stage[e], ![e] = Off]
                           /\ gpu' = IF gpu = e THEN o ELSE gpu
  BY DEF Timeout
<1>3. stage' \in [Procs -> StageType] /\ gpu' \in Procs \cup {Nobody}
  BY <1>1, <1>2, OffType, EvaluatorsAreProcs DEF Typed, TypeOK
<1>4. HomeOf(e) \in EvType /\ HomeOf(e).pc \in {"idle", "round"}
  BY StartType DEF HomeOf, Home, Idle, EvType, Pcs
<1>5. ev' = [ev EXCEPT ![e] = HomeOf(e)]
  BY DEF Timeout
<1>6. /\ ev' \in [Evaluators -> EvType]
      /\ \A x \in Evaluators : Active(x)' => ev'[x].pr \in PRs
  BY <1>1, <1>4, <1>5 DEF Typed, Active
<1> QED
  BY <1>1, <1>3, <1>6, ElsewhereType

\* The steps away from the device.
LEMMA BeginType ==
    ASSUME Typed, NEW e \in Evaluators, NEW pr \in PRs, Begin(e, pr)
    PROVE  Typed'
<1>1. /\ ev \in [Evaluators -> EvType] /\ work \in [Evaluators -> WorkType]
      /\ tries \in [PRs -> 0 .. MaxTries]
  BY DEF Typed, TypeOK
<1>2. [Idle EXCEPT !.pc = "unpack", !.pr = pr] \in EvType
  BY StartType DEF Idle, EvType, Pcs
<1>3. /\ ev' \in [Evaluators -> EvType]
      /\ \A x \in Evaluators : Active(x)' => ev'[x].pr \in PRs
  BY <1>1, <1>2 DEF Begin, Idle, Typed, Active
<1>4. work' \in [Evaluators -> WorkType]
  BY <1>1, StartType DEF Begin
<1>5. tries' \in [PRs -> 0 .. MaxTries]
  BY <1>1, EvaluationAssumption DEF Begin, Due
<1> QED
  BY <1>3, <1>4, <1>5 DEF Begin, device, outcomes, publishing, Typed, TypeOK

LEMMA CacheType ==
    ASSUME Typed, NEW e \in Evaluators, OpenCache(e) \/ WriteCache(e)
    PROVE  Typed'
<1>1. /\ ev[e].pr \in PRs /\ Active(e) /\ work[e].base \in Results
  BY DEF OpenCache, WriteCache, Active, Typed, TypeOK, WorkType
<1>2. cache' \in [is : Results, by : PRs \cup {Nobody}]
  BY <1>1 DEF OpenCache, WriteCache, Results
<1>3. (Goto(e, "filled") /\ UNCHANGED stage) \/ Run(e, "gate-cand")
  BY DEF OpenCache, WriteCache, device
<1>4. "filled" \in Pcs /\ "gate-cand" \in Stages /\ "partial" \in Outcomes
  BY DEF Pcs, Stages, GateStages, Outcomes
<1>5. /\ stage' \in [Procs -> StageType] /\ ev' \in [Evaluators -> EvType]
      /\ \A x \in Evaluators : Active(x)' => ev'[x].pr \in PRs
  BY <1>1, <1>3, <1>4, ScriptType
<1>6. UNCHANGED <<sub, gpu, guest, roundLock, work, receipts, ledger, local, remote, labels,
                  kept, tries, faults>>
  BY DEF OpenCache, WriteCache, device, outcomes, publishing
<1> QED
  BY <1>2, <1>5, <1>6 DEF Typed, TypeOK

LEMMA PlaceType ==
    ASSUME Typed, NEW e \in Evaluators, StartRound(e) \/ Start(e)
    PROVE  Typed'
<1>1. "round" \in Pcs /\ "cache" \in Pcs /\ "anchor" \in Stages /\ "eval-error" \in Outcomes
  BY DEF Pcs, Stages, Outcomes
<1>2. UNCHANGED <<sub, device, guest, files, labels, kept, tries, faults>>
  BY DEF StartRound, Start, outcomes
<1>3. CASE StartRound(e)
  <2>1. Goto(e, "round") /\ roundLock' \in Rounds
    BY <1>3 DEF StartRound
  <2>2. ev \in [Evaluators -> EvType]
    BY DEF Typed, TypeOK
  <2>3. /\ ev' \in [Evaluators -> EvType] /\ ev'[e].pc = "round"
        /\ \A x \in Evaluators : ev'[x].pr = ev[x].pr /\ (x # e => ev'[x] = ev[x])
    BY <1>1, <2>1, <2>2, GotoType
  <2>4. \A x \in Evaluators : Active(x)' => ev'[x].pr \in PRs
    BY <2>3 DEF Typed, Active
  <2> QED
    BY <1>2, <2>1, <2>3, <2>4 DEF device, files, publishing, Typed, TypeOK
<1>4. CASE Start(e)
  <2>1. Active(e) /\ UNCHANGED <<stage, roundLock>>
        /\ (Answer(e, "eval-error") \/ Goto(e, "cache"))
    BY <1>4 DEF Start, Active, device
  <2>2. /\ ev' \in [Evaluators -> EvType]
        /\ \A x \in Evaluators : Active(x)' => ev'[x].pr \in PRs
    BY <1>1, <2>1, ScriptType
  <2> QED
    BY <1>2, <2>1, <2>2 DEF device, files, publishing, Typed, TypeOK
<1> QED
  BY <1>3, <1>4

LEMMA ScoreType ==
    ASSUME Typed, NEW e \in Evaluators, Score(e)
    PROVE  Typed'
<1>1. Active(e) /\ UNCHANGED stage /\ ev[e].pr \in PRs /\ work[e] \in WorkType
      /\ (Answer(e, "scored") \/ Answer(e, "eval-error"))
  BY DEF Score, Active, device, Typed, TypeOK
<1>2. {"scored", "eval-error"} \subseteq Outcomes /\ "anchor" \in Stages /\ "idle" \in Pcs
  BY DEF Outcomes, Stages, Pcs
<1>3. /\ ev' \in [Evaluators -> EvType]
      /\ \A x \in Evaluators : Active(x)' => ev'[x].pr \in PRs
  BY <1>1, <1>2, ScriptType
<1>4. work[e].raw \in Seq({"base", "candidate"})
  BY <1>1 DEF WorkType
<1>5. receipts' \in [PRs -> Seq({"base", "candidate"})] /\ ledger' \subseteq PRs
  BY <1>1, <1>4 DEF Score, Typed, TypeOK
<1> QED
  BY <1>3, <1>5 DEF Score, device, outcomes, Typed, TypeOK

LEMMA LabelType ==
    ASSUME Typed, NEW e \in Evaluators,
           ReadLabels(e) \/ DeleteLabel(e) \/ AddLabel(e) \/ LabelRaises(e)
    PROVE  Typed'
<1>1. /\ ev[e] \in EvType /\ ev[e].pr \in PRs /\ labels[ev[e].pr] \subseteq Outcomes
      /\ labels \in [PRs -> SUBSET Outcomes] /\ kept \in [PRs -> SUBSET Outcomes]
      /\ ev \in [Evaluators -> EvType] /\ faults \in 0 .. MaxFaults
  BY DEF ReadLabels, DeleteLabel, AddLabel, LabelRaises, Active, Typed, TypeOK
<1>2. /\ labels' \in [PRs -> SUBSET Outcomes] /\ kept' \in [PRs -> SUBSET Outcomes]
      /\ faults' \in 0 .. MaxFaults
  <2>1. CASE ReadLabels(e) \/ LabelRaises(e)
    BY <1>1, <2>1, FaultType DEF ReadLabels, LabelRaises, outcomes
  <2>2. CASE AddLabel(e)
    BY <1>1, <2>2 DEF AddLabel, EvType
  <2>3. CASE DeleteLabel(e)
    <3>1. ev[e].old \subseteq Outcomes
      BY <1>1 DEF EvType
    <3>2. PICK l \in ev[e].old :
            \/ /\ labels' = [labels EXCEPT ![ev[e].pr] = @ \ {l}]
               /\ kept' = [kept EXCEPT ![ev[e].pr] = @ \ {l}] /\ UNCHANGED faults
            \/ /\ kept' = [kept EXCEPT ![ev[e].pr] = @ \cup {l}]
               /\ Fault("delete") /\ UNCHANGED labels
      BY <2>3 DEF DeleteLabel
    <3> QED
      BY <1>1, <3>1, <3>2, FaultType
  <2> QED
    BY <2>1, <2>2, <2>3
<1>3. PICK new \in EvType : /\ ev' = [ev EXCEPT ![e] = new]
                            /\ new.pr = ev[e].pr \/ new.pc \in {"idle", "round"}
  <2>1. LET new == [ev[e] EXCEPT !.pc = "delete", !.old = labels[ev[e].pr] \ {ev[e].want}]
        IN  new \in EvType /\ new.pr = ev[e].pr
    BY <1>1 DEF EvType, Pcs
  <2>2. \A l : LET new == [ev[e] EXCEPT !.old = @ \ {l}]
              IN  new \in EvType /\ new.pr = ev[e].pr
    BY <1>1 DEF EvType
  <2>3. HomeOf(e) \in EvType /\ HomeOf(e).pc \in {"idle", "round"}
    BY StartType DEF HomeOf, Home, Idle, EvType, Pcs
  <2>4. CASE ReadLabels(e)
    <3>1. ev' = [ev EXCEPT ![e] = [ev[e] EXCEPT !.pc = "delete",
                                               !.old = labels[ev[e].pr] \ {ev[e].want}]]
      BY <1>1, <2>4 DEF ReadLabels
    <3> QED
      BY <2>1, <3>1
  <2>5. CASE DeleteLabel(e)
    <3>1. PICK l : ev' = [ev EXCEPT ![e] = [ev[e] EXCEPT !.old = @ \ {l}]]
      BY <1>1, <2>5 DEF DeleteLabel
    <3> QED
      BY <2>2, <3>1
  <2>6. CASE AddLabel(e) \/ LabelRaises(e)
    BY <2>3, <2>6 DEF AddLabel, LabelRaises
  <2> QED
    BY <2>4, <2>5, <2>6
<1>4. /\ ev' \in [Evaluators -> EvType]
      /\ \A x \in Evaluators : Active(x)' => ev'[x].pr \in PRs
  BY <1>1, <1>3 DEF Typed, Active
<1>5. UNCHANGED <<sub, gpu, stage, guest, roundLock, work, cache, receipts, ledger, local,
                  remote, tries>>
  BY DEF ReadLabels, DeleteLabel, AddLabel, LabelRaises, device, files, publishing
<1> QED
  BY <1>2, <1>4, <1>5 DEF Typed, TypeOK

LEMMA PublishType ==
    ASSUME Typed, NEW e \in Evaluators, CommitLedger(e) \/ PushLedger(e)
    PROVE  Typed'
<1>1. /\ ev \in [Evaluators -> EvType] /\ faults \in 0 .. MaxFaults
      /\ ledger \in SUBSET PRs
      /\ local \in Seq(SUBSET PRs) /\ remote \in Seq(SUBSET PRs)
  BY DEF Typed, TypeOK
<1>2. \E pc \in {"push", "idle"} : Goto(e, pc)
  BY DEF CommitLedger, PushLedger
<1>3. {"push", "idle"} \subseteq Pcs
  BY DEF Pcs
<1>4. /\ ev' \in [Evaluators -> EvType]
      /\ \A x \in Evaluators : Active(x)' => ev'[x].pr \in PRs
  <2>1. PICK pc \in Pcs : Goto(e, pc) /\ pc \in {"push", "idle"}
    BY <1>2, <1>3
  <2>2. /\ ev' \in [Evaluators -> EvType] /\ ev'[e].pc = pc
        /\ \A x \in Evaluators : ev'[x].pr = ev[x].pr /\ (x # e => ev'[x] = ev[x])
    BY <1>1, <2>1, GotoType
  <2> QED
    BY <2>1, <2>2 DEF Typed, Active
<1>5. /\ ledger' = ledger /\ faults' \in 0 .. MaxFaults
      /\ local' \in Seq(SUBSET PRs) /\ remote' \in Seq(SUBSET PRs)
  <2>1. CASE CommitLedger(e)
    <3>1. Append(local, ledger) \in Seq(SUBSET PRs)
      BY <1>1
    <3>2. local' \in {local, Append(local, ledger)} /\ ledger' = ledger /\ remote' = remote
          /\ faults' = faults
      BY <2>1 DEF CommitLedger, Commit
    <3> QED
      BY <1>1, <3>1, <3>2
  <2>2. CASE PushLedger(e)
    BY <1>1, <2>2, FaultType DEF PushLedger, Push, publishing
  <2> QED
    BY <2>1, <2>2
<1>6. /\ UNCHANGED <<sub, gpu, stage, guest, work, cache, receipts, labels, kept, tries>>
      /\ roundLock' \in {roundLock, Nobody}
  BY DEF CommitLedger, PushLedger, device, outcomes
<1> QED
  BY <1>4, <1>5, <1>6 DEF Typed, TypeOK

LEMMA BoxType ==
    ASSUME Typed, BoxStops \/ BoxLost
    PROVE  Typed'
<1>1. /\ gpu' = Nobody /\ stage' \in [Procs -> StageType]
      /\ ev' \in [Evaluators -> EvType] /\ work' \in [Evaluators -> WorkType]
      /\ roundLock' = Nobody /\ guest' = FALSE /\ UNCHANGED <<sub, labels, kept, tries>>
  BY OffType, StartType DEF BoxStops, BoxLost, Gone, outcomes
<1>2. faults' \in 0 .. MaxFaults
  BY FaultType DEF BoxStops, BoxLost, Typed, TypeOK
<1>3. \A x \in Evaluators : ~Active(x)'
  BY DEF BoxStops, BoxLost, Gone, Active, Idle
<1>4. Committed(remote) \subseteq PRs
  BY DEF Committed, Last, Typed, TypeOK
<1>5. ledger' \subseteq PRs /\ local' \in Seq(SUBSET PRs) /\ remote' \in Seq(SUBSET PRs)
  BY <1>4 DEF BoxStops, BoxLost, Clone, publishing, Typed, TypeOK
<1>6. receipts' \in [PRs -> Seq({"base", "candidate"})]
  <2>1. <<>> \in Seq({"base", "candidate"})
    OBVIOUS
  <2> QED
    BY <2>1 DEF BoxStops, BoxLost, publishing, Typed, TypeOK
<1>7. cache' \in [is : Results, by : PRs \cup {Nobody}]
  BY StartType DEF BoxStops, BoxLost, Typed, TypeOK
<1> QED
  BY <1>1, <1>2, <1>3, <1>5, <1>6, <1>7 DEF Typed, TypeOK

LEMMA TypeStep == Typed /\ [Next]_vars => Typed'
<1> SUFFICES ASSUME Typed, [Next]_vars PROVE Typed'
  OBVIOUS
<1>1. CASE UNCHANGED vars
  BY <1>1 DEF vars, device, files, outcomes, publishing, Active, Typed, TypeOK
<1>2. ASSUME NEW p \in Procs, StageStep(p) PROVE Typed'
  BY <1>2, EnterType, LaunchFailsType, RunEndsType, RunFailsType DEF StageStep
<1>3. ASSUME NEW p \in Procs, Calibrate(p) PROVE Typed'
  <2>1. stage' \in [Procs -> StageType] /\ gpu' \in Procs \cup {Nobody}
    BY <1>3, AtType DEF Calibrate, Typed, TypeOK, At
  <2> QED
    BY <1>3, <2>1, StageType1 DEF Calibrate
<1>4. ASSUME NEW e \in Evaluators, EvaluatorStep(e) \/ StartRound(e) PROVE Typed'
  BY <1>4, BuildType, PlaceType, StartsType, CacheType, NextStageType, ScoreType, LabelType,
     PublishType DEF EvaluatorStep
<1>5. ASSUME NEW e \in Evaluators, NEW pr \in PRs, Begin(e, pr) PROVE Typed'
  BY <1>5, BeginType
<1>6. CASE GuestArrives \/ GuestLeaves
  BY <1>6 DEF GuestArrives, GuestLeaves, device, files, outcomes, publishing, Active, Typed, TypeOK
<1> QED
  BY <1>1, <1>2, <1>3, <1>4, <1>5, <1>6, TimeoutType, BoxType DEF Next

\* Every state has its type, whatever dies, times out or is refused.
THEOREM TypeCorrect == Spec => []TypeOK
<1>1. Typed => TypeOK
  BY DEF Typed
<1> QED
  BY <1>1, InitType, TypeStep, PTL DEF Spec

-----------------------------------------------------------------------------
\* The device

LEMMA KilledKeeps ==
    ASSUME NEW st \in [Procs -> StageType], NEW p
    PROVE  \A q \in Procs :
            /\ Killed(st, p)[q].at = st[q].at /\ Killed(st, p)[q].what = st[q].what
            /\ Killed(st, p)[q].pr = st[q].pr /\ Killed(st, p)[q].recs = st[q].recs
            /\ Killed(st, p)[q].rc = st[q].rc
<1> TAKE q \in Procs
<1>1. Killed(st, p)[q] \in {st[q], [st[q] EXCEPT !.hit = TRUE]}
  BY DEF Killed
<1>2. st[q] \in StageType
  OBVIOUS
<1>3. CASE Killed(st, p)[q] = st[q]
  BY <1>3
<1>4. CASE Killed(st, p)[q] = [st[q] EXCEPT !.hit = TRUE]
  BY <1>2, <1>4 DEF StageType
<1> QED
  BY <1>1, <1>3, <1>4

LEMMA OverKeeps ==
    ASSUME NEW p \in Procs, NEW rc
    PROVE  Over(p, rc).at \in {"off", "over"}
BY DEF Over, Off

\* One process moves, and takes or leaves only what is free or its own.
LEMMA OneMoves ==
    ASSUME Typed, Locked, NEW p \in Procs,
           \A q \in Procs \ {p} : stage'[q].at = stage[q].at,
           gpu' = gpu \/ gpu \in {p, Nobody},
           Holding(p)' => gpu' = p
    PROVE  Locked'
<1> SUFFICES ASSUME NEW q \in Procs, Holding(q)' PROVE gpu' = q
  BY DEF Locked
<1>1. CASE q = p
  BY <1>1
<1>2. CASE q # p
  <2>1. gpu = q
    BY <1>2 DEF Locked, Holding
  <2> QED
    BY <1>2, <2>1, EvaluationAssumption
<1> QED
  BY <1>1, <1>2

LEMMA EndLocks ==
    ASSUME Typed, Locked, NEW p \in Procs, NEW rc, NEW st \in [Procs -> StageType],
           \A q \in Procs : st[q].at = stage[q].at,
           stage' = [st EXCEPT ![p] = Over(p, rc)], gpu' = LockAfter(p, rc)
    PROVE  Locked'
<1>1. ~Holding(p)'
  BY OverKeeps DEF Holding
<1> QED
  BY <1>1, OneMoves DEF LockAfter

LEMMA StageLocks ==
    ASSUME Typed, Locked, NEW p \in Procs, StageStep(p)
    PROVE  Locked'
<1>1. stage \in [Procs -> StageType]
  BY DEF Typed, TypeOK
<1>2. CASE \E rc : End(p, rc)
  BY <1>1, <1>2, EndLocks DEF End
<1>3. CASE Lock(p)
  BY <1>1, <1>3, OneMoves DEF Lock, StageType
<1>4. CASE Enter(p) /\ ~\E rc : End(p, rc)
  BY <1>1, <1>4, OneMoves DEF Enter, StageType, Holding
<1>5. CASE IdleCheck(p) /\ ~\E rc : End(p, rc)
  BY <1>1, <1>5, OneMoves DEF IdleCheck, StageType, Holding, Locked
<1>6. CASE Launch(p)
  BY <1>1, <1>6, OneMoves DEF Launch, StageType, Holding, Locked
<1>7. CASE LaunchFails(p)
  <2>1. ~Holding(p)'
    BY <1>1, <1>7, KilledType DEF LaunchFails, Off, Holding
  <2> QED
    BY <1>1, <1>7, <2>1, KilledType, KilledKeeps, OneMoves DEF LaunchFails, LockAfter
<1>8. Rest(p) \in [Procs -> StageType] /\ \A q \in Procs : Rest(p)[q].at = stage[q].at
  BY <1>1, KilledType, KilledKeeps DEF Rest
<1>9. CASE \E recs, seen, again : Running(p) /\ RunsAgain(p, recs, seen, again)
  <2>1. gpu' = gpu /\ gpu = p /\ \A q \in Procs \ {p} : stage'[q].at = stage[q].at
    BY <1>8, <1>9 DEF RunsAgain, Running, Locked, Holding
  <2> QED
    BY <2>1, OneMoves
<1>10. CASE \E rc : stage' = [Rest(p) EXCEPT ![p] = Over(p, rc)] /\ gpu' = LockAfter(p, rc)
  BY <1>8, <1>10, EndLocks
<1> QED
  BY <1>2, <1>3, <1>4, <1>5, <1>6, <1>7, <1>9, <1>10 DEF StageStep, RunEnds, RunFails, Reports

LEMMA LockStep == Typed /\ Locked /\ [Next]_vars => Locked'
<1> SUFFICES ASSUME Typed, Locked, [Next]_vars PROVE Locked'
  OBVIOUS
<1>1. stage \in [Procs -> StageType] /\ Evaluators \subseteq Procs
  BY EvaluatorsAreProcs DEF Typed, TypeOK
<1>2. CASE UNCHANGED device
  BY <1>2 DEF device, Locked, Holding
<1>3. ASSUME NEW p \in Procs, Calibrate(p) PROVE Locked'
  BY <1>1, <1>3, OneMoves DEF Calibrate, StageType, Holding
<1>4. ASSUME NEW e \in Evaluators, NEW what, Run(e, what), UNCHANGED gpu PROVE Locked'
  BY <1>1, <1>4, OneMoves DEF Run, Off, Holding
<1>5. ASSUME NEW e \in Evaluators, Unpack(e) \/ Build(e) PROVE Locked'
  BY <1>1, <1>5, KilledKeeps DEF Unpack, Build, Locked, Holding
<1>6. ASSUME NEW e \in Evaluators, Timeout(e) PROVE Locked'
  <2>1. PICK o \in Orphans : /\ stage[o].at = "off"
                             /\ stage' = [stage EXCEPT ![o] = stage[e], ![e] = Off]
                             /\ gpu' = IF gpu = e THEN o ELSE gpu
    BY <1>6 DEF Timeout
  <2>2. o \in Procs /\ e \in Procs /\ o # e
    BY EvaluationAssumption, EvaluatorsAreProcs DEF Evaluators
  <2>3. /\ stage'[o] = stage[e] /\ stage'[e] = Off
        /\ \A q \in Procs \ {o, e} : stage'[q] = stage[q]
    BY <1>1, <2>1, <2>2
  <2> SUFFICES ASSUME NEW q \in Procs, Holding(q)' PROVE gpu' = q
    BY DEF Locked
  <2>4. q # e
    BY <2>3 DEF Holding, Off
  <2>5. CASE q = o
    <3>1. gpu = e
      BY <2>2, <2>3, <2>5 DEF Locked, Holding
    <3> QED
      BY <2>1, <2>5, <3>1
  <2>6. CASE q # o
    <3>1. gpu = q
      BY <2>3, <2>4, <2>6 DEF Locked, Holding
    <3> QED
      BY <2>1, <2>4, <3>1
  <2> QED
    BY <2>5, <2>6
<1>7. CASE BoxStops \/ BoxLost
  BY <1>7 DEF BoxStops, BoxLost, Gone, Off, Locked, Holding
<1>8. ASSUME NEW e \in Evaluators, EvaluatorStep(e)
      PROVE  \/ UNCHANGED device \/ Unpack(e) \/ Build(e)
             \/ UNCHANGED gpu /\ \E what : Run(e, what)
  BY <1>8 DEF EvaluatorStep, Start, GateBase, OpenCache, WriteCache, NextStage, Score, CheckCell,
              ReadLabels, DeleteLabel, AddLabel, LabelRaises, CommitLedger, PushLedger, device
<1>9. CASE GuestArrives \/ GuestLeaves \/ UNCHANGED vars
           \/ \E e \in Evaluators : StartRound(e) \/ \E pr \in PRs : Begin(e, pr)
  BY <1>2, <1>9 DEF GuestArrives, GuestLeaves, StartRound, Begin, vars
<1> QED
  BY <1>2, <1>3, <1>4, <1>5, <1>6, <1>7, <1>8, <1>9, StageLocks DEF Next

LEMMA LockInit == Init => Locked
BY DEF Init, Off, Locked, Holding

\* Two runtimes never run on the device at once, whoever is killed or times out.
THEOREM ExclusiveDevice == Spec => []DeviceIsExclusive
<1>1. Typed /\ Locked => DeviceIsExclusive
  BY DEF Locked, Holding, DeviceIsExclusive, Running
<1> QED
  BY <1>1, InitType, TypeStep, LockInit, LockStep, PTL DEF Spec

-----------------------------------------------------------------------------
(***************************************************************************)
(* What stands behind a receipt.  Each invariant says what a script, its    *)
(* stage and its files remember between the step that finds something out   *)
(* and the step that writes it down; a script's own steps are gone through  *)
(* one by one (Moves), and everybody else's are shown to leave it alone.    *)
(***************************************************************************)

Right == {"good", "flaky"}
BasePassed == \E q \in PRs : sub[q].base \in Right

\* A script waits for the stage it started.
InStep == \A e \in Evaluators : UnderWay(e) =>
            ev[e].pc = stage[e].what /\ ev[e].pr = stage[e].pr

\* What an evaluator has built and judged by the time it has come so far.
BuiltPcs == {"start", "check", "cache", "fill", "filled", "score"} \cup Stages
Built == \A e \in Evaluators : ev[e].pc \in BuiltPcs => sub[ev[e].pr].builds
JudgedOne(e) ==
    /\ work[e].base = "PASS" => BasePassed
    /\ Active(e) /\ work[e].cand = "PASS" => sub[ev[e].pr].cand \in Right
    /\ stage[e].what = "bench" /\ UnderWay(e) /\ stage[e].at # "enter" => GatesPass(work[e])
    /\ Active(e) /\ work[e].raw # <<>> =>
         sub[ev[e].pr].builds /\ sub[ev[e].pr].cand \in Right /\ BasePassed
Judged == /\ cache.is = "PASS" => BasePassed
          /\ \A e \in Evaluators : JudgedOne(e)

\* Records so far, base and candidate in turn.
InTurn(recs) == \A k \in 1 .. Len(recs) : recs[k] = Turn(k)
WholeBench(recs) == recs = <<>> \/ (InTurn(recs) /\ Len(recs) = Needed("bench"))
Alternating ==
    /\ \A p \in Procs :
        /\ UnderWay(p) => InTurn(stage[p].recs) /\ Len(stage[p].recs) < Needed(stage[p].what)
        /\ stage[p].at = "off" => stage[p].recs = <<>>
    /\ \A e \in Evaluators : WholeBench(work[e].raw)
    /\ \A pr \in PRs : WholeBench(receipts[pr])

\* A gate of the base arm that is about to be cached has passed, and a bench that is
\* about to be scored has left its records.
Cacheable(e) == work[e].base = "PASS" /\ sub[ev[e].pr].base \in Right
EndedWell(e) == stage[e].at = "over" /\ stage[e].rc = 0
InHand(e) ==
    /\ ev[e].pc \in {"fill", "filled"} \/ (ev[e].pc = "gate-base" /\ EndedWell(e))
         => Cacheable(e)
    /\ ev[e].pc = "score" \/ (ev[e].pc = "bench" /\ EndedWell(e)) => work[e].raw # <<>>
Cached == CacheServesPasses /\ \A e \in Evaluators : InHand(e)

\* The ledger's directory has the receipts and nothing else.
Filed == {pr \in PRs : receipts[pr] # <<>>}
InLedger == ledger = Filed

\* The published history only grows, and the ledger has all of it.
Growing(history) == \A i, j \in DOMAIN history : i <= j => history[i] \subseteq history[j]
Known ==
    /\ Growing(local) /\ Growing(remote)
    /\ \A i \in DOMAIN local : local[i] \subseteq ledger
    /\ PublishedIsKnown

\* One evaluator at a time gives one outcome at a time.
Single == \A pr \in PRs : \A l, m \in labels[pr] \ kept[pr] : l = m
Labelling ==
    /\ \A e \in Evaluators : ev[e].pc # "idle" => roundLock = e
    /\ Single
    /\ \A e \in Evaluators :
        ev[e].pc = "delete" =>
            labels[ev[e].pr] \subseteq ev[e].old \cup kept[ev[e].pr] \cup {ev[e].want}

-----------------------------------------------------------------------------
\* What a step leaves alone

SameStage(q) ==
    /\ stage'[q].at = stage[q].at /\ stage'[q].what = stage[q].what
    /\ stage'[q].pr = stage[q].pr /\ stage'[q].recs = stage[q].recs
    /\ stage'[q].rc = stage[q].rc
SamePlace(x) ==
    /\ ev'[x].pc = ev[x].pc /\ ev'[x].pr = ev[x].pr
    /\ ev'[x].want = ev[x].want /\ ev'[x].old = ev[x].old

\* How a stage's step leaves it: failed, a step further, before another run, or with
\* its report.
Fails(p) ==
    /\ work' = work /\ stage'[p].at \in {"off", "over"}
    /\ stage'[p].at = "over" => stage'[p].rc # 0
    /\ stage'[p].at = "off" => stage'[p].recs = <<>>
Advances(p) ==
    /\ work' = work /\ UnderWay(p) /\ UnderWay(p)'
    /\ stage'[p].what = stage[p].what /\ stage'[p].pr = stage[p].pr
    /\ stage'[p].recs = stage[p].recs
    /\ stage[p].what = "bench" /\ stage[p].at = "enter" => GatesPass(work[p])
Continues(p) ==
    /\ work' = work /\ Running(p) /\ stage'[p].at = "ready"
    /\ stage'[p].what = stage[p].what /\ stage'[p].pr = stage[p].pr
    /\ \/ stage'[p].recs = stage[p].recs
       \/ /\ stage'[p].recs = Recorded(stage[p])
          /\ Len(stage'[p].recs) < Needed(stage[p].what)
Finishes(p) ==
    /\ Running(p) /\ stage'[p].at \in {"off", "over"} /\ stage'[p].recs = <<>>
    /\ \E seen : /\ Reports(p, Recorded(stage[p]), seen)
                 /\ IsGate(p) \/ Len(Recorded(stage[p])) >= Needed(stage[p].what)

LEMMA RestKeeps ==
    ASSUME Typed, NEW p \in Procs
    PROVE  /\ Rest(p) \in [Procs -> StageType]
           /\ \A q \in Procs :
                /\ Rest(p)[q].at = stage[q].at /\ Rest(p)[q].what = stage[q].what
                /\ Rest(p)[q].pr = stage[q].pr /\ Rest(p)[q].recs = stage[q].recs
                /\ Rest(p)[q].rc = stage[q].rc
<1>1. stage \in [Procs -> StageType]
  BY DEF Typed, TypeOK
<1> QED
  BY <1>1, KilledType, KilledKeeps DEF Rest

\* A stage's step changes nobody else's stage and moves no script.
LEMMA StageFrame ==
    ASSUME Typed, NEW p \in Procs, StageStep(p)
    PROVE  /\ \A q \in Procs \ {p} : SameStage(q)
           /\ \A x \in Evaluators : SamePlace(x)
           /\ \A x \in Evaluators \ {p} : work'[x] = work[x]
           /\ Elsewhere
<1>1. stage \in [Procs -> StageType] /\ ev \in [Evaluators -> EvType]
      /\ work \in [Evaluators -> WorkType]
  BY DEF Typed, TypeOK
<1>2. Elsewhere
  BY DEF StageStep, Enter, Lock, IdleCheck, Launch, LaunchFails, RunEnds, RunFails
<1>3. ev' = ev \/ ev' = BuildsKilled(p)
  BY DEF StageStep, Enter, Lock, IdleCheck, Launch, LaunchFails, RunEnds, RunFails, BuildsAfter
<1>4. \A x \in Evaluators : SamePlace(x)
  BY <1>1, <1>3, BuildsKilledKeeps DEF SamePlace
<1>5. \A x \in Evaluators \ {p} : work'[x] = work[x]
  <2>1. UNCHANGED work \/ \E result, recs : Write(p, result, recs)
    BY DEF StageStep, Enter, Lock, IdleCheck, Launch, LaunchFails, RunEnds, RunFails, Reports,
           RunsAgain
  <2>2. ASSUME NEW result, NEW recs, Write(p, result, recs), NEW x \in Evaluators \ {p}
        PROVE  work'[x] = work[x]
    BY <1>1, <2>2 DEF Write
  <2> QED
    BY <2>1, <2>2
<1>6. ASSUME NEW q \in Procs \ {p} PROVE SameStage(q)
  <2>1. Rest(p) \in [Procs -> StageType] /\ Killed(stage, p) \in [Procs -> StageType]
    BY <1>1, RestKeeps, KilledType
  <2>2. \/ stage'[q] = stage[q] \/ stage'[q] = Rest(p)[q] \/ stage'[q] = Killed(stage, p)[q]
    BY <1>1, <2>1, <1>6 DEF StageStep, Enter, Lock, IdleCheck, Launch, LaunchFails, RunEnds,
        RunFails, Reports, RunsAgain, End
  <2> QED
    BY <1>1, <2>2, RestKeeps, KilledKeeps DEF SameStage
<1> QED
  BY <1>2, <1>4, <1>5, <1>6

LEMMA StageCases ==
    ASSUME Typed, NEW p \in Procs, StageStep(p)
    PROVE  Fails(p) \/ Advances(p) \/ Continues(p) \/ Finishes(p)
<1>1. stage \in [Procs -> StageType] /\ stage[p] \in StageType
  BY DEF Typed, TypeOK
<1>3. CASE UNCHANGED work /\ \E rc \in {2, 3} : End(p, rc)
  <2>1. PICK rc \in {2, 3} : stage' = [stage EXCEPT ![p] = Over(p, rc)]
    BY <1>3 DEF End
  <2>2. stage'[p] = Over(p, rc) /\ rc # 0
    BY <1>1, <2>1
  <2> QED
    BY <1>3, <2>2 DEF Fails, Over, Off
<1>4. CASE Enter(p) /\ ~\E rc \in {2, 3} : End(p, rc)
  BY <1>1, <1>4 DEF Enter, StageType, Advances, UnderWay
<1>5. CASE Lock(p) \/ (IdleCheck(p) /\ ~\E rc \in {2, 3} : End(p, rc)) \/ Launch(p)
  BY <1>1, <1>5 DEF Lock, IdleCheck, Launch, StageType, Advances, UnderWay
<1>6. CASE LaunchFails(p)
  BY <1>1, <1>6, KilledType DEF LaunchFails, Off, Fails
<1>7. Rest(p) \in [Procs -> StageType]
  BY RestKeeps
<1>8. ASSUME NEW recs, NEW seen, NEW again, RunsAgain(p, recs, seen, again)
      PROVE  /\ stage'[p].at = "ready" /\ stage'[p].recs = recs /\ work' = work
             /\ stage'[p].what = stage[p].what /\ stage'[p].pr = stage[p].pr
  BY <1>1, <1>7, <1>8 DEF RunsAgain, StageType
<1>9. CASE RunFails(p)
  <2>1. CASE stage' = [Rest(p) EXCEPT ![p] = Over(p, 3)] /\ UNCHANGED work
    <3>1. stage'[p] = Over(p, 3) /\ work' = work
      BY <1>7, <2>1
    <3> QED
      BY <3>1 DEF Fails, Over, Off
  <2>2. CASE RunsAgain(p, stage[p].recs, stage[p].seen, TRUE)
    BY <1>8, <1>9, <2>2 DEF RunFails, Continues
  <2> QED
    BY <1>9, <2>1, <2>2 DEF RunFails
<1>10. CASE RunEnds(p)
  <2> DEFINE recs == Recorded(stage[p])
  <2>1. PICK seen : \/ Enough(p, recs, seen) /\ Reports(p, recs, seen)
                    \/ ~Enough(p, recs, seen) /\ RunsAgain(p, recs, seen, FALSE)
    BY <1>10 DEF RunEnds
  <2>2. Running(p)
    BY <1>10 DEF RunEnds
  <2>3. CASE Enough(p, recs, seen) /\ Reports(p, recs, seen)
    <3>1. stage'[p].at \in {"off", "over"} /\ stage'[p].recs = <<>>
      <4>1. PICK rc : stage' = [Rest(p) EXCEPT ![p] = Over(p, rc)]
        BY <2>3 DEF Reports
      <4>2. stage'[p] = Over(p, rc)
        BY <1>7, <4>1
      <4> QED
        BY <4>2 DEF Over, Off
    <3>2. IsGate(p) \/ Len(recs) >= Needed(stage[p].what)
      BY <2>3 DEF Enough
    <3> QED
      BY <2>2, <2>3, <3>1, <3>2 DEF Finishes
  <2>4. CASE ~Enough(p, recs, seen) /\ RunsAgain(p, recs, seen, FALSE)
    <3>1. Len(recs) \in Nat /\ Needed(stage[p].what) \in Int
      BY <1>1, RecordedType, EvaluationAssumption DEF Needed, HeldRepeats
    <3>2. Len(recs) < Needed(stage[p].what)
      BY <2>4, <3>1 DEF Enough
    <3> QED
      BY <1>8, <2>2, <2>4, <3>2 DEF Continues
  <2> QED
    BY <2>1, <2>3, <2>4
<1> QED
  BY <1>3, <1>4, <1>5, <1>6, <1>9, <1>10 DEF StageStep, Enter, IdleCheck

\* The steps of an evaluator's script, timeouts aside.
Moves(e) == StartRound(e) \/ EvaluatorStep(e) \/ \E pr \in PRs : Begin(e, pr)

LEMMA ScriptFrame ==
    ASSUME Typed, NEW e \in Evaluators, Moves(e)
    PROVE  /\ \A q \in Procs : SameStage(q) \/ (q = e /\ \E what \in Stages : Run(e, what))
           /\ \A x \in Evaluators \ {e} : SamePlace(x) /\ work'[x] = work[x]
           /\ UNCHANGED sub
<1>1. /\ stage \in [Procs -> StageType] /\ ev \in [Evaluators -> EvType]
      /\ work \in [Evaluators -> WorkType] /\ UNCHANGED sub
  BY DEF Moves, EvaluatorStep, StartRound, Begin, Unpack, Build, Start, GateBase, OpenCache,
         WriteCache, NextStage, Score, CheckCell, ReadLabels, DeleteLabel, AddLabel, LabelRaises,
         CommitLedger, PushLedger, Elsewhere, Typed, TypeOK
<1>2. \/ UNCHANGED stage \/ stage' = Killed(stage, e)
      \/ \E what \in {"gate-base", "gate-cand", "gate-cell", "bench", "calibrate"} : Run(e, what)
  BY DEF Moves, EvaluatorStep, StartRound, Begin, Unpack, Build, Start, GateBase, OpenCache,
         WriteCache, NextStage, Score, CheckCell, ReadLabels, DeleteLabel, AddLabel, LabelRaises,
         CommitLedger, PushLedger, device
<1>3. ASSUME NEW q \in Procs
      PROVE  SameStage(q) \/ (q = e /\ \E what \in Stages : Run(e, what))
  <2>1. CASE UNCHANGED stage
    BY <2>1 DEF SameStage
  <2>2. CASE stage' = Killed(stage, e)
    BY <1>1, <2>2, KilledKeeps DEF SameStage
  <2>3. ASSUME NEW what \in {"gate-base", "gate-cand", "gate-cell", "bench", "calibrate"},
               Run(e, what)
        PROVE  SameStage(q) \/ (q = e /\ \E x \in Stages : Run(e, x))
    <3>1. what \in Stages
      BY DEF Stages, GateStages
    <3>2. q # e => stage'[q] = stage[q]
      BY <1>1, <2>3 DEF Run
    <3> QED
      BY <2>3, <3>1, <3>2 DEF SameStage
  <2> QED
    BY <1>2, <2>1, <2>2, <2>3
<1>4. ASSUME NEW x \in Evaluators \ {e} PROVE SamePlace(x)
  <2>1. BuildsKilled(e) \in [Evaluators -> EvType]
    BY <1>1, BuildsKilledType
  <2>2. ev'[x] = ev[x] \/ ev'[x] = BuildsKilled(e)[x]
    BY <1>1, <2>1, <1>4
       DEF Moves, EvaluatorStep, StartRound, Begin, Unpack, Build, Start, GateBase, OpenCache,
           WriteCache, NextStage, Score, CheckCell, ReadLabels, DeleteLabel, AddLabel, LabelRaises,
           CommitLedger, PushLedger, Goto, Answer, Run, AfterStage
  <2> QED
    BY <1>1, <2>2, BuildsKilledKeeps DEF SamePlace
<1>5. ASSUME NEW x \in Evaluators \ {e} PROVE work'[x] = work[x]
  BY <1>1, <1>5
     DEF Moves, EvaluatorStep, StartRound, Begin, Unpack, Build, Start, GateBase, OpenCache,
         WriteCache, NextStage, Score, CheckCell, ReadLabels, DeleteLabel, AddLabel, LabelRaises,
         CommitLedger, PushLedger, files
<1> QED
  BY <1>1, <1>3, <1>4, <1>5

\* A timeout leaves the evaluator without stage or pull request.
LEMMA TimeoutFrame ==
    ASSUME Typed, NEW e \in Evaluators, Timeout(e)
    PROVE  /\ stage'[e] = Off /\ ~Active(e)' /\ ev'[e].pc \in {"idle", "round"}
           /\ \E o \in Orphans : /\ stage[o].at = "off" /\ stage'[o] = stage[e]
                                 /\ \A q \in Procs \ {o, e} : SameStage(q)
           /\ \A x \in Evaluators \ {e} : SamePlace(x)
           /\ UNCHANGED work /\ Elsewhere
<1>1. stage \in [Procs -> StageType] /\ ev \in [Evaluators -> EvType]
  BY DEF Typed, TypeOK
<1>2. PICK o \in Orphans : stage[o].at = "off" /\ stage' = [stage EXCEPT ![o] = stage[e], ![e] = Off]
  BY DEF Timeout
<1>3. o \in Procs /\ e \in Procs /\ o # e
  BY EvaluationAssumption, EvaluatorsAreProcs DEF Evaluators
<1>4. /\ stage'[o] = stage[e] /\ stage'[e] = Off
      /\ \A q \in Procs \ {o, e} : stage'[q] = stage[q]
  BY <1>1, <1>2, <1>3
<1>5. ev'[e] = HomeOf(e) /\ \A x \in Evaluators \ {e} : ev'[x] = ev[x]
  BY <1>1 DEF Timeout
<1>6. HomeOf(e).pc \in {"idle", "round"}
  BY DEF HomeOf, Home, Idle
<1>7. UNCHANGED work /\ Elsewhere
  BY DEF Timeout
<1> QED
  BY <1>2, <1>4, <1>5, <1>6, <1>7 DEF SameStage, SamePlace, Active

LEMMA BoxFrame ==
    ASSUME BoxStops \/ BoxLost
    PROVE  /\ \A p \in Procs : stage'[p] = Off
           /\ \A e \in Evaluators : ev'[e] = Idle /\ work'[e] = NoFiles
           /\ UNCHANGED sub
BY DEF BoxStops, BoxLost, Gone

\* Everything a step may be.
LEMMA StepCases ==
    ASSUME [Next]_vars
    PROVE  \/ \E p \in Procs : StageStep(p) \/ Calibrate(p)
           \/ \E e \in Evaluators : Moves(e) \/ Timeout(e)
           \/ BoxStops \/ BoxLost
           \/ UNCHANGED <<sub, device, ev, roundLock, files, outcomes>>
BY DEF Next, vars, Moves, GuestArrives, GuestLeaves

\* Only a script changes the cache, the receipts or what is published, unless the
\* box is lost.
Filing(e) == OpenCache(e) \/ WriteCache(e) \/ Score(e) \/ CommitLedger(e) \/ PushLedger(e)

LEMMA FileMoves ==
    ASSUME [Next]_vars
    PROVE  \/ UNCHANGED <<cache, receipts, publishing>>
           \/ BoxLost
           \/ \E e \in Evaluators : Filing(e)
<1>1. ASSUME NEW p \in Procs, StageStep(p) \/ Calibrate(p)
      PROVE  UNCHANGED <<cache, receipts, publishing>>
  BY <1>1 DEF StageStep, Calibrate, Enter, Lock, IdleCheck, Launch, LaunchFails, RunEnds, RunFails,
              Elsewhere
<1>2. ASSUME NEW e \in Evaluators, Moves(e), ~Filing(e)
      PROVE  UNCHANGED <<cache, receipts, publishing>>
  <2>1. CASE StartRound(e) \/ Start(e) \/ ReadLabels(e) \/ DeleteLabel(e) \/ AddLabel(e)
             \/ LabelRaises(e)
    BY <2>1 DEF StartRound, Start, ReadLabels, DeleteLabel, AddLabel, LabelRaises, files
  <2>2. CASE Unpack(e) \/ Build(e) \/ GateBase(e) \/ NextStage(e) \/ CheckCell(e)
    BY <2>2 DEF Unpack, Build, GateBase, NextStage, CheckCell, Elsewhere
  <2>3. CASE \E pr \in PRs : Begin(e, pr)
    BY <2>3 DEF Begin
  <2> QED
    BY <1>2, <2>1, <2>2, <2>3 DEF Moves, EvaluatorStep, Filing
<1>3. ASSUME NEW e \in Evaluators, Timeout(e)
      PROVE  UNCHANGED <<cache, receipts, publishing>>
  BY <1>3 DEF Timeout, Elsewhere
<1>4. CASE BoxStops \/ UNCHANGED <<sub, device, ev, roundLock, files, outcomes>>
  BY <1>4 DEF BoxStops, files
<1> QED
  BY <1>1, <1>2, <1>3, <1>4, StepCases

-----------------------------------------------------------------------------
\* A script waits for the stage it started

LEMMA InStepKept ==
    ASSUME InStep, NEW e \in Evaluators, SameStage(e), SamePlace(e), UnderWay(e)'
    PROVE  ev'[e].pc = stage'[e].what /\ ev'[e].pr = stage'[e].pr
BY DEF InStep, SameStage, SamePlace, UnderWay

\* An evaluator that moves waits for nothing.
LEMMA MovesAlone ==
    ASSUME Typed, InStep, NEW e \in Evaluators, Moves(e)
    PROVE  ~UnderWay(e)
<1>1. SUFFICES ASSUME UnderWay(e) PROVE FALSE
  OBVIOUS
<1>2. ev[e].pc \in Stages /\ stage[e].at # "over"
  BY <1>1, EvaluatorsAreProcs DEF InStep, UnderWay, Typed, TypeOK, StageType
<1> QED
  BY <1>2 DEF Moves, EvaluatorStep, StartRound, Begin, Unpack, Build, Start, GateBase, OpenCache,
              WriteCache, NextStage, Score, CheckCell, ReadLabels, DeleteLabel, AddLabel,
              LabelRaises, CommitLedger, PushLedger, Home, Stages, GateStages

LEMMA InStepStep ==
    ASSUME Typed, InStep, [Next]_vars
    PROVE  InStep'
<1> SUFFICES ASSUME NEW x \in Evaluators, UnderWay(x)'
             PROVE  ev'[x].pc = stage'[x].what /\ ev'[x].pr = stage'[x].pr
  BY DEF InStep
<1> x \in Procs
  BY EvaluatorsAreProcs
<1>1. ASSUME NEW p \in Procs, StageStep(p) PROVE ev'[x].pc = stage'[x].what /\ ev'[x].pr = stage'[x].pr
  <2>1. CASE x # p
    BY <1>1, <2>1, StageFrame, InStepKept
  <2>2. CASE x = p
    <3>1. UnderWay(x) /\ stage'[x].what = stage[x].what /\ stage'[x].pr = stage[x].pr
      BY <1>1, <2>2, StageCases DEF Fails, Advances, Continues, Finishes, UnderWay, Running
    <3> QED
      BY <1>1, <3>1, StageFrame DEF InStep, SamePlace
  <2> QED
    BY <2>1, <2>2
<1>2. ASSUME NEW p \in Procs, Calibrate(p) PROVE ev'[x].pc = stage'[x].what /\ ev'[x].pr = stage'[x].pr
  <2>1. x # p
    BY <1>2, EvaluationAssumption DEF Calibrate, Evaluators
  <2> QED
    BY <1>2, <2>1 DEF Calibrate, InStep, UnderWay, Typed, TypeOK
<1>3. ASSUME NEW e \in Evaluators, Moves(e) PROVE ev'[x].pc = stage'[x].what /\ ev'[x].pr = stage'[x].pr
  <2>1. CASE x # e
    BY <1>3, <2>1, ScriptFrame, InStepKept
  <2>2. CASE x = e
    <3>1. PICK what \in Stages : Run(e, what)
      BY <1>3, <2>2, ScriptFrame, MovesAlone DEF SameStage, UnderWay
    <3> QED
      BY <2>2, <3>1 DEF Run, Goto, Off, EvType, Typed, TypeOK
  <2> QED
    BY <2>1, <2>2
<1>4. ASSUME NEW e \in Evaluators, Timeout(e) PROVE ev'[x].pc = stage'[x].what /\ ev'[x].pr = stage'[x].pr
  <2>1. x # e
    BY <1>4, TimeoutFrame DEF Off, UnderWay
  <2>2. x \notin Orphans
    BY EvaluationAssumption DEF Evaluators
  <2> QED
    BY <1>4, <2>1, <2>2, TimeoutFrame, InStepKept
<1>5. CASE BoxStops \/ BoxLost
  BY <1>5, BoxFrame DEF Off, UnderWay
<1>6. CASE UNCHANGED <<sub, device, ev, roundLock, files, outcomes>>
  BY <1>6 DEF device, InStep, UnderWay
<1> QED
  BY <1>1, <1>2, <1>3, <1>4, <1>5, <1>6, StepCases

-----------------------------------------------------------------------------
\* What has been built and judged

\* An evaluator keeps its pull request and its files until the next one; only the
\* gate of the base arm may come from the cache.
LEMMA WorkMoves ==
    ASSUME Typed, NEW e \in Evaluators, Moves(e)
    PROVE  /\ \/ work'[e] = work[e] \/ work'[e] = NoFiles
              \/ work'[e] = [work[e] EXCEPT !.base = cache.is] /\ cache.is # "absent"
           /\ Active(e)' => \/ Active(e) /\ ev'[e].pr = ev[e].pr
                           \/ work'[e] = NoFiles
<1>1. /\ stage \in [Procs -> StageType] /\ ev \in [Evaluators -> EvType]
      /\ work \in [Evaluators -> WorkType]
  BY DEF Typed, TypeOK
<1>2. CASE \E pr \in PRs : Begin(e, pr)
  BY <1>1, <1>2 DEF Begin
<1>3. CASE GateBase(e)
  <2>1. Active(e) /\ ev'[e].pr = ev[e].pr
    BY <1>1, <1>3 DEF GateBase, Run, Goto, EvType, Active
  <2>2. work'[e] = work[e] \/ (work'[e] = [work[e] EXCEPT !.base = cache.is] /\ Hit)
    BY <1>1, <1>3 DEF GateBase
  <2> QED
    BY <2>1, <2>2 DEF Hit
<1>4. CASE Unpack(e) \/ Build(e)
  <2>1. BuildsKilled(e) \in [Evaluators -> EvType] /\ work'[e] = work[e] /\ Active(e)
    BY <1>1, <1>4, BuildsKilledType DEF Unpack, Build, Active
  <2>2. \/ ev'[e] = HomeOf(e)
        \/ \E pc \in {"build", "start", "check"} : ev'[e] = [ev[e] EXCEPT !.pc = pc]
        \/ ev'[e] = [ev[e] EXCEPT !.pc = "answer", !.want = "build-fail"]
    BY <1>1, <1>4, <2>1 DEF Unpack, Build
  <2>3. ~Active(e)' \/ ev'[e].pr = ev[e].pr
    BY <1>1, <2>2 DEF HomeOf, Home, Idle, Active, EvType
  <2> QED
    BY <2>1, <2>3
<1>5. CASE StartRound(e) \/ Start(e) \/ OpenCache(e) \/ WriteCache(e) \/ NextStage(e)
           \/ Score(e) \/ CheckCell(e) \/ ReadLabels(e) \/ DeleteLabel(e)
           \/ CommitLedger(e) \/ PushLedger(e) \/ AddLabel(e) \/ LabelRaises(e)
  <2>1. work'[e] = work[e]
    BY <1>5 DEF StartRound, Start, OpenCache, WriteCache, NextStage, Score, CheckCell, ReadLabels,
                DeleteLabel, AddLabel, LabelRaises, CommitLedger, PushLedger, files
  <2>2. Active(e)' => Active(e) /\ ev'[e].pr = ev[e].pr
    <3>1. CASE \E pc, what : Active(e) /\ (Goto(e, pc) \/ Answer(e, what) \/ Run(e, what))
      BY <1>1, <3>1 DEF Goto, Answer, Run, EvType
    <3>2. CASE StartRound(e) \/ CommitLedger(e) \/ PushLedger(e)
      BY <1>1, <3>2 DEF StartRound, CommitLedger, PushLedger, Goto, Active, EvType
    <3>3. CASE AddLabel(e) \/ LabelRaises(e)
      BY <1>1, <3>3 DEF AddLabel, LabelRaises, HomeOf, Home, Idle, Active
    <3>4. CASE ReadLabels(e) \/ DeleteLabel(e)
      BY <1>1, <3>4 DEF ReadLabels, DeleteLabel, Active, EvType
    <3>5. CASE Start(e) \/ OpenCache(e) \/ WriteCache(e) \/ NextStage(e) \/ Score(e)
               \/ CheckCell(e)
      <4>1. Active(e)
        BY <3>5 DEF Start, OpenCache, WriteCache, NextStage, Score, CheckCell, Active, Stages,
                    GateStages
      <4>2. \E pc, what : Goto(e, pc) \/ Answer(e, what) \/ Run(e, what)
        BY <3>5 DEF Start, OpenCache, WriteCache, NextStage, Score, CheckCell, AfterStage
      <4> QED
        BY <3>1, <4>1, <4>2
    <3> QED
      BY <1>5, <3>2, <3>3, <3>4, <3>5
  <2> QED
    BY <2>1, <2>2
<1> QED
  BY <1>2, <1>3, <1>4, <1>5 DEF Moves, EvaluatorStep

LEMMA BuiltStep ==
    ASSUME Typed, Built, [Next]_vars
    PROVE  Built'
<1> SUFFICES ASSUME NEW x \in Evaluators, ev'[x].pc \in BuiltPcs
             PROVE  sub'[ev'[x].pr].builds
  BY DEF Built
<1> x \in Procs
  BY EvaluatorsAreProcs
<1>1. CASE SamePlace(x) /\ UNCHANGED sub
  BY <1>1 DEF SamePlace, Built
<1>2. ASSUME NEW e \in Evaluators, Moves(e), x = e PROVE sub'[ev'[x].pr].builds
  <2>1. ev \in [Evaluators -> EvType] /\ UNCHANGED sub
    BY <1>2, ScriptFrame DEF Typed, TypeOK
  <2>2. CASE Build(e)
    <3>1. BuildsKilled(e) \in [Evaluators -> EvType]
      BY <2>1, BuildsKilledType
    <3>2. \/ /\ sub[ev[e].pr].builds
             /\ \E pc \in {"start", "check"} : ev'[e] = [ev[e] EXCEPT !.pc = pc]
          \/ ev'[e] = [ev[e] EXCEPT !.pc = "answer", !.want = "build-fail"]
      BY <3>1, <2>2 DEF Build
    <3>3. sub[ev[e].pr].builds /\ ev'[e].pr = ev[e].pr
      BY <1>2, <2>1, <3>2 DEF EvType, BuiltPcs, Stages, GateStages
    <3> QED
      BY <1>2, <2>1, <3>3
  <2>3. CASE Start(e) \/ GateBase(e) \/ OpenCache(e) \/ WriteCache(e) \/ NextStage(e)
             \/ Score(e) \/ CheckCell(e)
    <3>1. ev[e].pc \in BuiltPcs
      BY <2>3 DEF Start, GateBase, OpenCache, WriteCache, NextStage, Score, CheckCell, BuiltPcs
    <3>2. \E pc, what : Goto(e, pc) \/ Answer(e, what) \/ Run(e, what)
      BY <2>3 DEF Start, GateBase, OpenCache, WriteCache, NextStage, Score, CheckCell, AfterStage
    <3>3. ev'[e].pr = ev[e].pr
      BY <2>1, <3>2 DEF Goto, Answer, Run, EvType
    <3> QED
      BY <1>2, <2>1, <3>1, <3>3 DEF Built
  <2>4. CASE StartRound(e) \/ CommitLedger(e) \/ PushLedger(e)
    BY <1>2, <2>1, <2>4
       DEF StartRound, CommitLedger, PushLedger, Goto, EvType, BuiltPcs, Stages, GateStages
  <2>5. CASE ReadLabels(e) \/ DeleteLabel(e)
    BY <1>2, <2>1, <2>5 DEF ReadLabels, DeleteLabel, EvType, BuiltPcs, Stages, GateStages
  <2>6. CASE Unpack(e)
    <3>1. BuildsKilled(e) \in [Evaluators -> EvType]
      BY <2>1, BuildsKilledType
    <3>2. ev'[e] = HomeOf(e) \/ ev'[e] = [ev[e] EXCEPT !.pc = "build"]
      BY <3>1, <2>6 DEF Unpack
    <3>3. ev'[e].pc \in {"idle", "round", "build"}
      BY <2>1, <3>2 DEF HomeOf, Home, Idle, EvType
    <3> QED
      BY <1>2, <3>3 DEF BuiltPcs, Stages, GateStages
  <2>7. CASE AddLabel(e) \/ LabelRaises(e)
    BY <1>2, <2>1, <2>7 DEF AddLabel, LabelRaises, HomeOf, Home, Idle, BuiltPcs, Stages, GateStages
  <2>8. CASE \E pr \in PRs : Begin(e, pr)
    BY <1>2, <2>1, <2>8 DEF Begin, Idle, BuiltPcs, Stages, GateStages
  <2> QED
    BY <1>2, <2>2, <2>3, <2>4, <2>5, <2>6, <2>7, <2>8 DEF Moves, EvaluatorStep
<1>3. ASSUME NEW e \in Evaluators, Timeout(e), x = e PROVE FALSE
  BY <1>3, TimeoutFrame DEF BuiltPcs, Stages, GateStages
<1>4. CASE BoxStops \/ BoxLost
  BY <1>4, BoxFrame DEF Idle, BuiltPcs, Stages, GateStages
<1>5. ASSUME NEW p \in Procs, StageStep(p) \/ Calibrate(p) PROVE SamePlace(x) /\ UNCHANGED sub
  BY <1>5, StageFrame DEF Calibrate, Elsewhere, SamePlace
<1>6. ASSUME NEW e \in Evaluators, Moves(e) \/ Timeout(e), x # e
      PROVE  SamePlace(x) /\ UNCHANGED sub
  BY <1>6, ScriptFrame, TimeoutFrame DEF Elsewhere
<1>7. CASE UNCHANGED <<sub, device, ev, roundLock, files, outcomes>>
  BY <1>1, <1>7 DEF SamePlace
<1> QED
  BY <1>1, <1>2, <1>3, <1>4, <1>5, <1>6, <1>7, StepCases

\* A gate that passes has looked at more than the prompt of its replays.
LEMMA GatePasses ==
    ASSUME Typed, Prompts > 1, NEW p \in Procs, stage[p].pr \in PRs, NEW seen,
           GateResult(p, seen) = "PASS"
    PROVE  Arm(p) \in Right
<1>1. Arm(p) \in Behaviours
  BY EvaluationAssumption DEF Arm, Typed, TypeOK, AllSubmissions
<1>2. Correctness(Arm(p)) = "PASS"
  BY DEF GateResult
<1>3. 2 \in 1 .. Prompts
  BY EvaluationAssumption
<1> QED
  BY <1>1, <1>2, <1>3 DEF Correctness, Behaviours, Right

LEMMA WriteCases ==
    ASSUME NEW x \in Evaluators, work \in [Evaluators -> WorkType], NEW result, NEW recs,
           Write(x, result, recs)
    PROVE  /\ stage[x].what = "gate-base" => work'[x] = [work[x] EXCEPT !.base = result]
           /\ stage[x].what \in {"gate-cand", "gate-cell"} =>
                work'[x] = [work[x] EXCEPT !.cand = result]
           /\ stage[x].what = "bench" => work'[x] = [work[x] EXCEPT !.raw = recs]
           /\ stage[x].what \in {"calibrate", "anchor"} => work'[x] = work[x]
<1>1. CASE stage[x].what = "gate-base"
  BY <1>1 DEF Write
<1>2. CASE stage[x].what \in {"gate-cand", "gate-cell"}
  BY <1>2 DEF Write
<1>3. CASE stage[x].what = "bench"
  BY <1>3 DEF Write
<1>4. CASE stage[x].what \in {"calibrate", "anchor"}
  BY <1>4 DEF Write
<1> QED
  BY <1>1, <1>2, <1>3, <1>4

LEMMA FinishJudges ==
    ASSUME Typed, InStep, Built, Judged, Prompts > 1, NEW x \in Evaluators, Finishes(x),
           SamePlace(x), UNCHANGED sub
    PROVE  JudgedOne(x)'
<1> DEFINE pr == ev[x].pr
<1>1. /\ x \in Procs /\ work[x] \in WorkType /\ work \in [Evaluators -> WorkType]
      /\ stage[x].what \in Stages
  BY EvaluatorsAreProcs DEF Typed, TypeOK, StageType
<1>2. /\ ev[x].pc = stage[x].what /\ stage[x].pr = pr /\ Active(x) /\ pr \in PRs
      /\ UnderWay(x) /\ stage[x].at # "enter"
  <2>1. UnderWay(x) /\ stage[x].at # "enter"
    BY DEF Finishes, Running, UnderWay
  <2>2. ev[x].pc = stage[x].what /\ stage[x].pr = pr
    BY <2>1 DEF InStep
  <2> QED
    BY <1>1, <2>1, <2>2 DEF Active, Stages, GateStages, Typed
<1>3. PICK seen : Reports(x, Recorded(stage[x]), seen)
  BY DEF Finishes
<1>4. PICK result : /\ Write(x, result, Recorded(stage[x]))
                    /\ IsGate(x) => result = GateResult(x, seen)
  BY <1>3 DEF Reports
<1>5. ~UnderWay(x)' /\ (Active(x)' <=> Active(x)) /\ ev'[x].pr = pr /\ (BasePassed' <=> BasePassed)
  BY DEF Finishes, UnderWay, SamePlace, Active, BasePassed
<1>6. JudgedOne(x)
  BY DEF Judged
<1>7. CASE stage[x].what = "gate-base"
  <2>1. IsGate(x) /\ Arm(x) = sub[pr].base
    BY <1>2, <1>7 DEF IsGate, GateStages, Arm
  <2>2. result = "PASS" => BasePassed
    <3>1. result = "PASS" => GateResult(x, seen) = "PASS"
      BY <1>4, <2>1
    <3>2. result = "PASS" => Arm(x) \in Right
      BY <1>1, <1>2, <3>1, GatePasses
    <3> QED
      BY <1>2, <2>1, <3>2 DEF BasePassed
  <2>3. work'[x] = [work[x] EXCEPT !.base = result]
    BY <1>1, <1>4, <1>7, WriteCases
  <2>4. /\ work'[x].base = result /\ work'[x].cand = work[x].cand
        /\ work'[x].raw = work[x].raw
    BY <1>1, <2>3 DEF WorkType
  <2> QED
    BY <1>5, <1>6, <2>2, <2>4 DEF JudgedOne
<1>8. CASE stage[x].what \in {"gate-cand", "gate-cell"}
  <2>1. IsGate(x) /\ Arm(x) = sub[pr].cand
    BY <1>2, <1>8 DEF IsGate, GateStages, Arm
  <2>2. result = "PASS" => sub[pr].cand \in Right
    <3>1. result = "PASS" => GateResult(x, seen) = "PASS"
      BY <1>4, <2>1
    <3>2. result = "PASS" => Arm(x) \in Right
      BY <1>1, <1>2, <3>1, GatePasses
    <3> QED
      BY <2>1, <3>2
  <2>3. work'[x] = [work[x] EXCEPT !.cand = result]
    BY <1>1, <1>4, <1>8, WriteCases
  <2>4. /\ work'[x].cand = result /\ work'[x].base = work[x].base
        /\ work'[x].raw = work[x].raw
    BY <1>1, <2>3 DEF WorkType
  <2> QED
    BY <1>5, <1>6, <2>2, <2>4 DEF JudgedOne
<1>9. CASE stage[x].what = "bench"
  <2>1. GatesPass(work[x])
    BY <1>2, <1>6, <1>9 DEF JudgedOne
  <2>2. sub[pr].cand \in Right /\ BasePassed
    BY <1>2, <1>6, <2>1 DEF JudgedOne, GatesPass
  <2>3. sub[pr].builds
    BY <1>2, <1>9 DEF Built, BuiltPcs, Stages
  <2>4. work'[x] = [work[x] EXCEPT !.raw = Recorded(stage[x])]
    BY <1>1, <1>4, <1>9, WriteCases
  <2>5. work'[x].cand = work[x].cand /\ work'[x].base = work[x].base
    BY <1>1, <2>4 DEF WorkType
  <2> QED
    BY <1>5, <1>6, <2>2, <2>3, <2>5 DEF JudgedOne
<1>10. CASE stage[x].what \in {"calibrate", "anchor"}
  <2>1. work'[x] = work[x]
    BY <1>1, <1>4, <1>10, WriteCases
  <2> QED
    BY <1>5, <1>6, <2>1 DEF JudgedOne
<1> QED
  BY <1>1, <1>7, <1>8, <1>9, <1>10 DEF Stages, GateStages

\* Nothing that concerns the evaluator has changed.
LEMMA JudgedKept ==
    ASSUME Judged, NEW x \in Evaluators, SameStage(x), SamePlace(x), work'[x] = work[x],
           UNCHANGED sub
    PROVE  JudgedOne(x)'
BY DEF Judged, JudgedOne, SameStage, SamePlace, UnderWay, Active, BasePassed

LEMMA StageJudges ==
    ASSUME Typed, InStep, Built, Judged, Prompts > 1, NEW p \in Procs, StageStep(p),
           NEW x \in Evaluators
    PROVE  JudgedOne(x)'
<1>1. /\ SamePlace(x) /\ UNCHANGED sub /\ x \in Procs
      /\ x # p => SameStage(x) /\ work'[x] = work[x]
  BY StageFrame, EvaluatorsAreProcs DEF Elsewhere
<1>2. CASE x # p
  BY <1>1, <1>2, JudgedKept
<1>3. CASE x = p /\ Finishes(x)
  BY <1>1, <1>3, FinishJudges
<1>4. CASE x = p /\ ~Finishes(x)
  <2>1. Fails(x) \/ Advances(x) \/ Continues(x)
    BY <1>4, StageCases
  <2>2. JudgedOne(x)
    BY DEF Judged
  <2>3. /\ work' = work /\ (Active(x)' <=> Active(x)) /\ ev'[x].pr = ev[x].pr
        /\ (BasePassed' <=> BasePassed)
    BY <1>1, <2>1 DEF Fails, Advances, Continues, SamePlace, Active, BasePassed
  <2>4. stage'[x].what = "bench" /\ UnderWay(x)' => GatesPass(work[x])
    BY <2>1, <2>2 DEF Fails, Advances, Continues, Running, UnderWay, JudgedOne
  <2> QED
    BY <1>1, <2>2, <2>3, <2>4 DEF JudgedOne
<1> QED
  BY <1>2, <1>3, <1>4

LEMMA MoveJudges ==
    ASSUME Typed, InStep, Judged, NEW x \in Evaluators, Moves(x)
    PROVE  JudgedOne(x)'
<1>1. /\ x \in Procs /\ UNCHANGED sub /\ work[x] \in WorkType
      /\ stage \in [Procs -> StageType]
  BY ScriptFrame, EvaluatorsAreProcs DEF Typed, TypeOK
<1>2. ~UnderWay(x)' \/ stage'[x].at = "enter"
  <2>1. CASE SameStage(x)
    BY <2>1, MovesAlone DEF SameStage, UnderWay
  <2>2. CASE \E what \in Stages : Run(x, what)
    BY <1>1, <2>2 DEF Run, Off
  <2> QED
    BY <1>1, <2>1, <2>2, ScriptFrame
<1>3. JudgedOne(x) /\ (cache.is = "PASS" => BasePassed) /\ (BasePassed' <=> BasePassed)
  BY <1>1 DEF Judged, BasePassed
<1>4. CASE work'[x] = NoFiles
  BY <1>2, <1>4 DEF JudgedOne, NoFiles
<1>5. CASE work'[x] # NoFiles
  <2>1. Active(x)' => Active(x) /\ ev'[x].pr = ev[x].pr
    BY <1>5, WorkMoves
  <2>2. /\ work'[x].base = "PASS" => BasePassed
        /\ work'[x].cand = work[x].cand /\ work'[x].raw = work[x].raw
    BY <1>1, <1>3, <1>5, WorkMoves DEF WorkType, JudgedOne
  <2> QED
    BY <1>1, <1>2, <1>3, <2>1, <2>2 DEF JudgedOne
<1> QED
  BY <1>4, <1>5

\* The cache changes by scripts and is lost with the box.
LEMMA CacheMoves ==
    ASSUME [Next]_vars
    PROVE  \/ cache' = cache \/ cache' = NoCache
           \/ \E e \in Evaluators :
                \/ OpenCache(e)
                \/ ev[e].pc = "filled" /\ cache' = [is |-> work[e].base, by |-> ev[e].pr]
BY FileMoves DEF Filing, WriteCache, Score, CommitLedger, PushLedger, BoxLost

LEMMA JudgedStep ==
    ASSUME Typed, InStep, Built, Judged, Prompts > 1, [Next]_vars
    PROVE  Judged'
<1>1. UNCHANGED sub
  BY StepCases, StageFrame, ScriptFrame, TimeoutFrame, BoxFrame DEF Calibrate, Elsewhere
<1>2. cache'.is = "PASS" => BasePassed'
  BY <1>1, CacheMoves DEF Judged, JudgedOne, BasePassed, OpenCache, NoCache
<1>3. ASSUME NEW x \in Evaluators PROVE JudgedOne(x)'
  <2>0. x \in Procs
    BY EvaluatorsAreProcs
  <2>1. CASE \E p \in Procs : StageStep(p)
    BY <2>1, StageJudges
  <2>2. ASSUME NEW p \in Procs, Calibrate(p) PROVE JudgedOne(x)'
    <3>1. x # p
      BY <2>2, EvaluationAssumption DEF Calibrate, Evaluators
    <3>2. SameStage(x) /\ SamePlace(x) /\ work' = work
      BY <2>0, <2>2, <3>1 DEF Calibrate, SameStage, SamePlace, Typed, TypeOK
    <3> QED
      BY <1>1, <3>2, JudgedKept
  <2>3. ASSUME NEW e \in Evaluators, Moves(e) PROVE JudgedOne(x)'
    <3>1. CASE x = e
      BY <2>3, <3>1, MoveJudges
    <3>2. CASE x # e
      BY <1>1, <2>0, <2>3, <3>2, ScriptFrame, JudgedKept
    <3> QED
      BY <3>1, <3>2
  <2>4. ASSUME NEW e \in Evaluators, Timeout(e) PROVE JudgedOne(x)'
    <3>1. CASE x = e
      <4>1. work' = work /\ ~Active(x)' /\ ~UnderWay(x)'
        BY <2>4, <3>1, TimeoutFrame DEF Off, UnderWay
      <4>2. JudgedOne(x) /\ (BasePassed' <=> BasePassed)
        BY <1>1 DEF Judged, BasePassed
      <4> QED
        BY <4>1, <4>2 DEF JudgedOne
    <3>2. CASE x # e
      <4>1. x \notin Orphans
        BY EvaluationAssumption DEF Evaluators
      <4> QED
        BY <1>1, <2>0, <2>4, <3>2, <4>1, TimeoutFrame, JudgedKept
    <3> QED
      BY <3>1, <3>2
  <2>5. CASE BoxStops \/ BoxLost
    BY <2>0, <2>5, BoxFrame DEF JudgedOne, NoFiles, Off, UnderWay
  <2>6. CASE UNCHANGED <<sub, device, ev, roundLock, files, outcomes>>
    BY <2>6, JudgedKept DEF device, files, SameStage, SamePlace
  <2> QED
    BY <2>1, <2>2, <2>3, <2>4, <2>5, <2>6, StepCases
<1> QED
  BY <1>2, <1>3 DEF Judged

-----------------------------------------------------------------------------
\* Records in pairs

LEMMA NeededType ==
    \A what : Needed(what) \in Nat \ {0}
BY EvaluationAssumption DEF Needed, HeldRepeats

\* One more record keeps the turn.
LEMMA RecordedInTurn ==
    ASSUME NEW p \in Procs, stage[p] \in StageType, InTurn(stage[p].recs)
    PROVE  InTurn(Recorded(stage[p]))
           /\ Len(Recorded(stage[p])) = Len(stage[p].recs) + 1
<1> DEFINE recs == stage[p].recs
           next == Turn(Len(recs) + 1)
<1>1. recs \in Seq({"base", "candidate"}) /\ next \in {"base", "candidate"}
  BY DEF StageType, Turn
<1>2. Recorded(stage[p]) = Append(recs, next)
  BY DEF Recorded
<1> HIDE DEF recs
<1>3. /\ Len(Append(recs, next)) = Len(recs) + 1
      /\ \A k \in 1 .. Len(recs) : Append(recs, next)[k] = recs[k]
      /\ Append(recs, next)[Len(recs) + 1] = next
  BY <1>1
<1>4. InTurn(Append(recs, next))
  BY <1>1, <1>3 DEF InTurn, recs
<1> QED
  BY <1>2, <1>3, <1>4 DEF recs

LEMMA StageAlternates ==
    ASSUME Typed, Alternating, NEW p \in Procs, StageStep(p)
    PROVE  Alternating'
<1>1. /\ stage[p] \in StageType /\ work \in [Evaluators -> WorkType]
      /\ UNCHANGED receipts
  BY StageFrame DEF Typed, TypeOK, Elsewhere
<1>2. ASSUME NEW q \in Procs
      PROVE  /\ UnderWay(q)' => /\ InTurn(stage'[q].recs)
                               /\ Len(stage'[q].recs) < Needed(stage'[q].what)
             /\ stage'[q].at = "off" => stage'[q].recs = <<>>
  <2>1. CASE q # p
    BY <2>1, StageFrame DEF SameStage, Alternating, UnderWay
  <2>2. CASE q = p /\ (Fails(p) \/ Finishes(p))
    BY <2>2 DEF Fails, Finishes, UnderWay
  <2>3. CASE q = p /\ Advances(p)
    BY <2>3 DEF Advances, Alternating, UnderWay
  <2>4. CASE q = p /\ Continues(p)
    <3>1. InTurn(stage[p].recs) /\ Len(stage[p].recs) < Needed(stage[p].what)
      BY <2>4 DEF Continues, Running, Alternating, UnderWay
    <3> QED
      BY <1>1, <2>4, <3>1, RecordedInTurn DEF Continues
  <2> QED
    BY <2>1, <2>2, <2>3, <2>4, StageCases
<1>3. ASSUME NEW x \in Evaluators PROVE WholeBench(work'[x].raw)
  <2>1. WholeBench(work[x].raw)
    BY DEF Alternating
  <2>2. CASE x # p \/ ~Finishes(p)
    BY <2>1, <2>2, StageFrame, StageCases DEF Fails, Advances, Continues
  <2>3. CASE x = p /\ Finishes(p)
    <3> DEFINE recs == Recorded(stage[p])
    <3>1. PICK seen : /\ Reports(p, recs, seen)
                      /\ IsGate(p) \/ Len(recs) >= Needed(stage[p].what)
      BY <2>3 DEF Finishes
    <3>2. PICK result : Write(p, result, recs)
      BY <3>1 DEF Reports
    <3>3. InTurn(recs) /\ Len(recs) = Len(stage[p].recs) + 1
          /\ Len(stage[p].recs) < Needed(stage[p].what)
      <4>1. UnderWay(p)
        BY <2>3 DEF Finishes, Running, UnderWay
      <4>2. InTurn(stage[p].recs) /\ Len(stage[p].recs) < Needed(stage[p].what)
        BY <4>1 DEF Alternating
      <4>3. stage[p] \in StageType
        BY <1>1
      <4>4. InTurn(Recorded(stage[p])) /\ Len(Recorded(stage[p])) = Len(stage[p].recs) + 1
        BY <4>2, <4>3, RecordedInTurn
      <4> QED
        BY <4>2, <4>4
    <3>4. CASE stage[p].what = "bench"
      <4>1. work'[x] = [work[x] EXCEPT !.raw = recs]
        BY <1>1, <2>3, <3>2, <3>4, WriteCases, ZenonT(60)
      <4>2. work'[x].raw = recs
        BY <1>1, <4>1 DEF WorkType
      <4>3. Len(recs) >= Needed("bench")
        BY <3>1, <3>4 DEF IsGate, GateStages
      <4>4. Len(stage[p].recs) \in Nat
        BY <1>1 DEF StageType
      <4>5. Len(recs) = Needed("bench")
        BY <3>3, <3>4, <4>3, <4>4, NeededType
      <4> QED
        BY <3>3, <4>2, <4>5 DEF WholeBench
    <3>5. CASE stage[p].what # "bench"
      <4>1. \/ work'[x] = [work[x] EXCEPT !.base = result]
            \/ work'[x] = [work[x] EXCEPT !.cand = result] \/ work'[x] = work[x]
        BY <1>1, <2>3, <3>2, <3>5, WriteCases DEF StageType, Stages, GateStages
      <4>2. work'[x].raw = work[x].raw
        BY <1>1, <4>1 DEF WorkType
      <4> QED
        BY <2>1, <4>2
    <3> QED
      BY <3>4, <3>5
  <2> QED
    BY <2>2, <2>3
<1> QED
  BY <1>1, <1>2, <1>3 DEF Alternating

LEMMA AlternatingStep ==
    ASSUME Typed, Alternating, [Next]_vars
    PROVE  Alternating'
<1>1. /\ stage \in [Procs -> StageType] /\ work \in [Evaluators -> WorkType]
      /\ receipts \in [PRs -> Seq({"base", "candidate"})]
  BY DEF Typed, TypeOK
<1>2. CASE \E p \in Procs : StageStep(p)
  BY <1>2, StageAlternates
<1>3. ASSUME NEW q \in Procs, ~\E p \in Procs : StageStep(p)
      PROVE  /\ UnderWay(q)' => /\ InTurn(stage'[q].recs)
                               /\ Len(stage'[q].recs) < Needed(stage'[q].what)
             /\ stage'[q].at = "off" => stage'[q].recs = <<>>
  <2>1. \A what : InTurn(<<>>) /\ Len(<<>>) < Needed(what)
    BY NeededType DEF InTurn
  <2>2. CASE SameStage(q)
    BY <2>2 DEF SameStage, Alternating, UnderWay
  <2>3. CASE stage'[q] = Off
    BY <2>3 DEF Off, UnderWay
  <2>4. ASSUME NEW p \in Procs, Calibrate(p)
        PROVE  SameStage(q) \/ (stage'[q].recs = <<>> /\ stage'[q].at = "enter")
    BY <1>1, <2>4 DEF Calibrate, SameStage, Alternating, StageType
  <2>5. ASSUME NEW e \in Evaluators, Moves(e)
        PROVE  SameStage(q) \/ (stage'[q].recs = <<>> /\ stage'[q].at = "enter")
    <3>1. ASSUME NEW what \in Stages, Run(e, what), q = e
          PROVE  stage'[q].recs = <<>> /\ stage'[q].at = "enter"
      BY <1>1, <3>1 DEF Run, Off
    <3> QED
      BY <2>5, <3>1, ScriptFrame
  <2>6. ASSUME NEW e \in Evaluators, Timeout(e)
        PROVE  \/ SameStage(q) \/ stage'[q] = Off
               \/ stage'[q] = stage[e] /\ e \in Procs
    BY <2>6, TimeoutFrame, EvaluatorsAreProcs
  <2>7. ASSUME NEW e \in Procs, stage'[q] = stage[e]
        PROVE  /\ UnderWay(q)' => /\ InTurn(stage'[q].recs)
                                 /\ Len(stage'[q].recs) < Needed(stage'[q].what)
               /\ stage'[q].at = "off" => stage'[q].recs = <<>>
    BY <2>7 DEF Alternating, UnderWay
  <2>8. CASE BoxStops \/ BoxLost
    BY <2>3, <2>8, BoxFrame
  <2>9. CASE UNCHANGED <<sub, device, ev, roundLock, files, outcomes>>
    BY <2>2, <2>9 DEF device, SameStage
  <2>10. CASE stage'[q].recs = <<>> /\ stage'[q].at = "enter"
    BY <2>1, <2>10
  <2> QED
    BY <1>3, <2>2, <2>3, <2>4, <2>5, <2>6, <2>7, <2>8, <2>9, <2>10, StepCases
<1>4. ASSUME NEW x \in Evaluators, ~\E p \in Procs : StageStep(p)
      PROVE  WholeBench(work'[x].raw)
  <2>1. work'[x].raw \in {work[x].raw, <<>>}
    <3>1. ASSUME NEW e \in Evaluators, Moves(e) PROVE work'[x].raw \in {work[x].raw, <<>>}
      <4>1. CASE x # e
        BY <3>1, <4>1, ScriptFrame
      <4>2. CASE x = e
        <5>1. work[x] \in WorkType
          BY <1>1
        <5>2. \/ work'[x] = work[x] \/ work'[x] = NoFiles
              \/ work'[x] = [work[x] EXCEPT !.base = cache.is]
          BY <3>1, <4>2, WorkMoves
        <5>3. [work[x] EXCEPT !.base = cache.is].raw = work[x].raw
          BY <5>1 DEF WorkType
        <5>4. NoFiles.raw = <<>>
          BY DEF NoFiles
        <5> QED
          BY <5>2, <5>3, <5>4
      <4> QED
        BY <4>1, <4>2
    <3>2. CASE UNCHANGED work
      BY <3>2
    <3>3. CASE BoxStops \/ BoxLost
      BY <3>3, BoxFrame DEF NoFiles
    <3>4. ASSUME NEW e \in Evaluators, Timeout(e) PROVE UNCHANGED work
      BY <3>4, TimeoutFrame
    <3>5. ASSUME NEW p \in Procs, Calibrate(p) PROVE UNCHANGED work
      BY <3>5 DEF Calibrate
    <3> QED
      BY <1>4, <3>1, <3>2, <3>3, <3>4, <3>5, StepCases DEF files
  <2> QED
    BY <2>1 DEF Alternating, WholeBench
<1>5. ASSUME NEW pr \in PRs, ~\E p \in Procs : StageStep(p)
      PROVE  WholeBench(receipts'[pr])
  <2>1. ASSUME NEW e \in Evaluators, Moves(e)
        PROVE  receipts'[pr] = receipts[pr] \/ receipts'[pr] = work[e].raw
    <3>1. CASE Score(e)
      BY <1>1, <3>1 DEF Score
    <3>2. CASE ~Score(e)
      BY <2>1, <3>2 DEF Moves, EvaluatorStep, StartRound, Begin, Unpack, Build, Start, GateBase,
         OpenCache, WriteCache, NextStage, CheckCell, ReadLabels, DeleteLabel, AddLabel,
         LabelRaises, CommitLedger, PushLedger, Elsewhere, files
    <3> QED
      BY <3>1, <3>2
  <2>2. CASE BoxStops \/ BoxLost
    BY <2>2 DEF BoxStops, BoxLost, Alternating, WholeBench
  <2> QED
    BY <1>5, <2>1, <2>2, StepCases, TimeoutFrame
       DEF Alternating, Elsewhere, Calibrate, files
<1> QED
  BY <1>2, <1>3, <1>4, <1>5 DEF Alternating

LEMMA PairsInit == Init => Alternating
BY DEF Init, Off, NoFiles, UnderWay, Alternating, WholeBench

LEMMA WholeIsPaired ==
    ASSUME Alternating
    PROVE  ReceiptsArePaired
<1> SUFFICES ASSUME NEW pr \in PRs, receipts[pr] # <<>>
             PROVE  /\ Len(receipts[pr]) = Needed("bench")
                    /\ \A k \in 1 .. Needed("bench") \div 2 :
                        receipts[pr][2 * k - 1] = "base" /\ receipts[pr][2 * k] = "candidate"
  BY DEF ReceiptsArePaired
<1>1. Len(receipts[pr]) = Needed("bench") /\ \A i \in 1 .. Needed("bench") : receipts[pr][i] = Turn(i)
  BY DEF Alternating, WholeBench, InTurn
<1>2. ASSUME NEW k \in 1 .. Needed("bench") \div 2
      PROVE  receipts[pr][2 * k - 1] = "base" /\ receipts[pr][2 * k] = "candidate"
  <2>1. 2 * k - 1 \in 1 .. Needed("bench") /\ 2 * k \in 1 .. Needed("bench")
    BY NeededType
  <2>2. Turn(2 * k - 1) = "base" /\ Turn(2 * k) = "candidate"
    BY DEF Turn
  <2> QED
    BY <1>1, <2>1, <2>2
<1> QED
  BY <1>1, <1>2

\* The records of a receipt are complete pairs, base beside candidate, whatever runs were
\* repeated, whatever was killed or timed out on the way, for every number of repeats.
THEOREM PairedReceipts == Spec => []ReceiptsArePaired
<1>1. Init => Typed /\ Alternating
  BY InitType, PairsInit
<1>2. Typed /\ Alternating /\ [Next]_vars => (Typed /\ Alternating)'
  BY TypeStep, AlternatingStep
<1>3. Alternating => ReceiptsArePaired
  BY WholeIsPaired
<1> QED
  BY <1>1, <1>2, <1>3, PTL DEF Spec

-----------------------------------------------------------------------------
\* Receipts are gated

LEMMA JudgedInit == Init => InStep /\ Built /\ Judged /\ ReceiptsAreGated
<1> SUFFICES ASSUME Init PROVE InStep /\ Built /\ Judged /\ ReceiptsAreGated
  OBVIOUS
<1>1. \A e \in Evaluators : e \in Procs
  BY EvaluatorsAreProcs
<1>2. \A e \in Evaluators : /\ stage[e] = Off /\ ev[e] = Idle /\ work[e] = NoFiles
  BY <1>1 DEF Init
<1>3. InStep
  BY <1>2 DEF InStep, UnderWay, Off
<1>4. Built
  BY <1>2 DEF Built, Idle, BuiltPcs, Stages, GateStages
<1>5. Judged
  <2>1. cache.is # "PASS"
    BY DEF Init, NoCache
  <2>2. ASSUME NEW e \in Evaluators PROVE JudgedOne(e)
    <3>1. ~Active(e) /\ ~UnderWay(e)
      BY <1>2 DEF Active, UnderWay, Idle, Off
    <3>2. work[e].base # "PASS"
      BY <1>2 DEF NoFiles
    <3> QED
      BY <3>1, <3>2 DEF JudgedOne
  <2> QED
    BY <2>1, <2>2 DEF Judged
<1>6. ReceiptsAreGated
  BY DEF Init, ReceiptsAreGated
<1> QED
  BY <1>3, <1>4, <1>5, <1>6

\* A receipt is filed by a script that built and gated what it benched.
LEMMA GatedStep ==
    ASSUME Typed, Judged, ReceiptsAreGated, [Next]_vars
    PROVE  ReceiptsAreGated'
<1> SUFFICES ASSUME NEW pr \in PRs, receipts'[pr] # <<>>
             PROVE  /\ sub'[pr].builds /\ sub'[pr].cand \in {"good", "flaky"}
                    /\ \E q \in PRs : sub'[q].base \in {"good", "flaky"}
  BY DEF ReceiptsAreGated
<1>1. receipts \in [PRs -> Seq({"base", "candidate"})]
  BY DEF Typed, TypeOK
<1>2. UNCHANGED sub
  BY StepCases, StageFrame, ScriptFrame, TimeoutFrame, BoxFrame DEF Calibrate, Elsewhere
<1>3. \/ receipts' = receipts
      \/ BoxLost
      \/ \E e \in Evaluators : /\ Score(e) /\ receipts' = [receipts EXCEPT ![ev[e].pr] = work[e].raw]
  BY FileMoves DEF Filing, OpenCache, WriteCache, Score, CommitLedger, PushLedger
<1>4. CASE receipts[pr] # <<>>
  BY <1>2, <1>4 DEF ReceiptsAreGated
<1>5. CASE receipts[pr] = <<>>
  <2>1. ~BoxLost
    BY <1>5 DEF BoxLost
  <2>2. PICK e \in Evaluators : /\ Score(e)
                               /\ receipts' = [receipts EXCEPT ![ev[e].pr] = work[e].raw]
    BY <1>3, <1>5, <2>1
  <2>3. ev[e].pr = pr /\ work[e].raw # <<>>
    BY <1>1, <1>5, <2>2
  <2>4. Active(e)
    BY <2>2 DEF Score, Active
  <2> QED
    BY <1>2, <2>3, <2>4 DEF Judged, JudgedOne, BasePassed, Right
<1> QED
  BY <1>4, <1>5

\* A receipt is of a build that passed its gate, timed beside a base arm whose gate
\* passed, through caches, timeouts, restarts and second attempts, as long as the
\* gate asks for more than the prompt of its replays.
THEOREM GatedReceipts ==
    ASSUME Prompts > 1
    PROVE  Spec => []ReceiptsAreGated
<1> DEFINE Inv == Typed /\ InStep /\ Built /\ Judged /\ ReceiptsAreGated
<1>1. Init => Inv
  BY InitType, JudgedInit
<1>2. Inv /\ [Next]_vars => Inv'
  BY TypeStep, InStepStep, BuiltStep, JudgedStep, GatedStep
<1> QED
  BY <1>1, <1>2, PTL DEF Spec

-----------------------------------------------------------------------------
\* What the cache answers

SameFiles(e) == work'[e] = work[e] /\ ev'[e].pr = ev[e].pr

\* How a script comes to the cache and to the score.
LEMMA FillMoves ==
    ASSUME Typed, NEW e \in Evaluators, Moves(e)
    PROVE  /\ ev'[e].pc = "fill" => ev[e].pc = "gate-base" /\ EndedWell(e) /\ SameFiles(e)
           /\ ev'[e].pc = "filled" => ev[e].pc = "fill" /\ SameFiles(e)
           /\ ev'[e].pc = "score" => /\ ev[e].pc = "bench" /\ EndedWell(e) /\ SameFiles(e)
           /\ ev'[e].pc \in {"gate-base", "bench"} => stage'[e].at = "enter"
<1>1. /\ stage \in [Procs -> StageType] /\ ev \in [Evaluators -> EvType] /\ e \in Procs
  BY EvaluatorsAreProcs DEF Typed, TypeOK
<1>2. \A what : Run(e, what) => ev'[e].pc = what /\ stage'[e].at = "enter"
  BY <1>1 DEF Run, Goto, Off, EvType
<1>3. \A pc : Goto(e, pc) => ev'[e].pc = pc /\ ev'[e].pr = ev[e].pr
  BY <1>1 DEF Goto, EvType
<1>4. \A outcome : Answer(e, outcome) => ev'[e].pc = "answer"
  BY <1>1 DEF Answer, EvType
<1>5. HomeOf(e).pc \in {"idle", "round"}
  BY DEF HomeOf, Home, Idle
<1>6. CASE StartRound(e) \/ CommitLedger(e) \/ PushLedger(e) \/ Start(e) \/ Score(e)
  BY <1>3, <1>4, <1>6 DEF StartRound, CommitLedger, PushLedger, Start, Score
<1>7. CASE GateBase(e) \/ WriteCache(e) \/ OpenCache(e) \/ CheckCell(e)
  BY <1>2, <1>3, <1>4, <1>7 DEF GateBase, WriteCache, OpenCache, CheckCell, SameFiles
<1>8. CASE NextStage(e)
  BY <1>2, <1>3, <1>4, <1>8 DEF NextStage, AfterStage, EndedWell, SameFiles
<1>9. CASE AddLabel(e) \/ LabelRaises(e) \/ ReadLabels(e) \/ DeleteLabel(e)
  BY <1>1, <1>5, <1>9 DEF AddLabel, LabelRaises, ReadLabels, DeleteLabel, EvType
<1>10. CASE Unpack(e) \/ Build(e)
  <2>1. BuildsKilled(e) \in [Evaluators -> EvType]
    BY <1>1, BuildsKilledType
  <2>2. \/ ev'[e] = HomeOf(e)
        \/ \E pc \in {"build", "start", "check"} : ev'[e] = [ev[e] EXCEPT !.pc = pc]
        \/ ev'[e] = [ev[e] EXCEPT !.pc = "answer", !.want = "build-fail"]
    BY <1>10, <2>1 DEF Unpack, Build
  <2> QED
    BY <1>1, <1>5, <2>2 DEF EvType
<1>11. CASE \E pr \in PRs : Begin(e, pr)
  <2>1. PICK pr \in PRs : ev'[e] = [Idle EXCEPT !.pc = "unpack", !.pr = pr]
    BY <1>1, <1>11 DEF Begin
  <2> QED
    BY <2>1 DEF Idle
<1> QED
  BY <1>6, <1>7, <1>8, <1>9, <1>10, <1>11 DEF Moves, EvaluatorStep

LEMMA CachedKept ==
    ASSUME NEW x \in Evaluators, InHand(x), SameStage(x), SamePlace(x), work'[x] = work[x],
           UNCHANGED sub
    PROVE  InHand(x)'
BY DEF InHand, Cacheable, EndedWell, SameStage, SamePlace

\* A gate of the base arm that ends well has passed in its evaluator's build; a bench
\* that ends leaves its records.
LEMMA FinishCaches ==
    ASSUME Typed, InStep, Prompts > 1, NEW x \in Evaluators, Finishes(x), SamePlace(x),
           UNCHANGED sub
    PROVE  InHand(x)'
<1>1. /\ x \in Procs /\ work[x] \in WorkType /\ work \in [Evaluators -> WorkType]
      /\ stage[x].what \in Stages /\ stage \in [Procs -> StageType]
  BY EvaluatorsAreProcs DEF Typed, TypeOK, StageType
<1>2. UnderWay(x) /\ ev[x].pc = stage[x].what /\ stage[x].pr = ev[x].pr
  BY DEF Finishes, Running, UnderWay, InStep
<1>3. ev'[x].pc = ev[x].pc /\ ev'[x].pr = ev[x].pr
  BY DEF SamePlace
<1>4. ev'[x].pc \notin {"fill", "filled", "score"}
  BY <1>1, <1>2, <1>3 DEF Stages, GateStages
<1>5. ASSUME ev'[x].pc = "gate-base", stage'[x].at = "over", stage'[x].rc = 0
      PROVE  Cacheable(x)'
  <2>1. IsGate(x) /\ Arm(x) = sub[ev[x].pr].base /\ stage[x].what = "gate-base"
    BY <1>2, <1>3, <1>5 DEF IsGate, GateStages, Arm
  <2>2. ev[x].pr \in PRs
    BY <1>2, <2>1 DEF Typed, Active
  <2>3. PICK seen : Reports(x, Recorded(stage[x]), seen)
    BY DEF Finishes
  <2>4. PICK rc : /\ stage' = [Rest(x) EXCEPT ![x] = Over(x, rc)]
                  /\ rc = IF GateResult(x, seen) # "PASS" THEN 1 ELSE 0
    BY <2>1, <2>3 DEF Reports
  <2>5. stage'[x] = Over(x, rc)
    BY <1>1, <2>4, RestKeeps
  <2>6. x \notin Orphans
    BY EvaluationAssumption DEF Evaluators
  <2>7. Over(x, rc).rc = rc
    BY <2>6 DEF Over, Off
  <2>8. GateResult(x, seen) = "PASS"
    BY <1>5, <2>4, <2>5, <2>7
  <2>9. Arm(x) \in Right
    BY <1>1, <1>2, <2>2, <2>8, GatePasses
  <2>10. Write(x, "PASS", Recorded(stage[x]))
    BY <2>1, <2>3, <2>8 DEF Reports
  <2>11. work'[x] = [work[x] EXCEPT !.base = "PASS"]
    BY <1>1, <2>1, <2>10, WriteCases
  <2>12. work'[x].base = "PASS"
    BY <1>1, <2>11 DEF WorkType
  <2> QED
    BY <1>3, <2>1, <2>9, <2>12 DEF Cacheable, Right
<1>6. ASSUME ev'[x].pc = "bench" PROVE work'[x].raw # <<>>
  <2>1. stage[x].what = "bench"
    BY <1>2, <1>3, <1>6
  <2>2. PICK result : Write(x, result, Recorded(stage[x]))
    BY DEF Finishes, Reports
  <2>3. work'[x] = [work[x] EXCEPT !.raw = Recorded(stage[x])]
    BY <1>1, <2>1, <2>2, WriteCases
  <2>4. Recorded(stage[x]) # <<>>
    <3>1. /\ stage[x].recs \in Seq({"base", "candidate"})
          /\ Turn(Len(stage[x].recs) + 1) \in {"base", "candidate"}
      BY <1>1 DEF StageType, Turn
    <3>2. \A recs \in Seq({"base", "candidate"}), turn \in {"base", "candidate"} :
            Append(recs, turn) # <<>>
      OBVIOUS
    <3> QED
      BY <3>1, <3>2 DEF Recorded
  <2> QED
    BY <1>1, <2>3, <2>4 DEF WorkType
<1> QED
  BY <1>4, <1>5, <1>6 DEF InHand, EndedWell

LEMMA StageCaches ==
    ASSUME Typed, InStep, Cached, Prompts > 1, NEW p \in Procs, StageStep(p),
           NEW x \in Evaluators
    PROVE  InHand(x)'
<1>1. /\ SamePlace(x) /\ UNCHANGED sub /\ x \in Procs
      /\ x # p => SameStage(x) /\ work'[x] = work[x]
  BY StageFrame, EvaluatorsAreProcs DEF Elsewhere
<1>2. CASE x # p
  BY <1>1, <1>2, CachedKept DEF Cached
<1>3. CASE x = p /\ Finishes(x)
  BY <1>1, <1>3, FinishCaches
<1>4. CASE x = p /\ ~Finishes(x)
  <2>1. Fails(x) \/ Advances(x) \/ Continues(x)
    BY <1>4, StageCases
  <2>2. work' = work /\ ~(stage'[x].at = "over" /\ stage'[x].rc = 0)
    BY <2>1 DEF Fails, Advances, Continues, UnderWay
  <2> QED
    BY <1>1, <2>2 DEF Cached, InHand, EndedWell, Cacheable, SamePlace
<1> QED
  BY <1>2, <1>3, <1>4

LEMMA MoveCaches ==
    ASSUME Typed, Cached, NEW x \in Evaluators, Moves(x)
    PROVE  InHand(x)'
<1>1. UNCHANGED sub
  BY ScriptFrame
<1>2. CASE ev'[x].pc \in {"fill", "filled"}
  <2>1. Cacheable(x)
    BY <1>2, FillMoves DEF Cached, InHand
  <2>2. SameFiles(x)
    BY <1>2, FillMoves
  <2> QED
    BY <1>1, <1>2, <2>1, <2>2 DEF InHand, Cacheable, SameFiles
<1>3. CASE ev'[x].pc = "score"
  <2>1. work[x].raw # <<>>
    BY <1>3, FillMoves DEF Cached, InHand
  <2> QED
    BY <1>3, <2>1, FillMoves DEF InHand, SameFiles
<1>4. CASE ev'[x].pc \notin {"fill", "filled", "score"}
  BY <1>4, FillMoves DEF InHand, EndedWell
<1> QED
  BY <1>2, <1>3, <1>4

LEMMA CachedStep ==
    ASSUME Typed, InStep, Cached, Prompts > 1, [Next]_vars
    PROVE  Cached'
<1>1. UNCHANGED sub
  BY StepCases, StageFrame, ScriptFrame, TimeoutFrame, BoxFrame DEF Calibrate, Elsewhere
<1>2. CacheServesPasses'
  <2>1. CASE cache' = cache \/ cache' = NoCache
    BY <1>1, <2>1 DEF Cached, CacheServesPasses, Hit, NoCache
  <2>2. ASSUME NEW e \in Evaluators, OpenCache(e) PROVE CacheServesPasses'
    BY <2>2 DEF OpenCache, CacheServesPasses, Hit
  <2>3. ASSUME NEW e \in Evaluators, ev[e].pc = "filled",
               cache' = [is |-> work[e].base, by |-> ev[e].pr]
        PROVE  CacheServesPasses'
    <3>1. Cacheable(e) /\ ev[e].pr \in PRs
      BY <2>3 DEF Cached, InHand, Typed, Active
    <3> QED
      BY <1>1, <2>3, <3>1 DEF Cacheable, CacheServesPasses, Hit, Right
  <2> QED
    BY <2>1, <2>2, <2>3, CacheMoves
<1>3. ASSUME NEW x \in Evaluators PROVE InHand(x)'
  <2>0. x \in Procs /\ InHand(x)
    BY EvaluatorsAreProcs DEF Cached
  <2>1. CASE \E p \in Procs : StageStep(p)
    BY <2>1, StageCaches
  <2>2. ASSUME NEW p \in Procs, Calibrate(p) PROVE InHand(x)'
    <3>1. x # p
      BY <2>2, EvaluationAssumption DEF Calibrate, Evaluators
    <3>2. SameStage(x) /\ SamePlace(x) /\ work' = work
      BY <2>0, <2>2, <3>1 DEF Calibrate, SameStage, SamePlace, Typed, TypeOK
    <3> QED
      BY <1>1, <2>0, <3>2, CachedKept
  <2>3. ASSUME NEW e \in Evaluators, Moves(e) PROVE InHand(x)'
    <3>1. CASE x = e
      BY <2>3, <3>1, MoveCaches
    <3>2. CASE x # e
      BY <1>1, <2>0, <2>3, <3>2, ScriptFrame, CachedKept
    <3> QED
      BY <3>1, <3>2
  <2>4. ASSUME NEW e \in Evaluators, Timeout(e) PROVE InHand(x)'
    <3>1. CASE x = e
      BY <2>4, <3>1, TimeoutFrame DEF InHand
    <3>2. CASE x # e
      <4>1. x \notin Orphans
        BY EvaluationAssumption DEF Evaluators
      <4> QED
        BY <1>1, <2>0, <2>4, <3>2, <4>1, TimeoutFrame, CachedKept
    <3> QED
      BY <3>1, <3>2
  <2>5. CASE BoxStops \/ BoxLost
    BY <2>5, BoxFrame DEF InHand, Idle
  <2>6. CASE UNCHANGED <<sub, device, ev, roundLock, files, outcomes>>
    BY <2>0, <2>6, CachedKept DEF device, files, SameStage, SamePlace
  <2> QED
    BY <2>1, <2>2, <2>3, <2>4, <2>5, <2>6, StepCases
<1> QED
  BY <1>2, <1>3 DEF Cached

LEMMA CachedInit == Init => Cached
<1> SUFFICES ASSUME Init PROVE Cached
  OBVIOUS
<1>1. CacheServesPasses
  BY DEF Init, NoCache, CacheServesPasses, Hit
<1>2. \A e \in Evaluators : InHand(e)
  BY DEF Init, Idle, InHand
<1> QED
  BY <1>1, <1>2 DEF Cached

\* The cache answers with a gate that passed in the build it came from, whoever is
\* filling it and wherever the filling was cut short.
THEOREM CachedGates ==
    ASSUME Prompts > 1
    PROVE  Spec => []CacheServesPasses
<1> DEFINE Inv == Typed /\ InStep /\ Cached
<1>1. Init => Inv
  BY InitType, JudgedInit, CachedInit
<1>2. Inv /\ [Next]_vars => Inv'
  BY TypeStep, InStepStep, CachedStep
<1>3. Inv => CacheServesPasses
  BY DEF Cached
<1> QED
  BY <1>1, <1>2, <1>3, PTL DEF Spec

-----------------------------------------------------------------------------
\* What was published

LEMMA GrowingLast ==
    ASSUME NEW history \in Seq(SUBSET PRs), Growing(history), NEW i \in DOMAIN history
    PROVE  history[i] \subseteq Committed(history)
<1>1. history # <<>> /\ Len(history) \in DOMAIN history /\ i <= Len(history)
  OBVIOUS
<1> QED
  BY <1>1 DEF Committed, Last, Growing

\* The latest commit is one of the history's, if there is one.
LEMMA LastIsIn ==
    ASSUME NEW history \in Seq(SUBSET PRs), NEW S, \A i \in DOMAIN history : history[i] \subseteq S
    PROVE  Committed(history) \subseteq S
<1>1. CASE history = <<>>
  BY <1>1 DEF Committed
<1>2. CASE history # <<>>
  BY <1>2 DEF Committed, Last
<1> QED
  BY <1>1, <1>2

LEMMA CommitKnown ==
    ASSUME Known, Commit, local \in Seq(SUBSET PRs), ledger \in SUBSET PRs
    PROVE  Known'
<1>1. CASE local' = local
  BY <1>1 DEF Known, Commit, Growing, PublishedIsKnown
<1>2. CASE local' = Append(local, ledger)
  <2>1. \A i \in DOMAIN local' : \/ i \in DOMAIN local /\ local'[i] = local[i]
                                 \/ i = Len(local) + 1 /\ local'[i] = ledger
    BY <1>2
  <2>2. Growing(local')
    <3> SUFFICES ASSUME NEW i \in DOMAIN local', NEW j \in DOMAIN local', i <= j
                 PROVE  local'[i] \subseteq local'[j]
      BY DEF Growing
    <3>1. CASE j \in DOMAIN local
      <4>1. i \in DOMAIN local
        BY <1>2, <3>1
      <4> QED
        BY <1>2, <3>1, <4>1 DEF Known, Growing
    <3>2. CASE j = Len(local) + 1
      BY <1>2, <2>1, <3>2 DEF Known
    <3> QED
      BY <2>1, <3>1, <3>2
  <2>3. \A i \in DOMAIN local' : local'[i] \subseteq ledger
    BY <2>1 DEF Known
  <2> QED
    BY <2>2, <2>3 DEF Commit, Known, Growing, PublishedIsKnown
<1> QED
  BY <1>1, <1>2 DEF Commit

LEMMA KnownStep ==
    ASSUME Typed, Known, [Next]_vars
    PROVE  Known'
<1>1. local \in Seq(SUBSET PRs) /\ remote \in Seq(SUBSET PRs) /\ ledger \in SUBSET PRs
  BY DEF Typed, TypeOK
<1>2. \/ UNCHANGED publishing \/ Commit \/ Push \/ Clone
      \/ \E pr : ledger' = ledger \cup {pr} /\ UNCHANGED <<local, remote>>
  BY FileMoves DEF BoxLost, Filing, OpenCache, WriteCache, Score, CommitLedger, PushLedger,
                   publishing
<1>3. CASE UNCHANGED publishing
  BY <1>3 DEF publishing, Known, PublishedIsKnown
<1>4. CASE Commit
  BY <1>1, <1>4, CommitKnown
<1>5. CASE Push
  BY <1>5 DEF Push, Known, PublishedIsKnown
<1>6. CASE Clone
  BY <1>1, <1>6, GrowingLast DEF Clone, Known, PublishedIsKnown
<1>7. ASSUME NEW pr, ledger' = ledger \cup {pr}, UNCHANGED <<local, remote>> PROVE Known'
  BY <1>7 DEF Known, PublishedIsKnown
<1> QED
  BY <1>2, <1>3, <1>4, <1>5, <1>6, <1>7

\* What was published once stays known to the ledger, over refused pushes, restarts
\* and lost boxes.
THEOREM KnownReceipts == Spec => []PublishedIsKnown
<1>1. Init => Typed /\ Known
  BY InitType DEF Init, PublishingInit, Known, Growing, PublishedIsKnown
<1>2. Typed /\ Known /\ [Next]_vars => (Typed /\ Known)'
  BY TypeStep, KnownStep
<1>3. Known => PublishedIsKnown
  BY DEF Known
<1> QED
  BY <1>1, <1>2, <1>3, PTL DEF Spec

-----------------------------------------------------------------------------
\* One outcome at a time

\* What a script does to labels and to the round's lock.
LEMMA LabelMoves ==
    ASSUME Typed, NEW e \in Evaluators, Moves(e)
    PROVE  \/ StartRound(e) \/ PushLedger(e) \/ ReadLabels(e) \/ DeleteLabel(e) \/ AddLabel(e)
           \/ /\ UNCHANGED <<outcomes, roundLock>>
              /\ ev[e].pc # "idle" \/ Home(e) = "idle"
              /\ ev'[e].pc # "delete"
<1>1. ev \in [Evaluators -> EvType]
  BY DEF Typed, TypeOK
<1>2. BuildsKilled(e) \in [Evaluators -> EvType]
  BY <1>1, BuildsKilledType
<1>3. CASE Unpack(e) \/ Build(e)
  <2>1. \/ ev'[e] = HomeOf(e)
        \/ \E pc \in {"build", "start", "check"} : ev'[e] = [ev[e] EXCEPT !.pc = pc]
        \/ ev'[e] = [ev[e] EXCEPT !.pc = "answer", !.want = "build-fail"]
    BY <1>2, <1>3 DEF Unpack, Build
  <2>2. ev'[e].pc # "delete"
    BY <1>1, <2>1 DEF EvType, HomeOf, Home, Idle
  <2> QED
    BY <1>3, <2>2 DEF Unpack, Build, Elsewhere
<1>4. CASE \E pr \in PRs : Begin(e, pr)
  <2>1. PICK pr \in PRs : Begin(e, pr)
    BY <1>4
  <2>2. ev'[e] = [Idle EXCEPT !.pc = "unpack", !.pr = pr]
    BY <1>1, <2>1 DEF Begin
  <2>3. ev'[e].pc = "unpack"
    BY <2>2 DEF Idle
  <2> QED
    BY <2>1, <2>3 DEF Begin
<1>5. CASE Start(e) \/ GateBase(e) \/ OpenCache(e) \/ WriteCache(e) \/ NextStage(e)
           \/ Score(e) \/ CheckCell(e) \/ CommitLedger(e)
  <2>1. \/ \E pc \in Pcs \ {"delete"} : Goto(e, pc)
        \/ \E what \in Stages : Run(e, what)
        \/ \E outcome : Answer(e, outcome)
    BY <1>5 DEF Start, GateBase, OpenCache, WriteCache, NextStage, Score, CheckCell,
                CommitLedger, AfterStage, Pcs, Stages, GateStages
  <2>2. ev'[e].pc # "delete"
    BY <1>1, <2>1 DEF Goto, Run, Answer, EvType, Stages, GateStages
  <2>3. UNCHANGED <<outcomes, roundLock>> /\ ev[e].pc # "idle"
    BY <1>5 DEF Start, GateBase, OpenCache, WriteCache, NextStage, Score, CheckCell,
                CommitLedger, Elsewhere, Stages, GateStages
  <2> QED
    BY <2>2, <2>3
<1>6. CASE LabelRaises(e)
  <2>1. ev'[e].pc # "delete"
    BY <1>1, <1>6 DEF LabelRaises, HomeOf, Home, Idle
  <2> QED
    BY <1>6, <2>1 DEF LabelRaises
<1> QED
  BY <1>3, <1>4, <1>5, <1>6 DEF Moves, EvaluatorStep

\* A script that is not the one at work has nothing under way.
LEMMA LabelStep ==
    ASSUME Typed, Labelling, Passes = {}, NEW e \in Evaluators, Moves(e)
    PROVE  Labelling'
<1>1. /\ ev \in [Evaluators -> EvType] /\ labels \in [PRs -> SUBSET Outcomes]
      /\ kept \in [PRs -> SUBSET Outcomes]
      /\ Home(e) = "round" /\ e \in Rounds /\ e # Nobody
  BY EvaluationAssumption DEF Typed, TypeOK, Home, Evaluators, Procs
<1>2. \A x \in Evaluators \ {e} : ev'[x].pc = ev[x].pc
  BY ScriptFrame DEF SamePlace
<1>3. CASE StartRound(e)
  <2>1. \A x \in Evaluators : ev[x].pc = "idle"
    BY <1>3, EvaluationAssumption DEF StartRound, Labelling, Procs
  <2>2. ev'[e].pc = "round" /\ roundLock' = e /\ UNCHANGED <<labels, kept>>
    BY <1>1, <1>3 DEF StartRound, Goto, EvType, outcomes
  <2> QED
    BY <1>2, <2>1, <2>2 DEF Labelling, Single
<1>4. ASSUME ev[e].pc # "idle"
      PROVE  roundLock = e /\ \A x \in Evaluators \ {e} : ev'[x].pc = "idle"
  BY <1>2, <1>4 DEF Labelling
<1>5. CASE PushLedger(e)
  <2>1. ev'[e].pc = "idle" /\ ev[e].pc # "idle" /\ UNCHANGED <<labels, kept>>
    BY <1>1, <1>5 DEF PushLedger, Goto, EvType, outcomes
  <2> QED
    BY <1>4, <2>1 DEF Labelling, Single
<1>6. CASE ReadLabels(e)
  <2>1. /\ ev[e].pc # "idle" /\ UNCHANGED <<labels, kept, roundLock>>
        /\ ev'[e].old = labels[ev[e].pr] \ {ev[e].want} /\ ev'[e].want = ev[e].want
        /\ ev'[e].pr = ev[e].pr
    BY <1>1, <1>6 DEF ReadLabels, EvType, outcomes
  <2> QED
    BY <1>4, <2>1 DEF Labelling, Single
<1>7. CASE DeleteLabel(e)
  <2>1. PICK l \in ev[e].old :
          /\ ev' = [ev EXCEPT ![e].old = @ \ {l}]
          /\ \/ /\ labels' = [labels EXCEPT ![ev[e].pr] = @ \ {l}]
                /\ kept' = [kept EXCEPT ![ev[e].pr] = @ \ {l}]
             \/ labels' = labels /\ kept' = [kept EXCEPT ![ev[e].pr] = @ \cup {l}]
    BY <1>7 DEF DeleteLabel
  <2>2. /\ ev[e].pc = "delete" /\ ev[e].pr \in PRs /\ roundLock' = roundLock
        /\ labels[ev[e].pr] \subseteq ev[e].old \cup kept[ev[e].pr] \cup {ev[e].want}
    BY <1>7 DEF DeleteLabel, Labelling, Typed, Active
  <2>3. /\ ev'[e].pc = "delete" /\ ev'[e].pr = ev[e].pr /\ ev'[e].want = ev[e].want
        /\ ev'[e].old = ev[e].old \ {l}
    BY <1>1, <2>1, <2>2 DEF EvType
  <2>4. \A pr \in PRs : labels'[pr] \ kept'[pr] \subseteq labels[pr] \ kept[pr]
    BY <1>1, <2>1
  <2>5. labels'[ev[e].pr] \subseteq (ev[e].old \ {l}) \cup kept'[ev[e].pr] \cup {ev[e].want}
    BY <1>1, <2>1, <2>2
  <2>6. Single'
    BY <2>4 DEF Labelling, Single
  <2> QED
    BY <1>4, <2>2, <2>3, <2>5, <2>6 DEF Labelling
<1>8. CASE AddLabel(e)
  <2>1. /\ ev[e].pc = "delete" /\ ev[e].pr \in PRs /\ roundLock' = roundLock
        /\ labels[ev[e].pr] \subseteq kept[ev[e].pr] \cup {ev[e].want}
    BY <1>8 DEF AddLabel, Labelling, Typed, Active
  <2>2. /\ labels' = [labels EXCEPT ![ev[e].pr] = @ \cup {ev[e].want}]
        /\ kept' = [kept EXCEPT ![ev[e].pr] = @ \ {ev[e].want}] /\ ev'[e] = HomeOf(e)
    BY <1>1, <1>8 DEF AddLabel
  <2>3. \A pr \in PRs : labels'[pr] \ kept'[pr] =
                          IF pr = ev[e].pr THEN {ev[e].want} ELSE labels[pr] \ kept[pr]
    BY <1>1, <2>1, <2>2
  <2>4. Single'
    BY <2>3 DEF Single, Labelling
  <2>5. ev'[e].pc = "round"
    BY <1>1, <2>2 DEF HomeOf, Idle
  <2> QED
    BY <1>4, <2>1, <2>4, <2>5 DEF Labelling
<1>9. CASE /\ UNCHANGED <<outcomes, roundLock>>
           /\ ev[e].pc # "idle" \/ Home(e) = "idle"
           /\ ev'[e].pc # "delete"
  BY <1>1, <1>4, <1>9 DEF Labelling, Single, outcomes
<1> QED
  BY <1>3, <1>5, <1>6, <1>7, <1>8, <1>9, LabelMoves

LEMMA LabellingStep ==
    ASSUME Typed, Labelling, Passes = {}, [Next]_vars
    PROVE  Labelling'
<1>1. ASSUME \A x \in Evaluators : SamePlace(x), UNCHANGED <<outcomes, roundLock>>
      PROVE  Labelling'
  BY <1>1 DEF Labelling, Single, SamePlace, outcomes
<1>2. ASSUME NEW p \in Procs, StageStep(p) \/ Calibrate(p) PROVE Labelling'
  BY <1>1, <1>2, StageFrame DEF Calibrate, Elsewhere, SamePlace
<1>3. ASSUME NEW e \in Evaluators, Timeout(e) PROVE Labelling'
  <2>1. ev[e].pc # "idle" /\ UNCHANGED <<labels, kept, roundLock>>
    BY <1>3 DEF Timeout, Elsewhere, Stages, GateStages, outcomes
  <2>2. ev'[e].pc # "delete" /\ \A x \in Evaluators \ {e} : SamePlace(x)
    BY <1>3, TimeoutFrame
  <2> QED
    BY <2>1, <2>2 DEF Labelling, Single, SamePlace
<1>4. CASE BoxStops \/ BoxLost
  <2>1. UNCHANGED <<labels, kept>> /\ \A e \in Evaluators : ev'[e] = Idle
    BY <1>4 DEF BoxStops, BoxLost, Gone, outcomes
  <2> QED
    BY <2>1 DEF Labelling, Single, Idle
<1>5. CASE UNCHANGED <<sub, device, ev, roundLock, files, outcomes>>
  BY <1>1, <1>5 DEF SamePlace
<1> QED
  BY <1>2, <1>3, <1>4, <1>5, LabelStep, StepCases

\* Rounds alone never leave a pull request with two outcomes, wherever one of them
\* is stopped and whatever request raises, but for what GitHub refused to delete:
\* the round's lock is what a pass of pr_bot started by hand lacks.
THEOREM RoundsGiveOneOutcome ==
    ASSUME Passes = {}
    PROVE  Spec => []OneOutcome
<1>1. Init => Typed /\ Labelling
  BY InitType DEF Init, Idle, Labelling, Single
<1>2. Typed /\ Labelling /\ [Next]_vars => (Typed /\ Labelling)'
  BY TypeStep, LabellingStep
<1>3. Typed /\ Labelling => OneOutcome
  <2> SUFFICES ASSUME Typed, Single, NEW pr \in PRs
               PROVE  Cardinality(labels[pr] \ kept[pr]) <= 1
    BY DEF Labelling, OneOutcome
  <2>1. CASE labels[pr] \ kept[pr] = {}
    BY <2>1, FS_EmptySet
  <2>2. CASE labels[pr] \ kept[pr] # {}
    <3>1. PICK l \in labels[pr] \ kept[pr] : labels[pr] \ kept[pr] = {l}
      BY <2>2 DEF Single
    <3> QED
      BY <3>1, FS_Singleton
  <2> QED
    BY <2>1, <2>2
<1> QED
  BY <1>1, <1>2, <1>3, PTL DEF Spec

-----------------------------------------------------------------------------
\* The promise

\* The ledger and the receipts change together.
LEMMA FiledStep ==
    ASSUME Typed, Cached, Known, InLedger, [Next]_vars
    PROVE  InLedger'
<1>1. /\ receipts \in [PRs -> Seq({"base", "candidate"})] /\ ledger \in SUBSET PRs
      /\ remote \in Seq(SUBSET PRs)
  BY DEF Typed, TypeOK
<1>2. CASE UNCHANGED <<ledger, receipts>>
  BY <1>2 DEF InLedger, Filed
<1>3. CASE BoxLost
  <2>1. ledger' = Committed(remote) /\ Committed(remote) \subseteq ledger
    BY <1>1, <1>3, LastIsIn DEF BoxLost, Clone, Known, PublishedIsKnown
  <2>2. receipts' = [pr \in PRs |-> IF pr \in ledger' THEN receipts[pr] ELSE <<>>]
    BY <1>3 DEF BoxLost
  <2> QED
    BY <2>1, <2>2 DEF InLedger, Filed
<1>4. ASSUME NEW e \in Evaluators, Score(e) PROVE InLedger'
  <2>1. ev[e].pr \in PRs /\ work[e].raw # <<>>
    BY <1>4 DEF Score, Typed, Active, Cached, InHand
  <2>2. \/ UNCHANGED <<ledger, receipts>>
        \/ /\ receipts' = [receipts EXCEPT ![ev[e].pr] = work[e].raw]
           /\ ledger' = ledger \cup {ev[e].pr}
    BY <1>4 DEF Score
  <2> QED
    BY <1>1, <1>2, <2>1, <2>2 DEF InLedger, Filed
<1>5. ASSUME NEW e \in Evaluators, OpenCache(e) \/ WriteCache(e) \/ CommitLedger(e) \/ PushLedger(e)
      PROVE  UNCHANGED <<ledger, receipts>>
  BY <1>5 DEF OpenCache, WriteCache, CommitLedger, PushLedger, Commit, Push, publishing
<1> QED
  BY <1>2, <1>3, <1>4, <1>5, FileMoves DEF Filing, publishing

\* A whole bench is what the promise calls whole.
LEMMA WholeRecord ==
    ASSUME NEW recs \in Seq({"base", "candidate"}), WholeBench(recs), recs # <<>>
    PROVE  recs = Promise!Whole
<1>1. Repeats \in Nat /\ HeldRepeats \in Nat
  BY EvaluationAssumption DEF HeldRepeats
<1>2. Needed("bench") = 2 * (Repeats + HeldRepeats)
  BY <1>1 DEF Needed, GateStages
<1>3. Len(recs) = 2 * (Repeats + HeldRepeats) /\ \A k \in 1 .. Len(recs) : recs[k] = Turn(k)
  BY <1>2 DEF WholeBench, InTurn
<1>4. recs = [k \in 1 .. 2 * (Repeats + HeldRepeats) |-> Turn(k)]
  BY <1>1, <1>3
<1> QED
  BY <1>4 DEF Promise!Whole, Turn

\* Everything the promise needs to know of a state.
PromiseInv == Typed /\ InStep /\ Built /\ Judged /\ Alternating /\ Cached /\ Known /\ InLedger

LEMMA PromiseInit == Init => PromiseInv /\ Promise!Init
<1> SUFFICES ASSUME Init PROVE PromiseInv /\ Promise!Init
  OBVIOUS
<1>1. Known /\ InLedger
  BY DEF Init, PublishingInit, Known, Growing, PublishedIsKnown, InLedger, Filed
<1>2. Promise!Init
  BY DEF Init, PublishingInit, Promise!Init, Committed, Worthy
<1> QED
  BY <1>1, <1>2, InitType, JudgedInit, PairsInit, CachedInit DEF PromiseInv

LEMMA PromiseStep ==
    ASSUME Prompts > 1, PromiseInv, [Next]_vars
    PROVE  PromiseInv'
BY TypeStep, InStepStep, BuiltStep, JudgedStep, AlternatingStep, CachedStep, KnownStep, FiledStep
   DEF PromiseInv

\* A score is the measuring of a pull request that deserves it, or is refused.
LEMMA ScoreMeasures ==
    ASSUME PromiseInv, NEW e \in Evaluators, Score(e)
    PROVE  Promise!Measure(ev[e].pr) \/ UNCHANGED Promise!vars
<1> DEFINE pr == ev[e].pr
<1>1. /\ pr \in PRs /\ work[e].raw # <<>> /\ Active(e)
      /\ work[e].raw \in Seq({"base", "candidate"}) /\ WholeBench(work[e].raw)
  BY DEF PromiseInv, Score, Typed, TypeOK, WorkType, Active, Cached, InHand, Alternating
<1>2. UNCHANGED <<Worthy, Committed(remote)>>
  BY DEF Score, Worthy
<1>3. CASE receipts[pr] # <<>>
  <2>1. UNCHANGED receipts
    BY <1>3 DEF Score
  <2> QED
    BY <1>2, <2>1 DEF Promise!vars
<1>4. CASE receipts[pr] = <<>>
  <2>1. receipts' = [receipts EXCEPT ![pr] = Promise!Whole]
    BY <1>1, <1>4, WholeRecord DEF Score
  <2>2. pr \in Worthy
    BY <1>1 DEF PromiseInv, Judged, JudgedOne, BasePassed, Right, Worthy
  <2> QED
    BY <1>2, <1>4, <2>1, <2>2 DEF Promise!Measure, Promise!Filed
<1> QED
  BY <1>3, <1>4

\* A push publishes what the ledger has, and takes nothing back.
LEMMA PushPublishes ==
    ASSUME PromiseInv, Push, UNCHANGED <<sub, receipts>>
    PROVE  Promise!Publish
<1>1. local \in Seq(SUBSET PRs) /\ remote \in Seq(SUBSET PRs)
  BY DEF PromiseInv, Typed, TypeOK
<1>2. remote' = local /\ Known /\ ledger = Filed
  BY DEF Push, PromiseInv, InLedger
<1>3. Committed(local) \subseteq ledger
  BY <1>1, <1>2, LastIsIn DEF Known
<1>4. Committed(remote) \subseteq Committed(local)
  <2>1. CASE remote = <<>>
    BY <2>1 DEF Committed
  <2>2. CASE remote # <<>>
    <3>1. /\ Len(remote) \in DOMAIN local /\ remote[Len(remote)] = local[Len(remote)]
      BY <1>1, <2>2 DEF Push, IsPrefix
    <3>2. local[Len(remote)] \subseteq Committed(local)
      BY <1>1, <1>2, <3>1, GrowingLast DEF Known
    <3> QED
      BY <2>2, <3>1, <3>2 DEF Committed, Last
  <2> QED
    BY <2>1, <2>2
<1>5. UNCHANGED Worthy
  BY DEF Worthy
<1> QED
  BY <1>2, <1>3, <1>4, <1>5 DEF Promise!Publish, Promise!Filed, Filed, Committed

LEMMA StepPromises ==
    ASSUME PromiseInv, [Next]_vars
    PROVE  [Promise!Next]_(Promise!vars)
<1>1. UNCHANGED sub
  BY StepCases, StageFrame, ScriptFrame, TimeoutFrame, BoxFrame
     DEF Calibrate, Elsewhere, PromiseInv
<1>2. CASE UNCHANGED <<receipts, remote>>
  BY <1>1, <1>2 DEF Promise!vars, Worthy, Committed
<1>3. CASE BoxLost
  <2>1. receipts' = [pr \in PRs |-> IF pr \in Committed(remote) THEN receipts[pr] ELSE <<>>]
    BY <1>3 DEF BoxLost, Clone
  <2>2. UNCHANGED <<Worthy, Committed(remote)>>
    BY <1>1, <1>3 DEF BoxLost, Clone, Worthy
  <2> QED
    BY <2>1, <2>2 DEF Promise!LoseBox, Promise!Next
<1>4. ASSUME NEW e \in Evaluators, Score(e) PROVE [Promise!Next]_(Promise!vars)
  <2>1. ev[e].pr \in PRs
    BY <1>4 DEF Score, PromiseInv, Typed, Active
  <2> QED
    BY <1>4, <2>1, ScoreMeasures DEF Promise!Next
<1>5. ASSUME NEW e \in Evaluators, PushLedger(e) PROVE [Promise!Next]_(Promise!vars)
  <2>1. UNCHANGED receipts /\ (Push \/ UNCHANGED remote)
    BY <1>5 DEF PushLedger, publishing
  <2> QED
    BY <1>1, <1>2, <2>1, PushPublishes DEF Promise!Next
<1>6. ASSUME NEW e \in Evaluators, OpenCache(e) \/ WriteCache(e) \/ CommitLedger(e)
      PROVE  UNCHANGED <<receipts, remote>>
  BY <1>6 DEF OpenCache, WriteCache, CommitLedger, Commit, publishing
<1> QED
  BY <1>2, <1>3, <1>4, <1>5, <1>6, FileMoves DEF Filing, publishing

\* Measuring keeps its promise: one whole receipt for a build that deserves it, which
\* never changes, and nothing published is taken back, whoever evaluates beside whom
\* and whatever is timed out, killed, refused or lost.
THEOREM MeasuringKeepsPromise ==
    ASSUME Prompts > 1
    PROVE  Spec => ReceiptPromiseKept
<1>1. Init => PromiseInv /\ Promise!Init
  BY PromiseInit
<1>2. PromiseInv /\ [Next]_vars => PromiseInv'
  BY PromiseStep
<1>3. PromiseInv /\ [Next]_vars => [Promise!Next]_(Promise!vars)
  BY StepPromises
<1> QED
  BY <1>1, <1>2, <1>3, PTL DEF Spec, ReceiptPromiseKept, Promise!Spec

=============================================================================
