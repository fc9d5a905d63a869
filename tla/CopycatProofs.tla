---------------------------- MODULE CopycatProofs -----------------------------
(***************************************************************************)
(* What is proved about the copycat guard (Copycat.tla), for every number   *)
(* of pull requests, authors and pieces of code, every ordering of pushes   *)
(* and rebases, and every bound: the variables keep their types and a block *)
(* in force ends only with an unblock, however many evaluators run; with    *)
(* one of them at a time, which is how pr_bot is deployed, no observation   *)
(* is ever rewritten and every block is borne out by the files.             *)
(***************************************************************************)
EXTENDS Copycat, SequenceTheorems, WellFoundedInduction, TLAPS

Places == {"idle", "record", "open", "write", "judge", "block", "close"}
Queues == UNION {[s -> Branches] : s \in SUBSET PRs}
Guards == [pc : Places, pr : PRs \cup {NoOne}, queue : Queues, refs : SUBSET PRs,
           cleared : SUBSET PRs, seen : 0 .. MaxTime, observed : SUBSET Entries,
           original : PRs \cup {NoOne}]
Corpora == UNION {[s -> Entries \cup {Torn}] : s \in SUBSET (PRs \X Heads)}
Records == [action : {"block", "unblock"}, author : Authors, pr : PRs \cup {NoOne},
            head : Heads, original : PRs \cup {NoOne}]

\* The variables as sets hold them, rather than element by element.
Stored ==
    /\ branch \in [PRs -> Branches]
    /\ open \subseteq PRs /\ cleared \subseteq PRs /\ main \subseteq Parts
    /\ corpus \in Corpora
    /\ blocks \in Seq(Records)
    /\ clock \in 1 .. MaxTime /\ heads \in Heads /\ lifts \in 0 .. MaxLifts
    /\ faults \in 0 .. MaxFaults
    /\ guard \in [Evaluators -> Guards]

\* An entry is filed under its own name, and says who opened the pull request.
Filed ==
    \A k \in DOMAIN corpus : corpus[k] # Torn =>
        k = Key(corpus[k].pr, corpus[k].head) /\ corpus[k].author = Author[corpus[k].pr]

\* Whoever is past the listing works on a pull request of his queue.
AtWork == \A e \in Evaluators : guard[e].pc # "idle" => guard[e].pr \in DOMAIN guard[e].queue

Typed == Stored /\ Filed /\ AtWork

-----------------------------------------------------------------------------
\* What the guard's verdict can name

\* Every original a verdict names is a reference, another author's and earlier, and
\* a copy shares code with it.
LEMMA JudgeNamesReferences ==
    ASSUME NEW cand, NEW entries, NEW onMain, NEW stacked,
           NEW o \in Judge(cand, entries, onMain, stacked).originals
    PROVE  /\ o \in References(cand, entries)
           /\ Judge(cand, entries, onMain, stacked).kind = "copy" =>
                \E p \in o.added : p \in cand.added
<1> DEFINE boiler == Boilerplate(entries)
           refs == References(cand, entries)
           infra == Infrastructure(refs, onMain, boiler)
           novel == Novel(cand, boiler, infra)
           rows == {Row(cand, r, novel, boiler, infra) : r \in refs}
           Of(k) == {r \in rows : Kind(r, stacked) = k}
           found == {k \in DOMAIN Kinds : Of(Kinds[k]) # {}}
           kind == Kinds[CHOOSE k \in found : \A j \in found : k <= j]
           verdict == Judge(cand, entries, onMain, stacked)
<1>1. verdict = IF novel = {} \/ found = {}
                THEN [kind |-> "none", originals |-> {}]
                ELSE [kind |-> kind, originals |-> {r.ref : r \in Originals(Of(kind), kind)}]
  BY DEF Judge
<1>2. ~(novel = {} \/ found = {})
  <2> SUFFICES ASSUME novel = {} \/ found = {} PROVE FALSE
    OBVIOUS
  <2> HIDE DEF novel, found, kind
  <2>1. verdict.originals = {}
    BY <1>1
  <2> QED
    BY <2>1
<1>3. verdict = [kind |-> kind, originals |-> {r.ref : r \in Originals(Of(kind), kind)}]
  <2> HIDE DEF novel, found, kind, Of, verdict
  <2> QED
    BY <1>1, <1>2
<1>4. verdict.kind = kind /\ verdict.originals = {r.ref : r \in Originals(Of(kind), kind)}
  <2> HIDE DEF kind, Of, verdict
  <2> QED
    BY <1>3
<1>5. PICK row \in Originals(Of(kind), kind) : o = row.ref
  <2> HIDE DEF kind, Of
  <2> QED
    BY <1>4
<1>6. row \in Of(kind)
  <2> HIDE DEF kind, Of
  <2> QED
    BY <1>5 DEF Originals
<1>7. row \in rows /\ Kind(row, stacked) = kind
  <2> HIDE DEF kind, rows
  <2> QED
    BY <1>6
<1>8. PICK r \in refs : row = Row(cand, r, novel, boiler, infra)
  <2> HIDE DEF refs, novel, boiler, infra
  <2> QED
    BY <1>7
<1>9. o = r /\ row.shared \subseteq r.added /\ row.shared \subseteq cand.added
  <2> HIDE DEF refs, boiler, infra
  <2> QED
    BY <1>5, <1>8 DEF Row, Novel
<1>10. kind = "copy" => row.shared # {}
  <2> HIDE DEF kind
  <2> QED
    BY <1>7 DEF Kind
<1> QED
  <2> HIDE DEF kind, verdict
  <2>1. o \in refs
    BY <1>9, <1>8
  <2>2. verdict.kind = "copy" => \E p \in o.added : p \in cand.added
    BY <1>4, <1>9, <1>10
  <2> QED
    BY <2>1, <2>2 DEF verdict

-----------------------------------------------------------------------------
\* Type correctness

LEMMA IdleGuard == Idle \in Guards
<1>1. <<>> \in [{} -> Branches]
  OBVIOUS
<1>2. <<>> \in Queues
  BY <1>1 DEF Queues
<1>3. 0 \in 0 .. MaxTime
  BY CopycatAssumption
<1> QED
  BY <1>2, <1>3 DEF Idle, Guards, Places, NoOne

\* A queue some pull requests are taken from is a queue.
LEMMA RestrictType ==
    ASSUME NEW q \in Queues, NEW s \in SUBSET (DOMAIN q)
    PROVE  Restrict(q, s) \in Queues /\ DOMAIN Restrict(q, s) = s
<1>1. PICK d \in SUBSET PRs : q \in [d -> Branches]
  BY DEF Queues
<1>2. Restrict(q, s) \in [s -> Branches] /\ s \in SUBSET PRs
  BY <1>1 DEF Restrict
<1> QED
  BY <1>2 DEF Queues, Restrict

\* What a queue holds are heads of pull requests.
LEMMA QueueType ==
    ASSUME NEW q \in Queues
    PROVE  /\ DOMAIN q \subseteq PRs
           /\ \A pr \in DOMAIN q : q[pr] \in Branches
BY DEF Queues

LEMMA CorpusType ==
    /\ \A c \in Corpora : /\ DOMAIN c \subseteq PRs \X Heads
                          /\ \A k \in DOMAIN c : c[k] \in Entries \/ c[k] = Torn
    /\ Torn \notin Entries
<1>1. ASSUME NEW t \in Entries, t = Torn PROVE FALSE
  BY <1>1 DEF Entries, Torn
<1> QED
  BY <1>1 DEF Corpora

LEMMA InitTyped == Init => Typed
<1> SUFFICES ASSUME Init PROVE Typed
  OBVIOUS
<1>1. NoHead \in Branches
  BY CopycatAssumption DEF NoHead, Branches, Heads
<1>2. corpus \in Corpora /\ DOMAIN corpus = {}
  <2>1. <<>> \in [{} -> Entries \cup {Torn}]
    OBVIOUS
  <2> QED
    BY <2>1 DEF Init, Corpora
<1>3. Stored
  BY <1>1, <1>2, IdleGuard, CopycatAssumption DEF Init, Stored, Heads
<1>4. AtWork
  BY DEF Init, AtWork, Idle
<1> QED
  BY <1>2, <1>3, <1>4 DEF Typed, Filed

\* An evaluator that goes somewhere leaves every guard well typed.
LEMMA GuardMoves ==
    ASSUME Typed, NEW e \in Evaluators, NEW g \in Guards,
           guard' = [guard EXCEPT ![e] = g],
           g.pc # "idle" => g.pr \in DOMAIN g.queue
    PROVE  guard' \in [Evaluators -> Guards] /\ AtWork'
BY DEF Typed, Stored, AtWork

\* What an evaluator works on.
LEMMA WorkType ==
    ASSUME Typed, NEW e \in Evaluators
    PROVE  /\ guard[e] \in Guards
           /\ guard[e].pc # "idle" =>
                /\ guard[e].pr \in PRs
                /\ guard[e].queue[guard[e].pr] \in Branches
                /\ Mine(e) \in PRs \X Heads
                /\ Mine(e) = Key(guard[e].pr, guard[e].queue[guard[e].pr].head)
                /\ Entry(e) \in Entries
                /\ Entry(e).pr = guard[e].pr
                /\ Entry(e).head = guard[e].queue[guard[e].pr].head
                /\ Entry(e).author = Author[guard[e].pr]
                /\ Entry(e).seen = guard[e].seen
                /\ Entry(e).added = guard[e].queue[guard[e].pr].added
<1>1. guard[e] \in Guards
  BY DEF Typed, Stored
<1>2. guard[e].queue \in Queues /\ guard[e].seen \in 0 .. MaxTime
  BY <1>1 DEF Guards
<1>3. ASSUME guard[e].pc # "idle"
      PROVE  guard[e].pr \in PRs /\ guard[e].queue[guard[e].pr] \in Branches
  BY <1>2, <1>3, QueueType DEF Typed, AtWork
<1>4. ASSUME guard[e].pc # "idle"
      PROVE  Mine(e) = Key(guard[e].pr, guard[e].queue[guard[e].pr].head)
             /\ Mine(e) \in PRs \X Heads
  BY <1>3, <1>4 DEF Mine, Key, Branches
<1>5. ASSUME guard[e].pc # "idle"
      PROVE  /\ Entry(e) \in Entries
             /\ Entry(e).pr = guard[e].pr
             /\ Entry(e).head = guard[e].queue[guard[e].pr].head
             /\ Entry(e).author = Author[guard[e].pr]
             /\ Entry(e).seen = guard[e].seen
             /\ Entry(e).added = guard[e].queue[guard[e].pr].added
  <2>1. Author[guard[e].pr] \in Authors
    BY <1>3, <1>5, CopycatAssumption
  <2> QED
    BY <1>2, <1>3, <1>5, <2>1 DEF Entry, Entries, Branches
<1> QED
  BY <1>1, <1>3, <1>4, <1>5

\* The evaluator that has answered goes on with the rest of its queue.
LEMMA AnsweredType ==
    ASSUME Typed, NEW e \in Evaluators, Answered(e, "idle")
    PROVE  \E g \in Guards : guard' = [guard EXCEPT ![e] = g] /\ g.pc = "idle"
<1> DEFINE q == Without(e, guard[e].pr)
           g == [guard[e] EXCEPT !.pc = "idle", !.observed = {}, !.pr = NoOne, !.seen = 0,
                                 !.original = NoOne, !.queue = q]
<1>1. guard[e] \in Guards /\ guard[e].queue \in Queues
  BY DEF Typed, Stored, Guards
<1>2. q \in Queues
  BY <1>1, RestrictType DEF Without
<1>3. guard' = [guard EXCEPT ![e] = g]
  BY DEF Answered
<1>4. 0 \in 0 .. MaxTime
  BY CopycatAssumption
<1>5. g \in Guards /\ g.pc = "idle"
  BY <1>1, <1>2, <1>4 DEF Guards, Places
<1> QED
  BY <1>3, <1>5

\* An entry on record keeps the type of its file, and the time it was first seen.
LEMMA FirstSeenType ==
    ASSUME Typed, Torn \notin Range(corpus), NEW key, NEW now \in 0 .. MaxTime
    PROVE  Range(corpus) \subseteq Entries /\ FirstSeen(key, now) \in 0 .. MaxTime
<1>1. \A k \in DOMAIN corpus : corpus[k] \in Entries
  BY CorpusType DEF Typed, Stored, Range
<1> QED
  BY <1>1 DEF Range, FirstSeen, Entries

\* What is done on github changes no file and no evaluator.
Contributes ==
    \/ \E pr \in PRs : Push(pr) \/ Rebase(pr) \/ Merge(pr) \/ Reopen(pr) \/ Clear(pr)
    \/ \E pr, other \in PRs : Stack(pr, other)

LEMMA NewHeadType ==
    ASSUME Typed, NEW pr \in PRs, NEW added \in SUBSET Parts, NEW base \in SUBSET Parts,
           NEW on \in SUBSET Heads, NewHead(pr, added, base, on)
    PROVE  branch' \in [PRs -> Branches] /\ heads' \in Heads
<1>1. heads' \in Heads
  BY CopycatAssumption DEF NewHead, Typed, Stored, Heads
<1>2. [head |-> heads', added |-> added, base |-> base, on |-> on] \in Branches
  BY <1>1 DEF Branches
<1> QED
  BY <1>1, <1>2 DEF NewHead, Typed, Stored

\* What is pushed to a pull request is a diff, with commits below it.
LEMMA BranchType ==
    ASSUME Typed, NEW pr \in PRs
    PROVE  /\ branch[pr].head \in Heads /\ branch[pr].added \subseteq Parts
           /\ branch[pr].base \subseteq Parts /\ branch[pr].on \subseteq Heads
           /\ \A s \in Shapes[pr] : s.added \subseteq Parts /\ s.base \subseteq Parts
<1>1. branch[pr] \in Branches
  BY DEF Typed, Stored
<1>2. Shapes[pr] \subseteq [added : SUBSET Parts, base : SUBSET Parts]
  BY CopycatAssumption
<1> QED
  BY <1>1, <1>2 DEF Branches

\* The variables that are only ever written on github.
GithubTyped ==
    /\ branch \in [PRs -> Branches] /\ heads \in Heads
    /\ open \subseteq PRs /\ cleared \subseteq PRs /\ main \subseteq Parts
    /\ lifts \in 0 .. MaxLifts

LEMMA ContributeType ==
    ASSUME Typed, Contributes
    PROVE  GithubTyped' /\ Aside
<1> USE DEF Typed, Stored, GithubTyped
<1>1. ASSUME NEW pr \in PRs, Push(pr)
      PROVE  GithubTyped' /\ Aside
  <2>1. PICK s \in Shapes[pr] :
            NewHead(pr, s.added, s.base, branch[pr].on \cup ({branch[pr].head} \ {0}))
    BY <1>1 DEF Push
  <2>2. /\ s.added \in SUBSET Parts /\ s.base \in SUBSET Parts
        /\ branch[pr].on \cup ({branch[pr].head} \ {0}) \in SUBSET Heads
    BY BranchType
  <2>3. branch' \in [PRs -> Branches] /\ heads' \in Heads
    <3> HIDE DEF Typed
    <3> QED
      BY <2>1, <2>2, NewHeadType
  <2> QED
    BY <1>1, <2>3 DEF Push
<1>2. ASSUME NEW pr \in PRs, Rebase(pr)
      PROVE  GithubTyped' /\ Aside
  <2>1. branch[pr].added \in SUBSET Parts /\ branch[pr].base \in SUBSET Parts
    BY BranchType
  <2>2. branch' \in [PRs -> Branches] /\ heads' \in Heads
    <3> HIDE DEF Typed
    <3> QED
      BY <1>2, <2>1, NewHeadType DEF Rebase
  <2> QED
    BY <1>2, <2>2 DEF Rebase
<1>3. ASSUME NEW pr \in PRs, Merge(pr)
      PROVE  GithubTyped' /\ Aside
  BY <1>3, BranchType DEF Merge
<1>4. ASSUME NEW pr \in PRs, Reopen(pr)
      PROVE  GithubTyped' /\ Aside
  BY <1>4, CopycatAssumption DEF Reopen
<1>5. ASSUME NEW pr \in PRs, Clear(pr)
      PROVE  GithubTyped' /\ Aside
  BY <1>5, CopycatAssumption DEF Clear
<1>6. ASSUME NEW pr \in PRs, NEW other \in PRs, Stack(pr, other)
      PROVE  GithubTyped' /\ Aside
  <2>1. PICK s \in Shapes[pr] :
            NewHead(pr, s.added \cup branch[other].added, s.base,
                    branch[other].on \cup {branch[other].head})
    BY <1>6 DEF Stack
  <2>2. /\ s.added \cup branch[other].added \in SUBSET Parts /\ s.base \in SUBSET Parts
        /\ branch[other].on \cup {branch[other].head} \in SUBSET Heads
    BY <2>1, BranchType
  <2>3. branch' \in [PRs -> Branches] /\ heads' \in Heads
    BY <2>1, <2>2, NewHeadType
  <2> QED
    BY <1>6, <2>3 DEF Stack
<1> QED
  BY <1>1, <1>2, <1>3, <1>4, <1>5, <1>6 DEF Contributes

\* A verdict ends the work on a pull request, or goes on to its closing, or names an
\* original to block its author for.
LEMMA VerdictSteps ==
    ASSUME Typed, NEW e \in Evaluators, JudgeIt(e)
    PROVE  \/ Answered(e, "idle")
           \/ guard' = [guard EXCEPT ![e] = [guard[e] EXCEPT !.pc = "close"]]
           \/ \E original \in Others(e) :
                /\ guard' = [guard EXCEPT ![e] = [guard[e] EXCEPT !.pc = "block",
                                                                !.original = original.pr]]
                /\ Author[guard[e].pr] \notin Maintainers
                /\ original.author # Entry(e).author /\ original.seen < Entry(e).seen
                /\ \E p \in original.added : p \in Entry(e).added
<1> DEFINE pr == guard[e].pr
           exempt == Author[pr] \in Maintainers \/ pr \in guard[e].cleared
           verdict == Judge(Entry(e), Others(e), main, StackedOn(e))
<1>1. guard \in [Evaluators -> Guards]
  BY DEF Typed, Stored
<1>2. CASE exempt
  BY <1>2 DEF JudgeIt
<1>3. CASE ~exempt /\ CurrentBlock(Author[pr])
  <2>1. guard' = [guard EXCEPT ![e].pc = "close"]
    BY <1>3 DEF JudgeIt
  <2> QED
    BY <2>1
<1>4. CASE ~exempt /\ ~CurrentBlock(Author[pr])
  <2> HIDE DEF verdict
  <2>1. IF verdict.kind # "copy" THEN Answered(e, "idle")
        ELSE \E original \in verdict.originals :
                guard' = [guard EXCEPT ![e].pc = "block", ![e].original = original.pr]
    BY <1>4 DEF JudgeIt, verdict
  <2>2. ASSUME verdict.kind = "copy"
        PROVE  \E original \in Others(e) :
                /\ guard' = [guard EXCEPT ![e] = [guard[e] EXCEPT !.pc = "block",
                                                                !.original = original.pr]]
                /\ Author[guard[e].pr] \notin Maintainers
                /\ original.author # Entry(e).author /\ original.seen < Entry(e).seen
                /\ \E p \in original.added : p \in Entry(e).added
    <3>1. PICK original \in verdict.originals :
                guard' = [guard EXCEPT ![e].pc = "block", ![e].original = original.pr]
      BY <2>1, <2>2
    <3>2. /\ original \in References(Entry(e), Others(e))
          /\ \E p \in original.added : p \in Entry(e).added
      BY <2>2, <3>1, JudgeNamesReferences DEF verdict
    <3>3. /\ original \in Others(e) /\ original.author # Entry(e).author
          /\ original.seen < Entry(e).seen
      BY <3>2 DEF References
    <3>4. guard' = [guard EXCEPT ![e] = [guard[e] EXCEPT !.pc = "block",
                                                       !.original = original.pr]]
      BY <1>1, <3>1
    <3> QED
      BY <1>4, <3>2, <3>3, <3>4
  <2> QED
    BY <2>1, <2>2
<1> QED
  BY <1>2, <1>3, <1>4

\* A verdict ends the evaluator's work on a pull request or goes on with it.
LEMMA VerdictType ==
    ASSUME Typed, NEW e \in Evaluators, JudgeIt(e)
    PROVE  \E g \in Guards : /\ guard' = [guard EXCEPT ![e] = g]
                             /\ g.pc # "idle" => g.pr \in DOMAIN g.queue
<1>1. guard[e] \in Guards /\ guard[e].pr \in DOMAIN guard[e].queue
  BY WorkType DEF JudgeIt, Typed, AtWork
<1>2. CASE Answered(e, "idle")
  BY <1>2, AnsweredType
<1>3. CASE guard' = [guard EXCEPT ![e] = [guard[e] EXCEPT !.pc = "close"]]
  <2> DEFINE g == [guard[e] EXCEPT !.pc = "close"]
  <2>1. g \in Guards /\ g.pr \in DOMAIN g.queue
    BY <1>1 DEF Guards, Places
  <2> QED
    BY <1>3, <2>1
<1>4. ASSUME NEW original \in Others(e),
             guard' = [guard EXCEPT ![e] = [guard[e] EXCEPT !.pc = "block",
                                                         !.original = original.pr]]
      PROVE  \E g \in Guards : /\ guard' = [guard EXCEPT ![e] = g]
                               /\ g.pc # "idle" => g.pr \in DOMAIN g.queue
  <2> DEFINE g == [guard[e] EXCEPT !.pc = "block", !.original = original.pr]
  <2>1. original.pr \in PRs
    BY <1>1 DEF Others, Guards, Entries
  <2>2. g \in Guards /\ g.pr \in DOMAIN g.queue
    BY <1>1, <2>1 DEF Guards, Places
  <2> QED
    BY <1>4, <2>2
<1> QED
  BY <1>2, <1>3, <1>4, VerdictSteps

\* The record AppendBlock adds.
BlockOf(e) ==
    [action |-> "block", author |-> Author[guard[e].pr], pr |-> guard[e].pr,
     head |-> guard[e].queue[guard[e].pr].head, original |-> guard[e].original]

LEMMA BlockType ==
    ASSUME Typed, NEW e \in Evaluators, guard[e].pc # "idle"
    PROVE  BlockOf(e) \in Records
<1>1. Author[guard[e].pr] \in Authors /\ guard[e].pr \in PRs
  BY WorkType, CopycatAssumption
<1>2. guard[e].queue[guard[e].pr].head \in Heads /\ guard[e].original \in PRs \cup {NoOne}
  BY WorkType DEF Branches, Guards
<1> QED
  BY <1>1, <1>2 DEF BlockOf, Records

LEMMA TypedStep == Typed /\ [Next]_vars => Typed'
<1> SUFFICES ASSUME Typed, [Next]_vars
             PROVE  Typed'
  OBVIOUS
<1>1. CASE UNCHANGED vars
  BY <1>1 DEF vars, github, Typed, Stored, Filed, AtWork
<1>2. CASE Contributes
  <2>1. GithubTyped' /\ Aside
    BY <1>2, ContributeType
  <2> QED
    BY <2>1 DEF GithubTyped, Aside, Typed, Stored, Filed, AtWork
<1>3. ASSUME NEW a \in Authors, Unblock(a)
      PROVE  Typed'
  <2>1. [action |-> "unblock", author |-> a, pr |-> NoOne, head |-> 0,
         original |-> NoOne] \in Records
    BY CopycatAssumption DEF Records, Heads
  <2>2. blocks' \in Seq(Records)
    BY <1>3, <2>1 DEF Unblock, Logged, Typed, Stored
  <2>3. lifts' \in 0 .. MaxLifts
    BY <1>3, CopycatAssumption DEF Unblock, Typed, Stored
  <2> QED
    BY <1>3, <2>2, <2>3 DEF Unblock, github, Typed, Stored, Filed, AtWork
<1>4. ASSUME NEW e \in Evaluators, List(e)
      PROVE  Typed'
  <2> DEFINE g == [Idle EXCEPT !.queue = Restrict(branch, open), !.refs = open,
                               !.cleared = cleared]
  <2>1. Restrict(branch, open) \in Queues
    BY DEF Restrict, Queues, Typed, Stored
  <2>2. g \in Guards /\ g.pc = "idle"
    BY <2>1, IdleGuard DEF Guards, Idle, Typed, Stored
  <2>3. guard' = [guard EXCEPT ![e] = g]
    BY <1>4 DEF List
  <2>4. guard' \in [Evaluators -> Guards] /\ AtWork'
    BY <2>2, <2>3, GuardMoves
  <2> QED
    BY <1>4, <2>4 DEF List, github, Typed, Stored, Filed
<1>5. ASSUME NEW e \in Evaluators, NEW pr \in PRs, Observe(e, pr)
      PROVE  Typed'
  <2>1. guard[e] \in Guards /\ guard[e].queue \in Queues
    BY WorkType DEF Guards
  <2>2. ASSUME Torn \in Range(corpus)
        PROVE  guard' \in [Evaluators -> Guards] /\ AtWork' /\ clock' = clock
    <3> DEFINE g == [guard[e] EXCEPT !.queue = Without(e, pr)]
    <3>1. Without(e, pr) \in Queues
      BY <2>1, RestrictType DEF Without
    <3>2. g \in Guards /\ g.pc = "idle"
      BY <1>5, <2>1, <3>1 DEF Guards, Observe
    <3>3. guard' = [guard EXCEPT ![e] = g] /\ clock' = clock
      BY <1>5, <2>2 DEF Observe
    <3> QED
      BY <3>2, <3>3, GuardMoves
  <2>3. ASSUME Torn \notin Range(corpus)
        PROVE  guard' \in [Evaluators -> Guards] /\ AtWork' /\ clock' \in 1 .. MaxTime
    <3>1. PICK now \in {clock, clock + 1} :
            /\ now <= MaxTime /\ clock' = now
            /\ guard' = [guard EXCEPT ![e] =
                    [@ EXCEPT !.pc = "record", !.pr = pr, !.observed = Range(corpus),
                              !.seen = FirstSeen(Key(pr, guard[e].queue[pr].head), now)]]
      BY <1>5, <2>3 DEF Observe
    <3> DEFINE seen == FirstSeen(Key(pr, guard[e].queue[pr].head), now)
               g == [guard[e] EXCEPT !.pc = "record", !.pr = pr, !.observed = Range(corpus),
                                     !.seen = seen]
    <3>2. now \in 1 .. MaxTime
      BY <3>1, CopycatAssumption DEF Typed, Stored
    <3>3. seen \in 0 .. MaxTime /\ Range(corpus) \subseteq Entries
      BY <2>3, <3>2, FirstSeenType
    <3>4. g \in Guards /\ g.pr \in DOMAIN g.queue
      <4> HIDE DEF seen
      <4> QED
        BY <1>5, <2>1, <3>3 DEF Guards, Places, Observe
    <3>5. guard' = [guard EXCEPT ![e] = g]
      BY <3>1
    <3> QED
      <4> HIDE DEF g
      <4> QED
        BY <3>1, <3>2, <3>4, <3>5, GuardMoves
  <2> QED
    BY <1>5, <2>2, <2>3 DEF Observe, github, Typed, Stored, Filed
<1>6. ASSUME NEW e \in Evaluators, CheckEntry(e)
      PROVE  Typed'
  <2> DEFINE g == [guard[e] EXCEPT !.pc = IF Mine(e) \in DOMAIN corpus THEN "judge" ELSE "open"]
  <2>1. g \in Guards /\ g.pr \in DOMAIN g.queue
    BY <1>6, WorkType DEF CheckEntry, Guards, Places, Typed, AtWork
  <2>2. guard' = [guard EXCEPT ![e] = g]
    BY <1>6 DEF CheckEntry
  <2>3. guard' \in [Evaluators -> Guards] /\ AtWork'
    <3> HIDE DEF g
    <3> QED
      BY <2>1, <2>2, GuardMoves
  <2> QED
    BY <1>6, <2>3 DEF CheckEntry, github, Typed, Stored, Filed
<1>7. ASSUME NEW e \in Evaluators, OpenEntry(e)
      PROVE  Typed'
  <2> DEFINE g == [guard[e] EXCEPT !.pc = "write"]
  <2>1. g \in Guards /\ g.pr \in DOMAIN g.queue
    BY <1>7, WorkType DEF OpenEntry, Guards, Places, Typed, AtWork
  <2>2. guard' = [guard EXCEPT ![e] = g]
    BY <1>7 DEF OpenEntry
  <2>3. guard' \in [Evaluators -> Guards] /\ AtWork'
    <3> HIDE DEF g
    <3> QED
      BY <2>1, <2>2, GuardMoves
  <2>4. /\ DOMAIN corpus' = DOMAIN corpus \cup {Mine(e)}
        /\ \A k \in DOMAIN corpus' : corpus'[k] = IF k = Mine(e) THEN Torn ELSE corpus[k]
        /\ corpus' \in Corpora
    <3>1. Mine(e) \in PRs \X Heads
      BY <1>7, WorkType DEF OpenEntry
    <3>2. DOMAIN corpus \subseteq PRs \X Heads
          /\ \A k \in DOMAIN corpus : corpus[k] \in Entries \cup {Torn}
      BY CorpusType DEF Typed, Stored
    <3>3. corpus' \in [DOMAIN corpus \cup {Mine(e)} -> Entries \cup {Torn}]
      BY <1>7, <3>2 DEF OpenEntry
    <3> QED
      BY <1>7, <3>1, <3>2, <3>3 DEF OpenEntry, Corpora
  <2>5. Filed'
    BY <2>4 DEF Filed, Typed
  <2> QED
    BY <1>7, <2>3, <2>4, <2>5 DEF OpenEntry, github, Typed, Stored
<1>8. ASSUME NEW e \in Evaluators, WriteEntry(e)
      PROVE  Typed'
  <2> DEFINE g == [guard[e] EXCEPT !.pc = "judge"]
  <2>1. g \in Guards /\ g.pr \in DOMAIN g.queue
    BY <1>8, WorkType DEF WriteEntry, Guards, Places, Typed, AtWork
  <2>2. guard' = [guard EXCEPT ![e] = g]
    BY <1>8 DEF WriteEntry
  <2>3. guard' \in [Evaluators -> Guards] /\ AtWork'
    <3> HIDE DEF g
    <3> QED
      BY <2>1, <2>2, GuardMoves
  <2>4. /\ DOMAIN corpus' = DOMAIN corpus
        /\ \A k \in DOMAIN corpus' : corpus'[k] = IF k = Mine(e) THEN Entry(e) ELSE corpus[k]
        /\ corpus' \in Corpora
    <3>1. Entry(e) \in Entries
      BY <1>8, WorkType DEF WriteEntry
    <3>2. DOMAIN corpus \subseteq PRs \X Heads
          /\ \A k \in DOMAIN corpus : corpus[k] \in Entries \cup {Torn}
      BY CorpusType DEF Typed, Stored
    <3>3. corpus \in [DOMAIN corpus -> Entries \cup {Torn}]
      BY DEF Typed, Stored, Corpora
    <3> QED
      BY <1>8, <3>1, <3>2, <3>3 DEF WriteEntry, Corpora
  <2>5. Filed'
    BY <1>8, <2>4, WorkType DEF WriteEntry, Filed, Typed
  <2> QED
    BY <1>8, <2>3, <2>4, <2>5 DEF WriteEntry, github, Typed, Stored
<1>9. ASSUME NEW e \in Evaluators, JudgeIt(e)
      PROVE  Typed'
  <2>1. \E g \in Guards : /\ guard' = [guard EXCEPT ![e] = g]
                          /\ g.pc # "idle" => g.pr \in DOMAIN g.queue
    BY <1>9, VerdictType
  <2>2. guard' \in [Evaluators -> Guards] /\ AtWork'
    BY <2>1, GuardMoves
  <2> QED
    BY <1>9, <2>2 DEF JudgeIt, github, Typed, Stored, Filed
<1>10. ASSUME NEW e \in Evaluators, AppendBlock(e)
      PROVE  Typed'
  <2> DEFINE g == [guard[e] EXCEPT !.pc = "close"]
  <2>1. g \in Guards /\ g.pr \in DOMAIN g.queue
    BY <1>10, WorkType DEF AppendBlock, Guards, Places, Typed, AtWork
  <2>2. guard' = [guard EXCEPT ![e] = g]
    BY <1>10 DEF AppendBlock
  <2>3. guard' \in [Evaluators -> Guards] /\ AtWork'
    <3> HIDE DEF g
    <3> QED
      BY <2>1, <2>2, GuardMoves
  <2>4. BlockOf(e) \in Records /\ blocks' = Append(blocks, BlockOf(e))
    BY <1>10, BlockType DEF AppendBlock, Logged, BlockOf
  <2>5. blocks' \in Seq(Records)
    BY <2>4 DEF Typed, Stored
  <2> QED
    BY <1>10, <2>3, <2>5 DEF AppendBlock, github, Typed, Stored, Filed
<1>11. ASSUME NEW e \in Evaluators, ClosePR(e)
      PROVE  Typed'
  <2>1. guard' \in [Evaluators -> Guards] /\ AtWork'
    BY <1>11, AnsweredType, GuardMoves DEF ClosePR
  <2>2. open' \subseteq PRs /\ faults' \in 0 .. MaxFaults
    <3>1. CASE open' = open \ {guard[e].pr} /\ UNCHANGED faults
      BY <3>1 DEF Typed, Stored
    <3>2. CASE Fault /\ UNCHANGED open
      BY <3>2, CopycatAssumption DEF Fault, Typed, Stored
    <3> QED
      BY <1>11, <3>1, <3>2 DEF ClosePR
  <2>3. UNCHANGED <<branch, cleared, main, heads, corpus, blocks, clock, lifts>>
    BY <1>11 DEF ClosePR
  <2> QED
    BY <2>1, <2>2, <2>3 DEF Typed, Stored, Filed
<1>12. ASSUME NEW e \in Evaluators, Crash(e)
      PROVE  Typed'
  <2>1. guard' \in [Evaluators -> Guards] /\ AtWork'
    BY <1>12, IdleGuard, GuardMoves DEF Crash, Idle
  <2>2. faults' \in 0 .. MaxFaults
    BY <1>12, CopycatAssumption DEF Crash, Fault, Typed, Stored
  <2> QED
    BY <1>12, <2>1, <2>2 DEF Crash, github, Typed, Stored, Filed
<1> QED
  BY <1>1, <1>2, <1>3, <1>4, <1>5, <1>6, <1>7, <1>8, <1>9, <1>10, <1>11, <1>12
  DEF Next, Contributes

LEMMA TypedAlways == Spec => []Typed
BY InitTyped, TypedStep, PTL DEF Spec

LEMMA TypedIsTypeOK == Typed => TypeOK
<1> SUFFICES ASSUME Typed PROVE TypeOK
  OBVIOUS
<1>1. \A e \in Evaluators :
        /\ guard[e] \in Guards
        /\ DOMAIN guard[e].queue \subseteq PRs
        /\ \A pr \in DOMAIN guard[e].queue : guard[e].queue[pr] \in Branches
  BY QueueType DEF Typed, Stored, Guards
<1>2. /\ DOMAIN corpus \subseteq PRs \X Heads
      /\ \A k \in DOMAIN corpus : corpus[k] = Torn \/ corpus[k] \in Entries
  BY CorpusType DEF Typed, Stored
<1>3. \A i \in DOMAIN blocks : blocks[i] \in Records
  BY DEF Typed, Stored
<1> QED
  BY <1>1, <1>2, <1>3 DEF TypeOK, Typed, Stored, Filed, Guards, Places, Records

\* Every variable of the guard keeps its type, and an observation lies under the name
\* of its pull request and head, whatever is pushed, torn or repeated.
THEOREM TypeCorrect == Spec => []TypeOK
BY TypedAlways, TypedIsTypeOK, PTL

-----------------------------------------------------------------------------
\* Blocks

\* A set of places in a log has a last one.
LEMMA LastOfSome ==
    ASSUME NEW n \in Nat, NEW s \in SUBSET (1 .. n), s # {}
    PROVE  Max(s) \in s /\ \A i \in s : Max(s) >= i
<1> DEFINE left == {n - i : i \in s}
<1>1. left \subseteq Nat /\ left # {}
  <2>1. \A i \in s : n - i \in Nat
    OBVIOUS
  <2> QED
    BY <2>1
<1>2. PICK x \in left : \A y \in left : ~(<<y, x>> \in OpToRel(<, Nat))
  BY <1>1, NatLessThanWellFounded, WFMin, Zenon
<1>3. \A y \in left : ~(y < x)
  <2> HIDE DEF left
  <2> QED
    BY <1>1, <1>2 DEF OpToRel
<1>4. PICK i \in s : x = n - i
  OBVIOUS
<1>5. \A j \in s : i >= j
  <2> TAKE j \in s
  <2>1. n - j \in left /\ ~(n - j < x)
    BY <1>3
  <2> QED
    BY <1>4, <2>1
<1> QED
  BY <1>5 DEF Max

\* A record of somebody else changes nothing; his own decides.
LEMMA LatestDecides ==
    ASSUME Typed, NEW a \in Authors, NEW rec \in Records, blocks' = Append(blocks, rec)
    PROVE  /\ rec.author # a => (CurrentBlock(a)' <=> CurrentBlock(a))
           /\ rec.author = a => (CurrentBlock(a)' <=> rec.action = "block")
           /\ Len(blocks') = Len(blocks) + 1 /\ blocks'[Len(blocks')] = rec
<1> DEFINE n == Len(blocks)
           his == {i \in DOMAIN blocks : blocks[i].author = a}
           later == {i \in DOMAIN blocks' : blocks'[i].author = a}
<1>1. blocks \in Seq(Records) /\ n \in Nat /\ DOMAIN blocks = 1 .. n
  BY DEF Typed, Stored
<1>2. /\ DOMAIN blocks' = 1 .. n + 1 /\ Len(blocks') = n + 1
      /\ blocks'[n + 1] = rec
      /\ \A i \in 1 .. n : blocks'[i] = blocks[i]
  BY <1>1
<1>3. his \subseteq 1 .. n /\ later \subseteq 1 .. n + 1
  BY <1>1, <1>2
<1>4. ASSUME rec.author # a
      PROVE  CurrentBlock(a)' <=> CurrentBlock(a)
  <2>1. later = his
    BY <1>1, <1>2, <1>4
  <2>2. CASE his = {}
    BY <2>1, <2>2 DEF CurrentBlock
  <2>3. CASE his # {}
    <3>1. Max(his) \in his
      <4> HIDE DEF his
      <4> QED
        BY <1>1, <1>3, <2>3, LastOfSome
    <3>2. blocks'[Max(his)] = blocks[Max(his)]
      BY <1>2, <1>3, <3>1
    <3>3. CurrentBlock(a) <=> his # {} /\ blocks[Max(his)].action = "block"
      BY DEF CurrentBlock
    <3>4. CurrentBlock(a)' <=> later # {} /\ blocks'[Max(later)].action = "block"
      BY DEF CurrentBlock
    <3> QED
      BY <2>1, <3>2, <3>3, <3>4
  <2> QED
    BY <2>2, <2>3
<1>5. ASSUME rec.author = a
      PROVE  CurrentBlock(a)' <=> rec.action = "block"
  <2>1. n + 1 \in later
    BY <1>1, <1>2, <1>5
  <2>2. Max(later) \in later /\ Max(later) >= n + 1
    <3> HIDE DEF later
    <3>1. later \in SUBSET (1 .. (n + 1)) /\ n + 1 \in Nat /\ later # {}
      BY <1>1, <1>3, <2>1
    <3>2. Max(later) \in later /\ \A i \in later : Max(later) >= i
      BY <3>1, LastOfSome
    <3> QED
      BY <2>1, <3>2
  <2>3. Max(later) = n + 1
    <3> HIDE DEF later
    <3>1. Max(later) \in 1 .. (n + 1)
      BY <1>3, <2>2
    <3> QED
      BY <1>1, <2>2, <3>1
  <2>4. CurrentBlock(a)' <=> later # {} /\ blocks'[Max(later)].action = "block"
    BY DEF CurrentBlock
  <2> QED
    BY <1>2, <2>1, <2>3, <2>4
<1> QED
  BY <1>2, <1>4, <1>5

\* What is done to the log: nothing, an unblock with a reason, or a block.
LEMMA LogGrows ==
    ASSUME Typed, [Next]_vars
    PROVE  \/ UNCHANGED blocks
           \/ \E rec \in Records : blocks' = Append(blocks, rec)
<1>1. ASSUME NEW a \in Authors, Unblock(a)
      PROVE  \E rec \in Records : blocks' = Append(blocks, rec)
  BY <1>1, CopycatAssumption DEF Unblock, Logged, Records, Heads
<1>2. ASSUME NEW e \in Evaluators, AppendBlock(e)
      PROVE  \E rec \in Records : blocks' = Append(blocks, rec)
  <2>1. BlockOf(e) \in Records
    BY <1>2, BlockType DEF AppendBlock
  <2> QED
    BY <1>2, <2>1 DEF AppendBlock, Logged, BlockOf
<1>3. ASSUME NEW e \in Evaluators,
             \/ List(e) \/ CheckEntry(e) \/ OpenEntry(e) \/ WriteEntry(e)
             \/ JudgeIt(e) \/ ClosePR(e) \/ Crash(e)
             \/ \E pr \in PRs : Observe(e, pr)
      PROVE  UNCHANGED blocks
  BY <1>3 DEF List, CheckEntry, OpenEntry, WriteEntry, JudgeIt, ClosePR, Crash, Observe
<1>4. CASE Contributes
  BY <1>4, ContributeType DEF Aside
<1>5. CASE UNCHANGED vars
  BY <1>5 DEF vars
<1> QED
  BY <1>1, <1>2, <1>3, <1>4, <1>5 DEF Next, Contributes

\* A block in force ends with an unblock of that author, and with nothing else: not
\* with another block of his, not with anybody else's record, not with a death.
THEOREM BlocksHold == Spec => BlocksHoldUntilLifted
<1>1. ASSUME Typed, [Next]_vars, NEW a \in Authors, CurrentBlock(a), ~CurrentBlock(a)'
      PROVE  /\ Len(blocks') = Len(blocks) + 1
             /\ blocks'[Len(blocks')].action = "unblock" /\ blocks'[Len(blocks')].author = a
  <2>1. ~UNCHANGED blocks
    BY <1>1 DEF CurrentBlock
  <2>2. PICK rec \in Records : blocks' = Append(blocks, rec)
    BY <1>1, <2>1, LogGrows
  <2>3. rec.author = a /\ rec.action # "block"
    BY <1>1, <2>2, LatestDecides
  <2>4. rec.action = "unblock"
    BY <2>3 DEF Records
  <2> QED
    BY <1>1, <2>2, <2>3, <2>4, LatestDecides
<1>2. Typed /\ [Next]_vars =>
        \A a \in Authors : CurrentBlock(a) /\ ~CurrentBlock(a)' =>
            /\ Len(blocks') = Len(blocks) + 1
            /\ blocks'[Len(blocks')].action = "unblock" /\ blocks'[Len(blocks')].author = a
  BY <1>1
<1> QED
  BY <1>2, TypedAlways, PTL DEF Spec, BlocksHoldUntilLifted

-----------------------------------------------------------------------------
\* One evaluator at a time

\* pr_bot runs one copycat guard at a time.  Two of them could each miss the other's
\* entry and rewrite it (MCCopycat_two_guards).
OneAtATime == \A e, f \in Evaluators : e = f

\* A head names one version of the code, in the branch, in a listing and on file.
HeadsAreOld ==
    /\ \A pr \in PRs : branch[pr].head <= heads
    /\ \A e \in Evaluators : \A pr \in DOMAIN guard[e].queue : guard[e].queue[pr].head <= heads
    /\ \A k \in DOMAIN corpus : k[2] <= heads
HeadsAreCode ==
    /\ \A pr \in PRs : Key(pr, branch[pr].head) \in DOMAIN corpus =>
        \/ corpus[Key(pr, branch[pr].head)] = Torn
        \/ corpus[Key(pr, branch[pr].head)].added = branch[pr].added
    /\ \A e \in Evaluators : \A pr \in DOMAIN guard[e].queue :
        /\ guard[e].queue[pr].head = branch[pr].head =>
            guard[e].queue[pr].added = branch[pr].added
        /\ Key(pr, guard[e].queue[pr].head) \in DOMAIN corpus =>
            \/ corpus[Key(pr, guard[e].queue[pr].head)] = Torn
            \/ corpus[Key(pr, guard[e].queue[pr].head)].added = guard[e].queue[pr].added

\* Somebody else's head is on file, seen before this evaluator's and sharing code.
Evidence(author, original, seen, added) ==
    \E k \in DOMAIN corpus :
        /\ corpus[k] # Torn /\ corpus[k].pr = original /\ Author[original] # author
        /\ corpus[k].seen < seen /\ \E p \in corpus[k].added : p \in added

\* Where an evaluator stands, and what its own entry looks like then.
OnFile(e) ==
    Mine(e) \in DOMAIN corpus /\ corpus[Mine(e)] # Torn
    /\ corpus[Mine(e)].seen = guard[e].seen
Remembers(e) == \A f \in guard[e].observed : \E k \in DOMAIN corpus : corpus[k] = f
Standing(e) ==
    /\ Remembers(e)
    /\ guard[e].pc = "record" =>
        \A k \in DOMAIN corpus :
            corpus[k] # Torn /\ (k = Mine(e) => corpus[k].seen = guard[e].seen)
    /\ guard[e].pc = "open" => Mine(e) \notin DOMAIN corpus
    /\ guard[e].pc = "write" => Mine(e) \in DOMAIN corpus /\ corpus[Mine(e)] = Torn
    /\ guard[e].pc \in {"judge", "block"} => OnFile(e)
    /\ guard[e].pc = "block" =>
        /\ Author[guard[e].pr] \notin Maintainers
        /\ Evidence(Author[guard[e].pr], guard[e].original, guard[e].seen,
                    guard[e].queue[guard[e].pr].added)
AtRecord == \A e \in Evaluators : Standing(e)

\* A block names what the files bear out.
Borne(b) ==
    /\ b.author \notin Maintainers /\ b.author = Author[b.pr]
    /\ Key(b.pr, b.head) \in DOMAIN corpus /\ corpus[Key(b.pr, b.head)] # Torn
    /\ Evidence(b.author, b.original, corpus[Key(b.pr, b.head)].seen,
                corpus[Key(b.pr, b.head)].added)
BlocksAreBorne == \A b \in BlockRecords : Borne(b)

FileInv == Typed /\ HeadsAreOld /\ HeadsAreCode /\ AtRecord /\ BlocksAreBorne

\* A step of one evaluator.
EvaluatorStep(e) ==
    \/ List(e) \/ CheckEntry(e) \/ OpenEntry(e) \/ WriteEntry(e)
    \/ JudgeIt(e) \/ AppendBlock(e) \/ ClosePR(e) \/ Crash(e)
    \/ \E pr \in PRs : Observe(e, pr)

LEMMA StepCases ==
    ASSUME [Next]_vars
    PROVE  \/ UNCHANGED vars
           \/ Contributes
           \/ \E a \in Authors : Unblock(a)
           \/ \E e \in Evaluators : EvaluatorStep(e)
BY DEF Next, Contributes, EvaluatorStep

\* A branch that changes gets a head nobody has seen, and nothing else happens.
LEMMA BranchStep ==
    ASSUME Typed, [Next]_vars
    PROVE  /\ heads \in Nat /\ heads' \in Nat /\ heads <= heads'
           /\ \A pr \in PRs :
                \/ branch'[pr] = branch[pr]
                \/ branch'[pr].head = heads + 1 /\ heads' = heads + 1 /\ UNCHANGED <<corpus, guard>>
<1>1. heads \in Nat
  BY DEF Typed, Stored, Heads
<1>2. ASSUME NEW pr \in PRs, NEW added, NEW base, NEW on, NewHead(pr, added, base, on), Aside
      PROVE  /\ heads' = heads + 1 /\ UNCHANGED <<corpus, guard>>
             /\ \A other \in PRs : branch'[other] = branch[other] \/ branch'[other].head = heads + 1
  <2>1. branch \in [PRs -> Branches]
    BY DEF Typed, Stored
  <2> QED
    BY <1>2, <2>1 DEF NewHead, Aside
<1>3. ASSUME UNCHANGED <<branch, heads>>
      PROVE  /\ heads' = heads
             /\ \A pr \in PRs : branch'[pr] = branch[pr]
  BY <1>3
<1>4. CASE Contributes
  <2>1. ASSUME NEW pr \in PRs, Push(pr) \/ Rebase(pr)
        PROVE  \E added, base, on : NewHead(pr, added, base, on) /\ Aside
    BY <2>1 DEF Push, Rebase
  <2>2. ASSUME NEW pr \in PRs, NEW other \in PRs, Stack(pr, other)
        PROVE  \E added, base, on : NewHead(pr, added, base, on) /\ Aside
    BY <2>2 DEF Stack
  <2>3. ASSUME NEW pr \in PRs, Merge(pr) \/ Reopen(pr) \/ Clear(pr)
        PROVE  UNCHANGED <<branch, heads>>
    BY <2>3 DEF Merge, Reopen, Clear
  <2> QED
    BY <1>1, <1>2, <1>3, <1>4, <2>1, <2>2, <2>3 DEF Contributes
<1>5. ASSUME NEW e \in Evaluators, EvaluatorStep(e)
      PROVE  UNCHANGED <<branch, heads>>
  BY <1>5 DEF EvaluatorStep, List, CheckEntry, OpenEntry, WriteEntry, JudgeIt, AppendBlock,
              ClosePR, Crash, Observe, github
<1>6. ASSUME NEW a \in Authors, Unblock(a)
      PROVE  UNCHANGED <<branch, heads>>
  BY <1>6 DEF Unblock, github
<1>7. UNCHANGED vars => UNCHANGED <<branch, heads>>
  BY DEF vars, github
<1> QED
  BY <1>1, <1>3, <1>4, <1>5, <1>6, <1>7, StepCases

\* A listing is taken from the branches and then only gets shorter.
LEMMA QueueStep ==
    ASSUME Typed, [Next]_vars, NEW e \in Evaluators, NEW pr \in DOMAIN guard'[e].queue
    PROVE  \/ pr \in DOMAIN guard[e].queue /\ guard'[e].queue[pr] = guard[e].queue[pr]
           \/ guard'[e].queue[pr] = branch[pr] /\ pr \in PRs /\ UNCHANGED <<branch, corpus, heads>>
<1> DEFINE Kept == pr \in DOMAIN guard[e].queue /\ guard'[e].queue[pr] = guard[e].queue[pr]
<1>0. guard \in [Evaluators -> Guards]
  BY DEF Typed, Stored
<1>1. guard' = guard => Kept
  OBVIOUS
<1>2. ASSUME NEW f \in Evaluators, List(f)
      PROVE  Kept \/ (guard'[e].queue[pr] = branch[pr] /\ pr \in PRs
                      /\ UNCHANGED <<branch, corpus, heads>>)
  <2>1. CASE f # e
    BY <1>0, <1>2, <2>1 DEF List
  <2>2. CASE f = e
    <3>1. guard'[e].queue = Restrict(branch, open)
      BY <1>0, <1>2, <2>2 DEF List, Idle
    <3> QED
      BY <1>2, <3>1 DEF List, Restrict, github, Typed, Stored
  <2> QED
    BY <2>1, <2>2
<1>3. ASSUME NEW f \in Evaluators, CheckEntry(f) \/ OpenEntry(f) \/ WriteEntry(f) \/ AppendBlock(f)
      PROVE  Kept
  <2>1. guard'[e].queue = guard[e].queue
    BY <1>0, <1>3 DEF CheckEntry, OpenEntry, WriteEntry, AppendBlock, Guards
  <2> QED
    BY <2>1
<1>4. ASSUME NEW f \in Evaluators, Answered(f, "idle")
      PROVE  Kept
  <2>1. guard'[f].queue = Without(f, guard[f].pr)
    BY <1>0, <1>4 DEF Answered, Guards
  <2>2. f # e => guard'[e] = guard[e]
    BY <1>0, <1>4 DEF Answered
  <2> QED
    BY <2>1, <2>2 DEF Without, Restrict
<1>5. ASSUME NEW f \in Evaluators, JudgeIt(f)
      PROVE  Kept
  <2>1. \/ Answered(f, "idle")
        \/ \E g : guard' = [guard EXCEPT ![f] = g] /\ g.queue = guard[f].queue
    <3>1. guard[f] \in Guards
      BY <1>0
    <3>2. /\ [guard[f] EXCEPT !.pc = "close"].queue = guard[f].queue
          /\ \A o : [guard[f] EXCEPT !.pc = "block", !.original = o].queue = guard[f].queue
      BY <3>1 DEF Guards
    <3> QED
      BY <1>5, <3>2, VerdictSteps
  <2>2. CASE \E g : guard' = [guard EXCEPT ![f] = g] /\ g.queue = guard[f].queue
    BY <1>0, <2>2
  <2> QED
    BY <1>4, <2>1, <2>2
<1>6. ASSUME NEW f \in Evaluators, ClosePR(f)
      PROVE  Kept
  BY <1>4, <1>6 DEF ClosePR
<1>7. ASSUME NEW f \in Evaluators, Crash(f)
      PROVE  Kept
  BY <1>0, <1>7 DEF Crash, Idle
<1>8. ASSUME NEW f \in Evaluators, NEW p \in PRs, Observe(f, p)
      PROVE  Kept
  <2>1. CASE Torn \in Range(corpus)
    <3>1. guard' = [guard EXCEPT ![f].queue = Without(f, p)]
      BY <1>8, <2>1 DEF Observe
    <3> QED
      BY <1>0, <3>1 DEF Guards, Without, Restrict
  <2>2. CASE Torn \notin Range(corpus)
    <3>1. PICK seen :
            guard' = [guard EXCEPT ![f] =
                    [@ EXCEPT !.pc = "record", !.pr = p, !.observed = Range(corpus),
                              !.seen = seen]]
      BY <1>8, <2>2 DEF Observe
    <3>2. guard'[e].queue = guard[e].queue
      BY <1>0, <3>1 DEF Guards
    <3> QED
      BY <3>2
  <2> QED
    BY <2>1, <2>2
<1>9. UNCHANGED vars \/ Contributes \/ (\E a \in Authors : Unblock(a)) => guard' = guard
  BY ContributeType DEF vars, Aside, Unblock
<1> QED
  BY <1>1, <1>2, <1>3, <1>5, <1>6, <1>7, <1>8, <1>9, StepCases DEF EvaluatorStep

\* The files change in two ways only: an entry is opened under a name that is free, or
\* an entry that is open is written.
LEMMA CorpusStep ==
    ASSUME FileInv, [Next]_vars
    PROVE  \/ UNCHANGED corpus
           \/ \E e \in Evaluators :
                /\ OpenEntry(e) /\ Mine(e) \notin DOMAIN corpus
                /\ DOMAIN corpus' = DOMAIN corpus \cup {Mine(e)}
                /\ corpus'[Mine(e)] = Torn
                /\ \A k \in DOMAIN corpus : corpus'[k] = corpus[k]
           \/ \E e \in Evaluators :
                /\ WriteEntry(e) /\ Mine(e) \in DOMAIN corpus /\ corpus[Mine(e)] = Torn
                /\ DOMAIN corpus' = DOMAIN corpus
                /\ corpus'[Mine(e)] = Entry(e)
                /\ \A k \in DOMAIN corpus : k # Mine(e) => corpus'[k] = corpus[k]
<1>1. ASSUME NEW e \in Evaluators, OpenEntry(e)
      PROVE  /\ Mine(e) \notin DOMAIN corpus
             /\ DOMAIN corpus' = DOMAIN corpus \cup {Mine(e)}
             /\ corpus'[Mine(e)] = Torn
             /\ \A k \in DOMAIN corpus : corpus'[k] = corpus[k]
  BY <1>1 DEF OpenEntry, FileInv, AtRecord, Standing
<1>2. ASSUME NEW e \in Evaluators, WriteEntry(e)
      PROVE  /\ Mine(e) \in DOMAIN corpus /\ corpus[Mine(e)] = Torn
             /\ DOMAIN corpus' = DOMAIN corpus
             /\ corpus'[Mine(e)] = Entry(e)
             /\ \A k \in DOMAIN corpus : k # Mine(e) => corpus'[k] = corpus[k]
  <2>1. Mine(e) \in DOMAIN corpus /\ corpus[Mine(e)] = Torn
    BY <1>2 DEF WriteEntry, FileInv, AtRecord, Standing
  <2>2. corpus \in [DOMAIN corpus -> Entries \cup {Torn}]
    BY DEF FileInv, Typed, Stored, Corpora
  <2> QED
    BY <1>2, <2>1, <2>2 DEF WriteEntry
<1>3. ASSUME NEW e \in Evaluators,
             \/ List(e) \/ CheckEntry(e) \/ JudgeIt(e) \/ AppendBlock(e) \/ ClosePR(e)
             \/ Crash(e) \/ \E pr \in PRs : Observe(e, pr)
      PROVE  UNCHANGED corpus
  BY <1>3 DEF List, CheckEntry, JudgeIt, AppendBlock, ClosePR, Crash, Observe
<1>4. UNCHANGED vars \/ Contributes \/ (\E a \in Authors : Unblock(a)) => UNCHANGED corpus
  BY ContributeType DEF vars, Aside, Unblock, FileInv
<1> QED
  BY <1>1, <1>2, <1>3, <1>4, StepCases DEF EvaluatorStep

\* What is on file stays on file.
FilesGrow ==
    \A k \in DOMAIN corpus : corpus[k] # Torn => k \in DOMAIN corpus' /\ corpus'[k] = corpus[k]

LEMMA FilesOnlyGrow ==
    ASSUME FileInv, [Next]_vars
    PROVE  FilesGrow
<1>1. UNCHANGED corpus => FilesGrow
  BY DEF FilesGrow
<1>2. ASSUME NEW e \in Evaluators, Mine(e) \in DOMAIN corpus, corpus[Mine(e)] = Torn,
             DOMAIN corpus' = DOMAIN corpus,
             \A k \in DOMAIN corpus : k # Mine(e) => corpus'[k] = corpus[k]
      PROVE  FilesGrow
  BY <1>2 DEF FilesGrow
<1>3. ASSUME NEW e \in Evaluators,
             DOMAIN corpus' = DOMAIN corpus \cup {Mine(e)},
             \A k \in DOMAIN corpus : corpus'[k] = corpus[k]
      PROVE  FilesGrow
  BY <1>3 DEF FilesGrow
<1> QED
  BY <1>1, <1>2, <1>3, CorpusStep

\* An entry of the next step was there, or is torn, or is what its evaluator wrote.
LEMMA EntryStep ==
    ASSUME FileInv, [Next]_vars, NEW k \in DOMAIN corpus'
    PROVE  \/ k \in DOMAIN corpus /\ corpus'[k] = corpus[k]
           \/ \E e \in Evaluators :
                /\ k = Mine(e) /\ guard[e].pc # "idle" /\ UNCHANGED <<branch, heads>>
                /\ corpus'[k] = Torn \/ corpus'[k] = Entry(e)
<1>1. ASSUME NEW e \in Evaluators, OpenEntry(e) \/ WriteEntry(e)
      PROVE  guard[e].pc # "idle" /\ UNCHANGED <<branch, heads>>
  BY <1>1 DEF OpenEntry, WriteEntry, github
<1> QED
  BY <1>1, CorpusStep

\* Heads keep their place in time.
LEMMA HeadsStayOld ==
    ASSUME FileInv, [Next]_vars
    PROVE  HeadsAreOld'
<1>1. Typed /\ Typed' /\ heads \in Nat /\ heads' \in Nat /\ heads <= heads'
  BY TypedStep, BranchStep DEF FileInv
<1>2. ASSUME NEW pr \in PRs PROVE branch'[pr].head <= heads'
  <2>1. branch[pr].head \in Nat /\ branch[pr].head <= heads
    BY <1>1, BranchType DEF FileInv, HeadsAreOld, Heads
  <2> QED
    BY <1>1, <2>1, BranchStep
<1>3. ASSUME NEW e \in Evaluators, NEW pr \in DOMAIN guard'[e].queue
      PROVE  guard'[e].queue[pr].head <= heads'
  <2>1. CASE pr \in DOMAIN guard[e].queue /\ guard'[e].queue[pr] = guard[e].queue[pr]
    <3>1. guard[e].queue \in Queues
      BY DEF FileInv, Typed, Stored, Guards
    <3>2. guard[e].queue[pr].head \in Nat
      BY <2>1, <3>1, QueueType DEF Branches, Heads
    <3>3. guard[e].queue[pr].head <= heads
      BY <2>1 DEF FileInv, HeadsAreOld
    <3> QED
      BY <1>1, <2>1, <3>2, <3>3
  <2>2. CASE guard'[e].queue[pr] = branch[pr] /\ pr \in PRs /\ UNCHANGED <<branch, corpus, heads>>
    BY <2>2 DEF FileInv, HeadsAreOld
  <2> QED
    BY <1>1, <2>1, <2>2, QueueStep
<1>4. ASSUME NEW k \in DOMAIN corpus' PROVE k[2] <= heads'
  <2>1. CASE k \in DOMAIN corpus
    <3>1. k[2] \in Nat /\ k[2] <= heads
      BY <2>1, CorpusType DEF FileInv, Typed, Stored, HeadsAreOld, Heads
    <3> QED
      BY <1>1, <3>1
  <2>2. ASSUME NEW e \in Evaluators, k = Mine(e), guard[e].pc # "idle", UNCHANGED heads
        PROVE  k[2] <= heads'
    <3>1. k[2] = guard[e].queue[guard[e].pr].head
      BY <1>1, <2>2, WorkType DEF Key
    <3>2. guard[e].pr \in DOMAIN guard[e].queue
      BY <2>2 DEF FileInv, Typed, AtWork
    <3> QED
      BY <2>2, <3>1, <3>2 DEF FileInv, HeadsAreOld
  <2> QED
    BY <2>1, <2>2, EntryStep
<1> QED
  BY <1>2, <1>3, <1>4 DEF HeadsAreOld

\* An entry that agrees with a head's code.
Agrees(c, pr, head, added) ==
    Key(pr, head) \in DOMAIN c => c[Key(pr, head)] = Torn \/ c[Key(pr, head)].added = added

\* A head keeps its code in the next step, unless another evaluator is writing.
LEMMA AgreesOn ==
    ASSUME FileInv, [Next]_vars, NEW pr, NEW head, NEW added, Agrees(corpus, pr, head, added),
           \A e \in Evaluators :
                guard[e].pc # "idle" /\ Mine(e) = Key(pr, head) => Entry(e).added = added
    PROVE  Agrees(corpus', pr, head, added)
<1> SUFFICES ASSUME Key(pr, head) \in DOMAIN corpus'
             PROVE  corpus'[Key(pr, head)] = Torn \/ corpus'[Key(pr, head)].added = added
  BY DEF Agrees
<1>1. CASE Key(pr, head) \in DOMAIN corpus /\ corpus'[Key(pr, head)] = corpus[Key(pr, head)]
  BY <1>1 DEF Agrees
<1>2. ASSUME NEW e \in Evaluators, Key(pr, head) = Mine(e), guard[e].pc # "idle",
             corpus'[Key(pr, head)] = Torn \/ corpus'[Key(pr, head)] = Entry(e)
      PROVE  corpus'[Key(pr, head)] = Torn \/ corpus'[Key(pr, head)].added = added
  BY <1>2
<1> QED
  BY <1>1, <1>2, EntryStep

\* The code of what an evaluator writes is that of the listing it works from.
LEMMA MineAgrees ==
    ASSUME FileInv, NEW e \in Evaluators, guard[e].pc # "idle", NEW pr, NEW head,
           Mine(e) = Key(pr, head)
    PROVE  /\ pr = guard[e].pr /\ pr \in DOMAIN guard[e].queue /\ pr \in PRs
           /\ head = guard[e].queue[pr].head /\ Entry(e).added = guard[e].queue[pr].added
<1>1. /\ Mine(e) = Key(guard[e].pr, guard[e].queue[guard[e].pr].head) /\ guard[e].pr \in PRs
      /\ Entry(e).added = guard[e].queue[guard[e].pr].added
  BY WorkType DEF FileInv
<1>2. guard[e].pr \in DOMAIN guard[e].queue
  BY DEF FileInv, Typed, AtWork
<1>3. pr = guard[e].pr /\ head = guard[e].queue[guard[e].pr].head
  BY <1>1 DEF Key
<1> QED
  BY <1>1, <1>2, <1>3

LEMMA HeadsStayCode ==
    ASSUME OneAtATime, FileInv, [Next]_vars
    PROVE  HeadsAreCode'
<1>1. Typed /\ Typed' /\ heads \in Nat /\ HeadsAreOld
  BY TypedStep, BranchStep DEF FileInv
<1>2. \A pr \in PRs : Agrees(corpus, pr, branch[pr].head, branch[pr].added)
  BY DEF FileInv, HeadsAreCode, Agrees
<1>3. \A e \in Evaluators : \A pr \in DOMAIN guard[e].queue :
        /\ guard[e].queue[pr].head = branch[pr].head =>
            guard[e].queue[pr].added = branch[pr].added
        /\ Agrees(corpus, pr, guard[e].queue[pr].head, guard[e].queue[pr].added)
  BY DEF FileInv, HeadsAreCode, Agrees
<1>4. ASSUME NEW pr \in PRs
      PROVE  Agrees(corpus', pr, branch'[pr].head, branch'[pr].added)
  <2>1. CASE branch'[pr] = branch[pr]
    <3>1. ASSUME NEW e \in Evaluators, guard[e].pc # "idle",
                 Mine(e) = Key(pr, branch[pr].head)
          PROVE  Entry(e).added = branch[pr].added
      BY <1>3, <3>1, MineAgrees
    <3>2. Agrees(corpus', pr, branch[pr].head, branch[pr].added)
      BY <1>2, <3>1, AgreesOn
    <3> QED
      BY <2>1, <3>2
  <2>2. CASE branch'[pr].head = heads + 1 /\ UNCHANGED corpus
    <3>1. Key(pr, heads + 1) \notin DOMAIN corpus
      BY <1>1 DEF HeadsAreOld, Key
    <3> QED
      BY <2>2, <3>1 DEF Agrees
  <2> QED
    BY <1>1, <2>1, <2>2, BranchStep
<1>5. ASSUME NEW e \in Evaluators, NEW pr \in DOMAIN guard'[e].queue
      PROVE  /\ guard'[e].queue[pr].head = branch'[pr].head =>
                    guard'[e].queue[pr].added = branch'[pr].added
             /\ Agrees(corpus', pr, guard'[e].queue[pr].head, guard'[e].queue[pr].added)
  <2>0. pr \in PRs
    BY <1>1, QueueType DEF Typed, Stored, Guards
  <2>1. CASE guard'[e].queue[pr] = branch[pr] /\ UNCHANGED <<branch, corpus, heads>>
    BY <1>2, <2>0, <2>1
  <2>2. CASE pr \in DOMAIN guard[e].queue /\ guard'[e].queue[pr] = guard[e].queue[pr]
    <3> DEFINE head == guard[e].queue[pr].head
               added == guard[e].queue[pr].added
    <3>1. head = branch'[pr].head => added = branch'[pr].added
      <4>1. head <= heads
        BY <1>1, <2>2 DEF HeadsAreOld
      <4>2. head \in Nat
        <5>1. guard[e].queue \in Queues
          BY <1>1 DEF Typed, Stored, Guards
        <5> QED
          BY <2>2, <5>1, QueueType DEF Branches, Heads
      <4> QED
        BY <1>1, <1>3, <2>0, <2>2, <4>1, <4>2, BranchStep
    <3>2. ASSUME NEW f \in Evaluators, guard[f].pc # "idle", Mine(f) = Key(pr, head)
          PROVE  Entry(f).added = added
      <4>1. f = e
        BY DEF OneAtATime
      <4> QED
        BY <3>2, <4>1, MineAgrees
    <3>3. Agrees(corpus', pr, head, added)
      <4> HIDE DEF head, added
      <4>1. Agrees(corpus, pr, head, added)
        BY <1>3, <2>2 DEF head, added
      <4> QED
        BY <3>2, <4>1, AgreesOn
    <3> QED
      BY <2>2, <3>1, <3>3
  <2> QED
    BY <1>1, <2>1, <2>2, QueueStep
<1> QED
  BY <1>4, <1>5 DEF HeadsAreCode, Agrees

\* What an evaluator observed is still on file.
LEMMA RemembersOn ==
    ASSUME FileInv, [Next]_vars, NEW e \in Evaluators,
           guard'[e].observed \subseteq guard[e].observed
    PROVE  Remembers(e)'
<1> SUFFICES ASSUME NEW f \in guard'[e].observed
             PROVE  \E k \in DOMAIN corpus' : corpus'[k] = f
  BY DEF Remembers
<1>1. guard[e].observed \subseteq Entries
  BY DEF FileInv, Typed, Stored, Guards
<1>2. f # Torn
  BY <1>1, CorpusType
<1>3. PICK k \in DOMAIN corpus : corpus[k] = f
  BY DEF FileInv, AtRecord, Standing, Remembers
<1> QED
  BY <1>2, <1>3, FilesOnlyGrow DEF FilesGrow

\* Between two pull requests, or on the way to close one, nothing else is kept.
LEMMA AtRest ==
    ASSUME FileInv, [Next]_vars, NEW e \in Evaluators,
           guard'[e].observed \subseteq guard[e].observed, guard'[e].pc \in {"idle", "close"}
    PROVE  Standing(e)'
BY RemembersOn DEF Standing

LEMMA ObserveStands ==
    ASSUME FileInv, NEW e \in Evaluators, NEW pr \in PRs, Observe(e, pr)
    PROVE  Standing(e)'
<1>1. guard \in [Evaluators -> Guards] /\ corpus' = corpus /\ guard[e].pc = "idle"
      /\ pr \in DOMAIN guard[e].queue
  BY DEF FileInv, Typed, Stored, Observe
<1>2. [Next]_vars
  BY DEF Next
<1>3. CASE Torn \in Range(corpus)
  <2>1. guard' = [guard EXCEPT ![e].queue = Without(e, pr)]
    BY <1>3 DEF Observe
  <2>2. guard'[e].pc = "idle" /\ guard'[e].observed = guard[e].observed
    BY <1>1, <2>1 DEF Guards
  <2> QED
    BY <1>2, <2>2, AtRest
<1>4. CASE Torn \notin Range(corpus)
  <2>1. PICK now \in {clock, clock + 1} :
          guard' = [guard EXCEPT ![e] =
                    [@ EXCEPT !.pc = "record", !.pr = pr, !.observed = Range(corpus),
                              !.seen = FirstSeen(Key(pr, guard[e].queue[pr].head), now)]]
    BY <1>4 DEF Observe
  <2>2. /\ guard'[e].pc = "record" /\ guard'[e].pr = pr /\ guard'[e].observed = Range(corpus)
        /\ guard'[e].queue = guard[e].queue
        /\ guard'[e].seen = FirstSeen(Key(pr, guard[e].queue[pr].head), now)
    BY <1>1, <2>1 DEF Guards
  <2>3. Remembers(e)'
    BY <1>1, <2>2 DEF Remembers, Range
  <2>4. Mine(e)' = Key(pr, guard[e].queue[pr].head)
    BY <2>2 DEF Mine
  <2>5. \A k \in DOMAIN corpus' :
            corpus'[k] # Torn /\ (k = Mine(e)' => corpus'[k].seen = guard'[e].seen)
    BY <1>1, <1>4, <2>2, <2>4 DEF Range, FirstSeen
  <2> QED
    BY <2>2, <2>3, <2>5 DEF Standing
<1> QED
  BY <1>3, <1>4

LEMMA CheckStands ==
    ASSUME FileInv, NEW e \in Evaluators, CheckEntry(e)
    PROVE  Standing(e)'
<1>1. guard[e] \in Guards /\ corpus' = corpus /\ guard[e].pc = "record"
  BY DEF FileInv, Typed, Stored, CheckEntry
<1>2. [Next]_vars
  BY DEF Next
<1>3. /\ guard'[e].pc = IF Mine(e) \in DOMAIN corpus THEN "judge" ELSE "open"
      /\ guard'[e].pr = guard[e].pr /\ guard'[e].queue = guard[e].queue
      /\ guard'[e].seen = guard[e].seen /\ guard'[e].observed = guard[e].observed
  BY <1>1 DEF CheckEntry, Guards, FileInv, Typed, Stored
<1>4. Mine(e)' = Mine(e)
  BY <1>3 DEF Mine
<1>5. Remembers(e)'
  BY <1>2, <1>3, RemembersOn
<1>6. Mine(e) \in DOMAIN corpus => OnFile(e)'
  BY <1>1, <1>3, <1>4 DEF FileInv, AtRecord, Standing, OnFile
<1> QED
  BY <1>1, <1>3, <1>4, <1>5, <1>6 DEF Standing

LEMMA OpenStands ==
    ASSUME FileInv, NEW e \in Evaluators, OpenEntry(e)
    PROVE  Standing(e)'
<1>1. guard[e] \in Guards /\ guard[e].pc = "open"
  BY DEF FileInv, Typed, Stored, OpenEntry
<1>2. [Next]_vars
  BY DEF Next
<1>3. /\ guard'[e].pc = "write"
      /\ guard'[e].pr = guard[e].pr /\ guard'[e].queue = guard[e].queue
      /\ guard'[e].observed = guard[e].observed
  BY <1>1 DEF OpenEntry, Guards, FileInv, Typed, Stored
<1>4. Mine(e)' = Mine(e)
  BY <1>3 DEF Mine
<1>5. Mine(e) \in DOMAIN corpus' /\ corpus'[Mine(e)] = Torn
  BY DEF OpenEntry
<1> QED
  BY <1>2, <1>3, <1>4, <1>5, RemembersOn DEF Standing

LEMMA WriteStands ==
    ASSUME FileInv, NEW e \in Evaluators, WriteEntry(e)
    PROVE  Standing(e)'
<1>1. guard[e] \in Guards /\ guard[e].pc = "write"
  BY DEF FileInv, Typed, Stored, WriteEntry
<1>2. [Next]_vars
  BY DEF Next
<1>3. /\ guard'[e].pc = "judge"
      /\ guard'[e].pr = guard[e].pr /\ guard'[e].queue = guard[e].queue
      /\ guard'[e].seen = guard[e].seen /\ guard'[e].observed = guard[e].observed
  BY <1>1 DEF WriteEntry, Guards, FileInv, Typed, Stored
<1>4. Mine(e)' = Mine(e)
  BY <1>3 DEF Mine
<1>5. Entry(e) # Torn /\ Entry(e).seen = guard[e].seen
  BY <1>1, WorkType, CorpusType DEF FileInv
<1>6. Mine(e) \in DOMAIN corpus' /\ corpus'[Mine(e)] = Entry(e)
  BY <1>1 DEF WriteEntry, FileInv, AtRecord, Standing
<1>7. OnFile(e)'
  BY <1>3, <1>4, <1>5, <1>6 DEF OnFile
<1> QED
  BY <1>2, <1>3, <1>7, RemembersOn DEF Standing

LEMMA JudgeStands ==
    ASSUME FileInv, NEW e \in Evaluators, JudgeIt(e)
    PROVE  Standing(e)'
<1>1. guard[e] \in Guards /\ guard[e].pc = "judge" /\ corpus' = corpus
      /\ guard \in [Evaluators -> Guards]
  BY DEF FileInv, Typed, Stored, JudgeIt
<1>2. [Next]_vars
  BY DEF Next
<1>3. CASE Answered(e, "idle")
  <2>1. guard'[e].pc = "idle" /\ guard'[e].observed = {}
    BY <1>1, <1>3 DEF Answered, Guards
  <2> QED
    BY <1>2, <2>1, AtRest
<1>4. CASE guard' = [guard EXCEPT ![e] = [guard[e] EXCEPT !.pc = "close"]]
  <2>1. guard'[e].pc = "close" /\ guard'[e].observed = guard[e].observed
    BY <1>1, <1>4 DEF Guards
  <2> QED
    BY <1>2, <2>1, AtRest
<1>5. ASSUME NEW original \in Others(e),
             guard' = [guard EXCEPT ![e] = [guard[e] EXCEPT !.pc = "block",
                                                         !.original = original.pr]],
             Author[guard[e].pr] \notin Maintainers,
             original.author # Entry(e).author, original.seen < Entry(e).seen,
             \E p \in original.added : p \in Entry(e).added
      PROVE  Standing(e)'
  <2>1. /\ guard'[e].pc = "block" /\ guard'[e].pr = guard[e].pr
        /\ guard'[e].queue = guard[e].queue /\ guard'[e].seen = guard[e].seen
        /\ guard'[e].observed = guard[e].observed /\ guard'[e].original = original.pr
    BY <1>1, <1>5 DEF Guards
  <2>2. Mine(e)' = Mine(e)
    BY <2>1 DEF Mine
  <2>3. OnFile(e)'
    BY <1>1, <2>1, <2>2 DEF FileInv, AtRecord, Standing, OnFile
  <2>4. original \in guard[e].observed
    BY DEF Others
  <2>5. PICK k \in DOMAIN corpus : corpus[k] = original
    BY <2>4 DEF FileInv, AtRecord, Standing, Remembers
  <2>6. original # Torn
    BY <1>1, <2>4, CorpusType DEF Guards
  <2>7. original.author = Author[original.pr]
    BY <2>5, <2>6 DEF FileInv, Typed, Filed
  <2>8. /\ Entry(e).author = Author[guard[e].pr] /\ Entry(e).seen = guard[e].seen
        /\ Entry(e).added = guard[e].queue[guard[e].pr].added
    BY <1>1, WorkType DEF FileInv
  <2>9. Evidence(Author[guard[e].pr], original.pr, guard[e].seen,
                 guard[e].queue[guard[e].pr].added)
    BY <1>5, <2>5, <2>6, <2>7, <2>8 DEF Evidence
  <2>10. Evidence(Author[guard[e].pr], guard[e].original, guard[e].seen,
                  guard[e].queue[guard[e].pr].added)'
    BY <1>1, <2>1, <2>9 DEF Evidence
  <2> QED
    BY <1>2, <1>5, <2>1, <2>3, <2>10, RemembersOn DEF Standing
<1> QED
  BY <1>3, <1>4, <1>5, VerdictSteps DEF FileInv

LEMMA RecordStep ==
    ASSUME OneAtATime, FileInv, [Next]_vars
    PROVE  AtRecord'
<1>1. ASSUME NEW e \in Evaluators, EvaluatorStep(e)
      PROVE  Standing(e)'
  <2>0. guard \in [Evaluators -> Guards]
    BY DEF FileInv, Typed, Stored
  <2>1. CASE List(e) \/ Crash(e)
    <3>1. ASSUME List(e)
          PROVE  guard'[e].pc = "idle" /\ guard'[e].observed = {}
      <4> DEFINE g == [Idle EXCEPT !.queue = Restrict(branch, open), !.refs = open,
                                   !.cleared = cleared]
      <4>1. guard' = [guard EXCEPT ![e] = g]
        BY <3>1 DEF List
      <4>2. g.pc = "idle" /\ g.observed = {}
        BY DEF Idle
      <4> QED
        BY <2>0, <4>1, <4>2
    <3>2. ASSUME Crash(e)
          PROVE  guard'[e].pc = "idle" /\ guard'[e].observed = {}
      BY <2>0, <3>2 DEF Crash, Idle
    <3> QED
      BY <2>1, <3>1, <3>2, AtRest
  <2>2. CASE ClosePR(e)
    <3>1. guard'[e].pc = "idle" /\ guard'[e].observed = {}
      BY <2>0, <2>2 DEF ClosePR, Answered, Guards
    <3> QED
      BY <3>1, AtRest
  <2>3. CASE AppendBlock(e)
    <3>1. guard'[e].pc = "close" /\ guard'[e].observed = guard[e].observed
      BY <2>0, <2>3 DEF AppendBlock, Guards
    <3> QED
      BY <3>1, AtRest
  <2> QED
    BY <1>1, <2>1, <2>2, <2>3, ObserveStands, CheckStands, OpenStands, WriteStands, JudgeStands
    DEF EvaluatorStep
<1>2. CASE UNCHANGED <<guard, corpus>>
  <2>1. \A e \in Evaluators : Mine(e)' = Mine(e)
    BY <1>2 DEF Mine
  <2> QED
    BY <1>2, <2>1 DEF FileInv, AtRecord, Standing, Remembers, OnFile, Evidence
<1>3. UNCHANGED vars \/ Contributes \/ (\E a \in Authors : Unblock(a)) => UNCHANGED <<guard, corpus>>
  BY ContributeType DEF vars, Aside, Unblock, FileInv
<1> QED
  BY <1>1, <1>2, <1>3, StepCases DEF OneAtATime, AtRecord

\* What bears a block out stays on file.
LEMMA BorneOn ==
    ASSUME FilesGrow, NEW b, Borne(b)
    PROVE  Borne(b)'
<1>1. /\ Key(b.pr, b.head) \in DOMAIN corpus'
      /\ corpus'[Key(b.pr, b.head)] = corpus[Key(b.pr, b.head)]
  BY DEF Borne, FilesGrow
<1>2. Evidence(b.author, b.original, corpus[Key(b.pr, b.head)].seen,
               corpus[Key(b.pr, b.head)].added)'
  BY <1>1 DEF Borne, Evidence, FilesGrow
<1> QED
  BY <1>1, <1>2 DEF Borne

LEMMA BlockStep ==
    ASSUME FileInv, [Next]_vars
    PROVE  BlocksAreBorne'
<1>0. blocks \in Seq(Records) /\ FilesGrow
  BY FilesOnlyGrow DEF FileInv, Typed, Stored
<1>1. \A b \in BlockRecords : Borne(b)'
  BY <1>0, BorneOn DEF FileInv, BlocksAreBorne
<1>2. CASE UNCHANGED blocks
  BY <1>1, <1>2 DEF BlocksAreBorne, BlockRecords
<1>3. ASSUME NEW rec \in Records, blocks' = Append(blocks, rec),
             rec.action = "block" => Borne(rec)'
      PROVE  BlocksAreBorne'
  <2>1. /\ DOMAIN blocks' = DOMAIN blocks \cup {Len(blocks) + 1}
        /\ \A i \in DOMAIN blocks : blocks'[i] = blocks[i]
        /\ blocks'[Len(blocks) + 1] = rec
    BY <1>0, <1>3
  <2>2. BlockRecords' \subseteq BlockRecords \cup {b \in {rec} : b.action = "block"}
    BY <2>1 DEF BlockRecords
  <2> QED
    BY <1>1, <1>3, <2>2 DEF BlocksAreBorne
<1>4. ASSUME NEW e \in Evaluators, AppendBlock(e)
      PROVE  BlocksAreBorne'
  <2>1. guard[e].pc = "block" /\ blocks' = Append(blocks, BlockOf(e))
    BY <1>4 DEF AppendBlock, Logged, BlockOf
  <2>2. PICK b \in Records : b = BlockOf(e)
    BY <2>1, BlockType DEF FileInv
  <2>3. /\ b.pr = guard[e].pr /\ b.author = Author[guard[e].pr]
        /\ b.head = guard[e].queue[guard[e].pr].head
        /\ b.original = guard[e].original
    BY <2>2 DEF BlockOf
  <2>4. Mine(e) = Key(b.pr, b.head) /\ guard[e].pr \in DOMAIN guard[e].queue
    BY <2>1, <2>3, WorkType DEF FileInv, Typed, AtWork
  <2>5. /\ OnFile(e) /\ Author[guard[e].pr] \notin Maintainers
        /\ Evidence(Author[guard[e].pr], guard[e].original, guard[e].seen,
                    guard[e].queue[guard[e].pr].added)
    BY <2>1 DEF FileInv, AtRecord, Standing
  <2>6. corpus[Mine(e)].added = guard[e].queue[guard[e].pr].added
    BY <2>3, <2>4, <2>5 DEF FileInv, HeadsAreCode, OnFile
  <2>7. Borne(b)
    BY <2>3, <2>4, <2>5, <2>6 DEF Borne, OnFile
  <2> QED
    BY <1>0, <1>3, <2>1, <2>2, <2>7, BorneOn
<1>5. ASSUME ~UNCHANGED blocks
      PROVE  (\E a \in Authors : Unblock(a)) \/ (\E e \in Evaluators : AppendBlock(e))
  <2>1. ASSUME NEW e \in Evaluators, EvaluatorStep(e), ~AppendBlock(e)
        PROVE  UNCHANGED blocks
    BY <2>1 DEF EvaluatorStep, List, CheckEntry, OpenEntry, WriteEntry, JudgeIt, ClosePR, Crash,
                Observe
  <2>2. UNCHANGED vars \/ Contributes => UNCHANGED blocks
    BY ContributeType DEF vars, Aside, FileInv
  <2> QED
    BY <1>5, <2>1, <2>2, StepCases
<1>6. ASSUME NEW a \in Authors, Unblock(a)
      PROVE  BlocksAreBorne'
  <2>1. PICK rec \in Records : blocks' = Append(blocks, rec) /\ rec.action = "unblock"
    BY <1>6, CopycatAssumption DEF Unblock, Logged, Records, Heads
  <2> QED
    BY <1>3, <2>1
<1> QED
  BY <1>2, <1>4, <1>5, <1>6

-----------------------------------------------------------------------------
LEMMA InitFiles == Init => FileInv
<1> SUFFICES ASSUME Init PROVE FileInv
  OBVIOUS
<1>1. Typed
  BY InitTyped
<1>2. DOMAIN corpus = {} /\ blocks = <<>>
  BY DEF Init
<1>3. \A e \in Evaluators : guard[e].pc = "idle" /\ guard[e].observed = {}
                            /\ DOMAIN guard[e].queue = {}
  BY DEF Init, Idle
<1>4. HeadsAreOld /\ HeadsAreCode
  BY <1>2, <1>3 DEF Init, HeadsAreOld, HeadsAreCode, NoHead
<1>5. AtRecord
  BY <1>3 DEF AtRecord, Standing, Remembers
<1>6. BlocksAreBorne
  BY <1>2 DEF BlocksAreBorne, BlockRecords
<1> QED
  BY <1>1, <1>4, <1>5, <1>6 DEF FileInv

LEMMA FileStep ==
    ASSUME OneAtATime
    PROVE  FileInv /\ [Next]_vars => FileInv'
<1> SUFFICES ASSUME FileInv, [Next]_vars
             PROVE  FileInv'
  OBVIOUS
<1>1. Typed'
  BY TypedStep DEF FileInv
<1> QED
  BY <1>1, HeadsStayOld, HeadsStayCode, RecordStep, BlockStep DEF FileInv

LEMMA FilesAlways == ASSUME OneAtATime PROVE Spec => []FileInv
<1>1. Init => FileInv
  BY InitFiles
<1>2. FileInv /\ [Next]_vars => FileInv'
  BY FileStep
<1> QED
  BY <1>1, <1>2, PTL DEF Spec

\* With one evaluator at a time an observation, once on file, stays as it is: who was
\* seen when is never rewritten, by a later run, after a death or for a new push.
THEOREM ObservationsStay ==
    ASSUME OneAtATime
    PROVE  Spec => CorpusIsAppendOnly
<1>1. FileInv /\ [Next]_vars =>
        [\A k \in DOMAIN corpus : corpus[k] # Torn =>
            k \in DOMAIN corpus' /\ corpus'[k] = corpus[k]]_vars
  BY FilesOnlyGrow DEF FilesGrow
<1> QED
  BY <1>1, FilesAlways, PTL DEF Spec, CorpusIsAppendOnly

\* With one evaluator at a time every account that is blocked is blocked on evidence:
\* not a maintainer's, its head is on file, and so is, seen strictly earlier, somebody
\* else's head that shares code with it; the named original is his.
THEOREM BlocksHaveEvidence ==
    ASSUME OneAtATime
    PROVE  Spec => []BlocksAreEvidenced
<1>1. FileInv => BlocksAreEvidenced
  <2> SUFFICES ASSUME FileInv, NEW b \in BlockRecords
               PROVE  /\ b.author \notin Maintainers /\ b.author = Author[b.pr]
                      /\ Author[b.original] # b.author
                      /\ Key(b.pr, b.head) \in DOMAIN corpus
                      /\ \E k \in DOMAIN corpus :
                            /\ corpus[k] # Torn /\ corpus[Key(b.pr, b.head)] # Torn
                            /\ corpus[k].pr = b.original
                            /\ corpus[k].seen < corpus[Key(b.pr, b.head)].seen
                            /\ corpus[k].added \cap corpus[Key(b.pr, b.head)].added # {}
    BY DEF BlocksAreEvidenced
  <2>1. Borne(b)
    BY DEF FileInv, BlocksAreBorne
  <2>2. PICK k \in DOMAIN corpus :
            /\ corpus[k] # Torn /\ corpus[k].pr = b.original /\ Author[b.original] # b.author
            /\ corpus[k].seen < corpus[Key(b.pr, b.head)].seen
            /\ \E p \in corpus[k].added : p \in corpus[Key(b.pr, b.head)].added
    BY <2>1 DEF Borne, Evidence
  <2> QED
    BY <2>1, <2>2 DEF Borne
<1> QED
  BY <1>1, FilesAlways, PTL

=============================================================================
