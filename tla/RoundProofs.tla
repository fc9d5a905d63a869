----------------------------- MODULE RoundProofs ------------------------------
(***************************************************************************)
(* What Round keeps whatever fails, and for any number of pull requests,    *)
(* slots, commits, faults and disputes: every value has its type, a paid    *)
(* label rests on a receipt that pays, and merge-first stands beside a paid *)
(* label unless its DELETE has failed.                                      *)
(*                                                                         *)
(* Typed is TypeOK with what a label needs: an evaluation that raised is    *)
(* never labelled.  PaidFacts says what one round remembers between its     *)
(* steps: no pull request is in two of its hands, what it is about to label *)
(* is what the ledger has, and what it will merge still has its label.      *)
(***************************************************************************)
EXTENDS Round, TLAPS

Typed == TypeOK /\ (pc = "label" => job.kind # "raised")

-----------------------------------------------------------------------------
\* What one request does to the labels

\* Nothing but the labels of p changes, and what is left of its old ones.
OnlyLabels(p) ==
    /\ gh' \in [PRs -> PRShape] /\ kept' \in [PRs -> SUBSET Burnish]
    /\ \A q \in PRs : /\ gh'[q].open = gh[q].open /\ gh'[q].merged = gh[q].merged
                      /\ gh'[q].head = gh[q].head /\ gh'[q].body = gh[q].body
                      /\ q # p => gh'[q] = gh[q] /\ kept'[q] = kept[q]

\* No label of the bot is there beside new but what set_label left standing.
NoneBeside(p, new) ==
    \A l \in Burnish \ {new} : l \in gh'[p].labels => l \in gh[p].labels /\ l \in kept'[p]

Sets(p, new) ==
    /\ OnlyLabels(p) /\ NoneBeside(p, new) /\ new \in gh'[p].labels
    /\ gh'[p].labels \subseteq gh[p].labels \cup {new}

\* With no DELETE that fails.
Replaces(p, new) == Sets(p, new) /\ gh'[p].labels = Relabelled(gh[p].labels, new)

Strips(p, new) ==
    OnlyLabels(p) /\ NoneBeside(p, new) /\ gh'[p].labels \subseteq gh[p].labels

\* What set_label leaves of the labels, whichever old ones stay.
LEMMA Relabelling ==
    ASSUME gh \in [PRs -> PRShape], kept \in [PRs -> SUBSET Burnish],
           NEW p \in PRs, NEW new \in Burnish, NEW left \in SUBSET Old(p, new),
           Relabels(p, new, left)
    PROVE  Sets(p, new) /\ (left = {} => Replaces(p, new))
<1> DEFINE labels == Relabelled(gh[p].labels, new) \cup left
<1>1. left \subseteq gh[p].labels /\ left \subseteq Burnish
  BY DEF Old
<1>2. labels \in SUBSET Labels /\ gh[p].labels \subseteq Labels
  BY <1>1 DEF Relabelled, PRShape, Labels
<1>3. gh' = [gh EXCEPT ![p] = [gh[p] EXCEPT !.labels = labels]] /\ kept' = [kept EXCEPT ![p] = left]
  BY DEF Relabels, Leaves
<1>4. [gh[p] EXCEPT !.labels = labels] \in PRShape
  BY <1>2 DEF PRShape
<1>5. gh'[p].labels = labels /\ kept'[p] = left
  BY <1>3, <1>4 DEF PRShape
<1>6. OnlyLabels(p)
  BY <1>1, <1>3, <1>4 DEF OnlyLabels, PRShape
<1>7. NoneBeside(p, new)
  BY <1>1, <1>5 DEF NoneBeside, Relabelled
<1> QED
  BY <1>1, <1>5, <1>6, <1>7 DEF Sets, Replaces, Relabelled

LEMMA RefusedIsOld ==
    ASSUME NEW p, NEW new, NEW left \in Refused(p, new)
    PROVE  left \in SUBSET Old(p, new)
BY DEF Refused

\* set_label leaves the pull request under its new label, alone if no DELETE fails.
LEMMA Setting ==
    ASSUME gh \in [PRs -> PRShape], kept \in [PRs -> SUBSET Burnish],
           NEW p \in PRs, NEW new \in Burnish, SetLabel(p, new)
    PROVE  Sets(p, new) /\ (~Fault("delete") => Replaces(p, new))
<1>1. PICK left \in Refused(p, new) :
        Relabels(p, new, left) /\ (left = {} \/ Fault("delete"))
  BY DEF SetLabel
<1> QED
  BY <1>1, Relabelling, RefusedIsOld

\* A request that fails leaves the labels alone or takes old ones away.
LEMMA Failing ==
    ASSUME gh \in [PRs -> PRShape], kept \in [PRs -> SUBSET Burnish],
           NEW p \in PRs, NEW new \in Burnish, LabelFails(p, new)
    PROVE  UNCHANGED <<gh, kept>> \/ Strips(p, new)
<1>1. CASE UNCHANGED <<gh, kept>>
  BY <1>1
<1>2. ASSUME NEW left \in SUBSET Old(p, new), Leaves(p, left),
             gh' = [gh EXCEPT ![p].labels = (@ \ Old(p, new)) \cup left]
      PROVE  Strips(p, new)
  <2> DEFINE labels == (gh[p].labels \ Old(p, new)) \cup left
  <2>1. left \subseteq gh[p].labels /\ left \subseteq Burnish
    BY DEF Old
  <2>2. labels \in SUBSET Labels /\ labels \subseteq gh[p].labels
    BY <2>1 DEF PRShape
  <2>3. /\ gh' = [gh EXCEPT ![p] = [gh[p] EXCEPT !.labels = labels]]
        /\ kept' = [kept EXCEPT ![p] = left]
    BY <1>2 DEF Leaves
  <2>4. [gh[p] EXCEPT !.labels = labels] \in PRShape
    BY <2>2 DEF PRShape
  <2>5. gh'[p].labels = labels /\ kept'[p] = left
    BY <2>3, <2>4 DEF PRShape
  <2>6. OnlyLabels(p)
    BY <2>1, <2>3, <2>4 DEF OnlyLabels, PRShape
  <2>7. NoneBeside(p, new)
    BY <2>1, <2>5 DEF NoneBeside, Old
  <2> QED
    BY <2>2, <2>5, <2>6, <2>7 DEF Strips
<1> QED
  BY <1>1, <1>2 DEF LabelFails

LEMMA Requesting ==
    ASSUME gh \in [PRs -> PRShape], kept \in [PRs -> SUBSET Burnish],
           NEW p \in PRs, NEW new \in Burnish, RequestFails(p, new)
    PROVE  UNCHANGED <<gh, kept>> \/ Strips(p, new) \/ Sets(p, new)
<1>1. ASSUME NEW left \in Refused(p, new), Relabels(p, new, left)
      PROVE  Sets(p, new)
  BY <1>1, Relabelling, RefusedIsOld
<1> QED
  BY <1>1, Failing DEF RequestFails

LEMMA FaultCounts ==
    ASSUME faults \in 0 .. MaxFaults, NEW f, Fault(f)
    PROVE  faults' \in 0 .. MaxFaults /\ faults' > 0
BY RoundAssumption DEF Fault

LEMMA RequestCounts ==
    ASSUME faults \in 0 .. MaxFaults, NEW p, NEW new, RequestFails(p, new)
    PROVE  faults' \in 0 .. MaxFaults /\ faults' > 0
BY FaultCounts DEF RequestFails, LabelFails

LEMMA SettingCounts ==
    ASSUME faults \in 0 .. MaxFaults, NEW p, NEW new, SetLabel(p, new)
    PROVE  faults' \in 0 .. MaxFaults
BY FaultCounts DEF SetLabel

-----------------------------------------------------------------------------
\* Type correctness

\* What an answer is labelled is one of the labels of the bot.
LEMMA LabelOfType ==
    ASSUME NEW kind \in Kinds \cup {"score error"}, kind # "raised", NEW gain
    PROVE  LabelOf(kind, gain) \in Burnish
BY RoundAssumption DEF LabelOf, Burnish, AllKinds, NotMeasuredKinds

LEMMA ReceiptLabelType ==
    ASSUME NEW p
    PROVE  ReceiptLabel(p) \in Burnish
BY DEF ReceiptLabel, Burnish

LEMMA HoldChangesType == HoldChanges \subseteq PRs \X Burnish
<1>1. "held" \in Burnish
  BY DEF Burnish
<1> QED
  BY <1>1, ReceiptLabelType DEF HoldChanges

LEMMA FrozenType ==
    ASSUME gh \in [PRs -> PRShape]
    PROVE  Frozen \subseteq SnapshotShape
<1> SUFFICES ASSUME NEW p \in PRs
             PROVE  [pr |-> p, head |-> gh[p].head, body |-> gh[p].body,
                     cleared |-> gh[p].labels \cap Clearances] \in SnapshotShape
  BY DEF Frozen
<1> QED
  BY DEF PRShape, SnapshotShape

LEMMA LosersType ==
    ASSUME results \in Seq(ResultShape), NEW w
    PROVE  Losers(results, w) \subseteq PRs \X Burnish
<1>1. "needs-rebase" \in Burnish
  BY DEF Burnish
<1>2. \A i \in DOMAIN results : results[i] \in ResultShape
  OBVIOUS
<1> QED
  BY <1>1, <1>2 DEF Losers, Paying, ResultShape

LEMMA TypedInit == Init => Typed
BY RoundAssumption DEF Init, Typed, TypeOK, PRs, PRShape, Heads, Bodies

\* The parts of a round's end.
LEMMA EndType ==
    ASSUME EndRound
    PROVE  /\ pc' = "idle" /\ base' \in Nat /\ todo' \subseteq PRs \X Burnish
           /\ queue' \subseteq SnapshotShape /\ job' = None /\ results' \in Seq(ResultShape)
BY DEF EndRound

\* The beginning and the end of a round.
LEMMA RoundType ==
    ASSUME Typed,
           \/ StartRound \/ SyncHold \/ SyncFails \/ NothingDue \/ FreezeQueue
           \/ NobodyWins \/ SendBack \/ SendBackRaises \/ FinishRound \/ Crash
    PROVE  Typed'
<1>1. /\ gh \in [PRs -> PRShape] /\ kept \in [PRs -> SUBSET Burnish]
      /\ todo \subseteq PRs \X Burnish /\ faults \in 0 .. MaxFaults
  BY DEF Typed, TypeOK
<1>2. \A x \in todo : x[1] \in PRs /\ x[2] \in Burnish
  BY <1>1
<1>3. CASE StartRound
  BY <1>3, HoldChangesType DEF StartRound, Typed, TypeOK, github, disk, world
<1>4. CASE SyncHold \/ SendBack
  <2>1. PICK x \in todo : SetLabel(x[1], x[2]) /\ todo' = todo \ {x}
    BY <1>4 DEF SyncHold, SendBack
  <2>2. gh' \in [PRs -> PRShape] /\ kept' \in [PRs -> SUBSET Burnish]
    BY <1>1, <1>2, <2>1, Setting DEF Sets, OnlyLabels
  <2>3. faults' \in 0 .. MaxFaults /\ todo' \subseteq todo
    BY <1>1, <2>1, SettingCounts
  <2> QED
    BY <1>4, <2>2, <2>3 DEF SyncHold, SendBack, Typed, TypeOK, disk
<1>5. CASE SyncFails \/ SendBackRaises
  <2>1. /\ gh' \in [PRs -> PRShape] /\ kept' \in [PRs -> SUBSET Burnish]
        /\ faults' \in 0 .. MaxFaults
    <3>1. PICK x \in todo : RequestFails(x[1], x[2])
      BY <1>5 DEF SyncFails, SendBackRaises
    <3> QED
      BY <1>1, <1>2, <3>1, Requesting, RequestCounts DEF Sets, Strips, OnlyLabels
  <2>2. CASE SyncFails
    BY <2>1, <2>2 DEF SyncFails, Typed, TypeOK, disk
  <2>3. CASE SendBackRaises
    BY <2>1, <2>3, EndType DEF SendBackRaises, Typed, TypeOK, disk
  <2> QED
    BY <1>5, <2>2, <2>3
<1>6. CASE NothingDue \/ NobodyWins \/ FinishRound
  BY <1>6, EndType DEF NothingDue, NobodyWins, FinishRound, Typed, TypeOK, github, disk, world
<1>7. CASE Crash
  <2>1. faults' \in 0 .. MaxFaults
    BY <1>1, <1>7, FaultCounts DEF Crash
  <2> QED
    BY <1>7, <2>1, EndType DEF Crash, Typed, TypeOK, github, disk
<1>8. CASE FreezeQueue
  BY <1>1, <1>8, FrozenType DEF FreezeQueue, Typed, TypeOK, github, disk, world
<1> QED
  BY <1>3, <1>4, <1>5, <1>6, <1>7, <1>8

\* A snapshot becomes a job, and perhaps a receipt.
LEMMA TakeType ==
    ASSUME Typed, NEW kind \in Kinds, NEW gain \in Gain, Take(kind, gain)
    PROVE  Typed'
<1>1. PICK s \in queue :
        /\ receipts' \in {receipts, [receipts EXCEPT ![s.pr] =
                                        [head |-> s.head, base |-> base, gain |-> gain]]}
        /\ \E answer \in {kind, "score error"}, paid \in {gain, 0} :
              /\ job' = [pr |-> s.pr, head |-> s.head, body |-> s.body, kind |-> answer,
                         gain |-> paid]
              /\ kind # "raised" => answer # "raised"
        /\ queue' = queue \ {s}
        /\ tries' = [tries EXCEPT ![s.pr] =
                        IF StillAsFrozen(s) /\ tries[s.pr] <= MaxAttempts
                        THEN tries[s.pr] + 1 ELSE tries[s.pr]]
  BY DEF Take
<1>2. s \in SnapshotShape
  BY DEF Typed, TypeOK
<1>3. receipts' \in [PRs -> ReceiptShape \cup {None}]
  <2>1. /\ receipts \in [PRs -> ReceiptShape \cup {None}]
        /\ [head |-> s.head, base |-> base, gain |-> gain] \in ReceiptShape
    BY <1>2 DEF Typed, TypeOK, SnapshotShape, ReceiptShape
  <2> QED
    BY <1>1, <2>1
<1>4. job' \in JobShape /\ job' # None /\ (kind # "raised" => job'.kind # "raised")
  <2>1. PICK answer \in {kind, "score error"}, paid \in {gain, 0} :
            /\ job' = [pr |-> s.pr, head |-> s.head, body |-> s.body, kind |-> answer,
                       gain |-> paid]
            /\ kind # "raised" => answer # "raised"
    BY <1>1
  <2>2. s.pr \in PRs /\ s.head \in Heads /\ s.body \in Bodies /\ paid \in Gain
    BY <1>2 DEF SnapshotShape, Gain
  <2>3. job' \in JobShape /\ (kind # "raised" => job'.kind # "raised")
    BY <2>1, <2>2 DEF JobShape
  <2> QED
    BY <2>3, NoneAssumption
<1>5. tries' \in [PRs -> 0 .. MaxAttempts + 1]
  <2>1. tries \in [PRs -> 0 .. MaxAttempts + 1] /\ s.pr \in PRs
    BY <1>2 DEF Typed, TypeOK, SnapshotShape
  <2>2. tries[s.pr] <= MaxAttempts => tries[s.pr] + 1 \in 0 .. MaxAttempts + 1
    BY <2>1, RoundAssumption
  <2> QED
    BY <1>1, <2>1, <2>2
<1>6. /\ UNCHANGED <<gh, main, record, base, todo, results, disputed, kept, faults, disputes>>
      /\ pc' = IF kind = "raised" THEN "record" ELSE "label"
      /\ queue' \subseteq queue
  BY <1>1 DEF Take, github, world
<1> QED
  BY <1>3, <1>4, <1>5, <1>6 DEF Typed, TypeOK

\* Label, comment and record.
LEMMA JobType ==
    ASSUME Typed, Label \/ LabelRaises \/ Comment \/ CloseFails \/ CommentRaises
    PROVE  Typed'
<1>1. /\ job \in JobShape /\ job # None /\ gh \in [PRs -> PRShape] /\ job.pr \in PRs
      /\ faults \in 0 .. MaxFaults /\ kept \in [PRs -> SUBSET Burnish]
  BY DEF Typed, TypeOK, Label, LabelRaises, Comment, CloseFails, CommentRaises, JobShape
<1>2. pc = "label" => LabelOf(job.kind, job.gain) \in Burnish
  BY <1>1, LabelOfType DEF Typed, JobShape
<1>3. [job EXCEPT !.kind = "raised"] \in JobShape /\ [job EXCEPT !.kind = "raised"] # None
  <2>1. [job EXCEPT !.kind = "raised"] \in JobShape
    BY <1>1 DEF JobShape
  <2> QED
    BY <2>1, NoneAssumption
<1>4. gh' \in [PRs -> PRShape] /\ kept' \in [PRs -> SUBSET Burnish]
  <2>1. CASE Label \/ LabelRaises
    BY <1>1, <1>2, <2>1, Setting, Failing DEF Label, LabelRaises, Sets, Strips, OnlyLabels
  <2>2. CASE Comment
    BY <1>1, <2>2 DEF Comment, PRShape, world
  <2>3. CASE CloseFails \/ CommentRaises
    BY <1>1, <2>3 DEF CloseFails, CommentRaises, github
  <2> QED
    BY <2>1, <2>2, <2>3
<1>5. faults' \in 0 .. MaxFaults
  BY <1>1, FaultCounts, SettingCounts
     DEF Label, LabelRaises, Comment, CloseFails, CommentRaises, LabelFails, world
<1>6. /\ UNCHANGED <<main, record, receipts, base, todo, queue, results, disputed, disputes,
                     tries>>
      /\ job' \in {job, [job EXCEPT !.kind = "raised"]} /\ pc' \in {"comment", "record"}
  BY DEF Label, LabelRaises, Comment, CloseFails, CommentRaises, github, disk, world
<1> QED
  BY <1>1, <1>3, <1>4, <1>5, <1>6 DEF Typed, TypeOK

LEMMA RecordType ==
    ASSUME Typed, Record
    PROVE  Typed'
<1>1. job \in JobShape /\ job # None /\ record \in [PRs -> RecordShape \cup {None}]
  BY DEF Typed, TypeOK, Record
<1>2. OutcomeOf(job.kind) \in Outcomes
  BY <1>1 DEF OutcomeOf, Outcomes, JobShape
<1>3. Attempts(job) \in Nat
  <2>1. job.pr \in PRs
    BY <1>1 DEF JobShape
  <2>2. record[job.pr] # None => record[job.pr] \in RecordShape
    BY <1>1, <2>1
  <2>3. record[job.pr] # None => record[job.pr].attempts \in Nat
    BY <2>2, RoundAssumption DEF RecordShape
  <2> QED
    BY <2>3 DEF Attempts
<1>4. (IF Attempts(job) > MaxAttempts THEN MaxAttempts + 1 ELSE Attempts(job))
        \in 0 .. MaxAttempts + 1
  BY <1>3, RoundAssumption
<1>5. record' \in [PRs -> RecordShape \cup {None}]
  <2> DEFINE new == [head |-> job.head, body |-> job.body, outcome |-> OutcomeOf(job.kind),
                     attempts |-> IF Attempts(job) > MaxAttempts THEN MaxAttempts + 1
                                                                 ELSE Attempts(job)]
  <2>1. new \in RecordShape
    BY <1>1, <1>2, <1>4 DEF RecordShape, JobShape
  <2>2. record' = [record EXCEPT ![job.pr] = new]
    BY DEF Record
  <2> QED
    BY <1>1, <2>1, <2>2
<1>6. results' \in Seq(ResultShape)
  <2> DEFINE new == [pr |-> job.pr, payout |-> Payout(job),
                     measured |-> job.kind \notin NotMeasuredKinds]
  <2>1. new \in ResultShape
    BY <1>1 DEF ResultShape, JobShape, Payout, Gain
  <2>2. results \in Seq(ResultShape) /\ results' = Append(results, new)
    BY DEF Record, Typed, TypeOK
  <2> QED
    BY <2>1, <2>2
<1> QED
  BY <1>5, <1>6 DEF Record, Typed, TypeOK, github, world

\* A merge closes the pull request and moves main; its commits and labels stay.
LEMMA MergeShape ==
    ASSUME gh \in [PRs -> PRShape], main \in Nat, NEW p \in PRs, MergePR(p)
    PROVE  /\ gh' \in [PRs -> PRShape] /\ main' = main + 1 /\ main' \in Nat
           /\ gh[p].open /\ ~gh'[p].open /\ gh'[p].merged
           /\ \A q \in PRs : gh'[q].labels = gh[q].labels /\ (q # p => gh'[q] = gh[q])
<1>1. gh' = [gh EXCEPT ![p] = [gh[p] EXCEPT !.open = FALSE, !.merged = TRUE]]
  BY DEF MergePR
<1>2. gh[p] \in PRShape /\ [gh[p] EXCEPT !.open = FALSE, !.merged = TRUE] \in PRShape
  BY DEF PRShape
<1> QED
  BY <1>1, <1>2 DEF MergePR, PRShape

LEMMA WinnerType ==
    ASSUME Typed, NEW w \in DOMAIN results, MergeWinner(w) \/ MergeFails(w) \/ LabelWinner(w)
    PROVE  Typed'
<1>1. /\ gh \in [PRs -> PRShape] /\ results[w].pr \in PRs /\ faults \in 0 .. MaxFaults
      /\ results \in Seq(ResultShape) /\ main \in Nat
  <2>1. results \in Seq(ResultShape)
    BY DEF Typed, TypeOK
  <2>2. results[w] \in ResultShape
    BY <2>1
  <2> QED
    BY <2>1, <2>2 DEF Typed, TypeOK, ResultShape
<1>2. gh' \in [PRs -> PRShape] /\ main' \in Nat
  <2>1. CASE MergeWinner(w)
    BY <1>1, <2>1, MergeShape DEF MergeWinner
  <2>2. CASE MergeFails(w)
    BY <1>1, <2>2 DEF MergeFails, github
  <2>3. CASE LabelWinner(w)
    <3>1. gh[results[w].pr].labels \cup {"merge-first"} \in SUBSET Labels
      BY <1>1 DEF PRShape, Labels, Burnish
    <3>2. /\ main' = main
          /\ \/ gh' = gh
             \/ gh' = [gh EXCEPT ![results[w].pr].labels = @ \cup {"merge-first"}]
      BY <2>3 DEF LabelWinner
    <3> QED
      BY <1>1, <3>1, <3>2 DEF PRShape
  <2> QED
    BY <2>1, <2>2, <2>3
<1>3. faults' \in 0 .. MaxFaults
  BY <1>1, FaultCounts DEF MergeWinner, MergeFails, LabelWinner
<1>4. todo' \subseteq PRs \X Burnish
  BY <1>1, LosersType DEF MergeWinner, MergeFails, LabelWinner, ToRebase
<1>5. /\ UNCHANGED <<record, receipts, base, queue, job, results, disputed, kept, disputes,
                     tries>>
      /\ pc = "take" /\ pc' = "rebase"
  BY DEF MergeWinner, MergeFails, LabelWinner, ToRebase, RoundOver, disk
<1> QED
  BY <1>2, <1>3, <1>4, <1>5 DEF Typed, TypeOK

LEMMA OthersType ==
    ASSUME Typed, Others
    PROVE  Typed'
<1>1. PICK p \in PRs : \/ Push(p) \/ Edit(p) \/ Close(p) \/ Challenge(p) \/ PersonMerges(p)
                      \/ \E c \in Clearances : Clear(p, c)
  BY DEF Others
<1>2. gh \in [PRs -> PRShape] /\ tries \in [PRs -> 0 .. MaxAttempts + 1] /\ main \in Nat
  BY DEF Typed, TypeOK
<1>3. CASE Push(p) \/ Edit(p) \/ Close(p) \/ PersonMerges(p)
  <2>1. gh' \in [PRs -> PRShape] /\ main' \in Nat
    <3> DEFINE pr == gh[p]
    <3>1. pr \in PRShape
      BY <1>2
    <3>2. CASE Push(p)
      <4>1. [pr EXCEPT !.head = pr.head + 1] \in PRShape
        BY <3>1, <3>2, RoundAssumption DEF Push, PRShape, Heads
      <4> QED
        BY <1>2, <3>2, <4>1 DEF Push
    <3>3. CASE Edit(p)
      <4>1. [pr EXCEPT !.body = pr.body + 1] \in PRShape
        BY <3>1, <3>3, RoundAssumption DEF Edit, PRShape, Bodies
      <4> QED
        BY <1>2, <3>3, <4>1 DEF Edit
    <3>4. CASE Close(p)
      <4>1. [pr EXCEPT !.open = FALSE] \in PRShape
        BY <3>1 DEF PRShape
      <4> QED
        BY <1>2, <3>4, <4>1 DEF Close
    <3>5. CASE PersonMerges(p)
      BY <1>2, <3>5, MergeShape DEF PersonMerges
    <3> QED
      BY <1>3, <3>2, <3>3, <3>4, <3>5
  <2>2. tries' \in [PRs -> 0 .. MaxAttempts + 1]
    BY <1>2, <1>3, RoundAssumption DEF Push, Edit, Close, PersonMerges, Changed
  <2>3. UNCHANGED <<disk, round, world>>
    BY <1>3 DEF Push, Edit, Close, PersonMerges
  <2> QED
    BY <2>1, <2>2, <2>3 DEF Typed, TypeOK, disk, round, world
<1>4. CASE Challenge(p)
  <2>1. disputes' \in 0 .. MaxDisputes /\ disputed' \subseteq PRs
    BY <1>4, RoundAssumption DEF Challenge, Typed, TypeOK
  <2> QED
    BY <1>4, <2>1 DEF Challenge, Typed, TypeOK, github, disk, round
<1>5. ASSUME NEW c \in Clearances, Clear(p, c)
      PROVE  Typed'
  <2>1. gh[p].labels \cup {c} \in SUBSET Labels
    BY <1>2 DEF PRShape, Labels
  <2>2. gh' \in [PRs -> PRShape]
    BY <1>2, <1>5, <2>1 DEF Clear, PRShape
  <2>3. tries' \in [PRs -> 0 .. MaxAttempts + 1]
    BY <1>2, <1>5, RoundAssumption DEF Clear, Changed
  <2> QED
    BY <1>5, <2>2, <2>3 DEF Clear, Typed, TypeOK, disk, round, world
<1> QED
  BY <1>1, <1>3, <1>4, <1>5

LEMMA TypedStep ==
    ASSUME Typed, [Next]_vars
    PROVE  Typed'
<1>1. CASE UNCHANGED vars
  BY <1>1 DEF Typed, TypeOK, vars, github, disk, round, world
<1>2. ASSUME NEW kind \in Kinds, NEW gain \in Gain, Take(kind, gain)
      PROVE  Typed'
  BY <1>2, TakeType
<1>3. ASSUME NEW w \in DOMAIN results, MergeWinner(w) \/ MergeFails(w) \/ LabelWinner(w)
      PROVE  Typed'
  BY <1>3, WinnerType
<1> QED
  BY <1>1, <1>2, <1>3, RoundType, JobType, RecordType, OthersType DEF Next, RoundStep, Gain

\* Every value of Round has its type: GitHub's, the disk's and the round's, after
\* any faults.
THEOREM TypeCorrect == Spec => []TypeOK
<1>1. Init => Typed
  BY TypedInit
<1>2. Typed /\ [Next]_vars => Typed'
  BY TypedStep
<1>3. Typed => TypeOK
  BY DEF Typed
<1> QED
  BY <1>1, <1>2, <1>3, PTL DEF Spec

-----------------------------------------------------------------------------
\* What a round remembers

Pays(p) == receipts[p] # None /\ receipts[p].gain > 0
Answering == {"take", "label", "comment", "record"}

\* No pull request is in two of the round's hands.
HandsApart ==
    /\ \A s, t \in queue : s.pr = t.pr => s = t
    /\ job # None => \A s \in queue : s.pr # job.pr
    /\ \A i \in DOMAIN results : /\ \A s \in queue : s.pr # results[i].pr
                                 /\ job # None => job.pr # results[i].pr
    /\ \A i, j \in DOMAIN results : results[i].pr = results[j].pr => i = j
    /\ pc \in {"idle", "sync"} => queue = {} /\ results = <<>>

\* What it is about to label or record is in the ledger, and already labelled
\* when it is about to be recorded.
JobIsFiled ==
    job # None =>
        /\ Scores(job.kind) => receipts[job.pr] # None /\ receipts[job.pr].gain = job.gain
        /\ pc \in {"comment", "record"} /\ Payout(job) > 0 => Paid(job.pr)

\* Until the losers are sent back every result that pays has its label.
ResultsArePaid ==
    \A i \in DOMAIN results : results[i].payout > 0 =>
        /\ receipts[results[i].pr] # None
        /\ receipts[results[i].pr].gain = results[i].payout
        /\ pc \in Answering => Paid(results[i].pr)

\* A hold is released to a paid label only by a receipt that pays.
TodoIsFiled ==
    /\ pc \notin {"sync", "rebase"} => todo = {}
    /\ \A x \in todo : x[2] # "merge-first" /\ (x[2] = "gap" => Pays(x[1]))

PaidFacts ==
    /\ HandsApart /\ JobIsFiled /\ ResultsArePaid /\ TodoIsFiled
    /\ PaidHasReceipt /\ MergeFirstIsPaid

PaidInv == Typed /\ PaidFacts

\* A paid label is the one that is set or was there before, and merge-first goes
\* unless its DELETE fails.
LEMMA LabelsMean ==
    ASSUME NEW p \in PRs, NEW new \in Burnish, new # "merge-first",
           Sets(p, new) \/ Strips(p, new)
    PROVE  /\ Paid(p)' => Paid(p) \/ new = "gap"
           /\ Sets(p, new) /\ new = "gap" => Paid(p)'
           /\ "merge-first" \in gh'[p].labels => "merge-first" \in kept'[p]
           /\ \A q \in PRs \ {p} : gh'[q] = gh[q] /\ kept'[q] = kept[q]
<1>1. {"gap", "merge-first"} \subseteq Burnish
  BY DEF Burnish
<1> QED
  BY <1>1 DEF Sets, Strips, OnlyLabels, NoneBeside, Paid

\* Where no DELETE fails the label that is set decides.
LEMMA LabelDecides ==
    ASSUME NEW p \in PRs, NEW new \in Burnish, Replaces(p, new)
    PROVE  /\ Paid(p)' <=> new = "gap"
           /\ \A q \in PRs \ {p} : gh'[q] = gh[q]
<1>1. "gap" \in Burnish
  BY DEF Burnish
<1> QED
  BY <1>1 DEF Replaces, Sets, OnlyLabels, Relabelled, Paid

\* So labels rest on receipts after a request as before it, if what it sets does.
LEMMA RequestKeeps ==
    ASSUME PaidHasReceipt, MergeFirstIsPaid, UNCHANGED receipts,
           NEW p \in PRs, NEW new \in Burnish, new # "merge-first", new = "gap" => Pays(p),
           UNCHANGED <<gh, kept>> \/ Sets(p, new) \/ Strips(p, new)
    PROVE  /\ PaidHasReceipt' /\ MergeFirstIsPaid'
           /\ \A q \in PRs \ {p} : Paid(q)' <=> Paid(q)
<1>1. CASE UNCHANGED <<gh, kept>>
  BY <1>1 DEF PaidHasReceipt, MergeFirstIsPaid, Paid
<1>2. CASE Sets(p, new) \/ Strips(p, new)
  <2>1. \A q \in PRs \ {p} : gh'[q] = gh[q] /\ kept'[q] = kept[q]
    BY <1>2, LabelsMean
  <2>2. /\ "merge-first" \in gh'[p].labels => "merge-first" \in kept'[p]
        /\ Paid(p)' => Paid(p) \/ new = "gap"
    BY <1>2, LabelsMean
  <2> QED
    BY <2>1, <2>2 DEF PaidHasReceipt, MergeFirstIsPaid, Paid, Pays
<1> QED
  BY <1>1, <1>2

LEMMA PaidInit == Init => PaidFacts
BY NoneAssumption
   DEF Init, PaidFacts, HandsApart, JobIsFiled, ResultsArePaid, TodoIsFiled, PaidHasReceipt,
       MergeFirstIsPaid, Paid

\* Once a round is over it remembers nothing.
LEMMA EndKeeps ==
    ASSUME EndRound
    PROVE  HandsApart' /\ JobIsFiled' /\ ResultsArePaid' /\ TodoIsFiled'
BY DEF EndRound, HandsApart, JobIsFiled, ResultsArePaid, TodoIsFiled

\* The labels of holds, releases and rebases.
LEMMA SyncKeeps ==
    ASSUME PaidInv, \/ SyncHold \/ SyncFails \/ SendBack \/ SendBackRaises
    PROVE  PaidFacts'
<1>1. /\ gh \in [PRs -> PRShape] /\ kept \in [PRs -> SUBSET Burnish]
      /\ receipts' = receipts /\ PaidHasReceipt /\ MergeFirstIsPaid
      /\ pc \in {"sync", "rebase"}
  BY DEF PaidInv, PaidFacts, Typed, TypeOK, SyncHold, SyncFails, SendBack, SendBackRaises, disk
<1>2. PICK x \in todo : SetLabel(x[1], x[2]) \/ RequestFails(x[1], x[2])
  BY DEF SyncHold, SyncFails, SendBack, SendBackRaises
<1>3. /\ x[1] \in PRs /\ x[2] \in Burnish /\ x[2] # "merge-first"
      /\ x[2] = "gap" => Pays(x[1])
  BY <1>2 DEF PaidInv, PaidFacts, Typed, TypeOK, TodoIsFiled
<1>4. PaidHasReceipt' /\ MergeFirstIsPaid'
  <2>1. UNCHANGED <<gh, kept>> \/ Sets(x[1], x[2]) \/ Strips(x[1], x[2])
    BY <1>1, <1>2, <1>3, Setting, Requesting
  <2> QED
    BY <1>1, <1>3, <2>1, RequestKeeps
<1>5. CASE SendBackRaises
  BY <1>4, <1>5, EndKeeps DEF SendBackRaises, PaidFacts
<1>6. CASE SyncHold \/ SyncFails \/ SendBack
  <2>1. /\ todo' \subseteq todo /\ pc' = pc /\ queue' = queue /\ job' = job
        /\ results' = results
    BY <1>6 DEF SyncHold, SyncFails, SendBack
  <2>2. job = None
    BY <1>1 DEF PaidInv, Typed, TypeOK
  <2>3. HandsApart' /\ JobIsFiled'
    BY <2>1, <2>2 DEF PaidInv, PaidFacts, HandsApart, JobIsFiled
  <2>4. ResultsArePaid'
    BY <1>1, <2>1 DEF PaidInv, PaidFacts, ResultsArePaid, Answering
  <2>5. TodoIsFiled'
    BY <1>1, <2>1 DEF PaidInv, PaidFacts, TodoIsFiled, Pays
  <2> QED
    BY <1>4, <2>3, <2>4, <2>5 DEF PaidFacts
<1> QED
  BY <1>5, <1>6

\* The steps of a round that leave the labels and the receipts alone.
LEMMA QuietKeeps ==
    ASSUME PaidInv,
           \/ StartRound \/ NothingDue \/ FreezeQueue \/ NobodyWins \/ FinishRound \/ Crash
    PROVE  PaidFacts'
<1>1. UNCHANGED <<gh, kept, receipts>> /\ PaidHasReceipt /\ MergeFirstIsPaid
  BY DEF PaidInv, PaidFacts, StartRound, NothingDue, FreezeQueue, NobodyWins, FinishRound,
         Crash, github, disk, world
<1>2. PaidHasReceipt' /\ MergeFirstIsPaid'
  BY <1>1 DEF PaidHasReceipt, MergeFirstIsPaid, Paid
<1>3. CASE NothingDue \/ NobodyWins \/ FinishRound \/ Crash
  BY <1>2, <1>3, EndKeeps DEF NothingDue, NobodyWins, FinishRound, Crash, PaidFacts
<1>4. CASE StartRound
  <2>1. /\ pc = "idle" /\ pc' = "sync" /\ todo' = HoldChanges
        /\ UNCHANGED <<queue, job, results>> /\ job = None
    BY <1>4 DEF StartRound, PaidInv, Typed, TypeOK
  <2>2. HandsApart' /\ JobIsFiled' /\ ResultsArePaid'
    BY <1>1, <2>1
       DEF PaidInv, PaidFacts, HandsApart, JobIsFiled, ResultsArePaid, Answering
  <2>3. ASSUME NEW y \in HoldChanges
        PROVE  y[2] # "merge-first" /\ (y[2] = "gap" => Pays(y[1]))
    BY DEF HoldChanges, ReceiptLabel, Pays
  <2>4. TodoIsFiled'
    BY <1>1, <2>1, <2>3 DEF TodoIsFiled, Pays
  <2> QED
    BY <1>2, <2>2, <2>4 DEF PaidFacts
<1>5. CASE FreezeQueue
  <2>1. /\ pc = "sync" /\ pc' = "take" /\ todo' = {} /\ queue' = Frozen
        /\ UNCHANGED <<job, results>> /\ job = None /\ results = <<>>
    BY <1>5 DEF FreezeQueue, PaidInv, PaidFacts, HandsApart, Typed, TypeOK
  <2>2. \A s, t \in Frozen : s.pr = t.pr => s = t
    BY DEF Frozen
  <2>3. HandsApart' /\ JobIsFiled' /\ ResultsArePaid' /\ TodoIsFiled'
    BY <2>1, <2>2 DEF HandsApart, JobIsFiled, ResultsArePaid, TodoIsFiled
  <2> QED
    BY <1>2, <2>3 DEF PaidFacts
<1> QED
  BY <1>3, <1>4, <1>5

\* A snapshot s is taken: what becomes the job, the receipts and the count.
Taken(s, kind, gain) ==
    /\ s \in SnapshotShape /\ job' \in JobShape /\ job' # None /\ Oldest(s)
    /\ MayAnswer(kind, s.cleared)
    /\ job'.pr = s.pr /\ job'.head = s.head /\ job'.body = s.body
    /\ queue' = queue \ {s}
    /\ \/ /\ Scores(kind) /\ receipts[s.pr] # None
          /\ job'.kind = "score error" /\ job'.gain = 0 /\ receipts' = receipts
       \/ /\ Scores(kind) /\ receipts[s.pr] = None
          /\ job'.kind = kind /\ job'.gain = gain
          /\ receipts'[s.pr] # None /\ receipts'[s.pr].gain = gain
          /\ receipts'[s.pr].base = base
       \/ /\ ~Scores(kind) /\ job'.kind = kind /\ job'.gain = 0
          /\ receipts' = receipts
    /\ tries' = [tries EXCEPT ![s.pr] =
                    IF StillAsFrozen(s) /\ tries[s.pr] <= MaxAttempts
                    THEN tries[s.pr] + 1 ELSE tries[s.pr]]
    /\ \A q \in PRs \ {s.pr} : receipts'[q] = receipts[q]

LEMMA TakeCases ==
    ASSUME Typed, NEW kind \in Kinds, NEW gain \in Gain, Take(kind, gain)
    PROVE  \E s \in queue : Taken(s, kind, gain)
<1>1. PICK s \in queue :
        LET refused == Scores(kind) /\ receipts[s.pr] # None
            answer == IF refused THEN "score error" ELSE kind
        IN  /\ Oldest(s) /\ MayAnswer(kind, s.cleared)
            /\ receipts' = IF Scores(answer)
                           THEN [receipts EXCEPT ![s.pr] = [head |-> s.head, base |-> base,
                                                            gain |-> gain]]
                           ELSE receipts
            /\ job' = [pr |-> s.pr, head |-> s.head, body |-> s.body, kind |-> answer,
                        gain |-> IF refused THEN 0 ELSE gain]
            /\ queue' = queue \ {s}
            /\ tries' = [tries EXCEPT ![s.pr] =
                            IF StillAsFrozen(s) /\ tries[s.pr] <= MaxAttempts
                            THEN tries[s.pr] + 1 ELSE tries[s.pr]]
  BY DEF Take
<1>2. s \in SnapshotShape /\ s.pr \in PRs /\ receipts \in [PRs -> ReceiptShape \cup {None}]
  BY DEF Typed, TypeOK, SnapshotShape
<1>3. Typed' /\ pc' \in {"label", "record"}
  BY TakeType DEF Take
<1>4. job' \in JobShape /\ job' # None
  BY <1>3 DEF Typed, TypeOK
<1>5. DEFINE new == [head |-> s.head, base |-> base, gain |-> gain]
<1>6. new # None
  <2>1. new \in ReceiptShape
    BY <1>2 DEF Typed, TypeOK, ReceiptShape, SnapshotShape
  <2> QED
    BY <2>1, NoneAssumption
<1>7. ~Scores("score error") /\ (~Scores(kind) => gain = 0)
  BY DEF Scores, Take
<1>8. CASE Scores(kind) /\ receipts[s.pr] # None
  BY <1>1, <1>2, <1>4, <1>7, <1>8 DEF Taken
<1>9. CASE Scores(kind) /\ receipts[s.pr] = None
  <2>1. receipts' = [receipts EXCEPT ![s.pr] = new]
    BY <1>1, <1>9
  <2>2. /\ receipts'[s.pr] = new /\ new.gain = gain /\ new.base = base
        /\ \A q \in PRs \ {s.pr} : receipts'[q] = receipts[q]
    BY <1>2, <2>1
  <2> QED
    BY <1>1, <1>2, <1>4, <1>6, <1>9, <2>2 DEF Taken
<1>10. CASE ~Scores(kind)
  BY <1>1, <1>2, <1>4, <1>7, <1>10 DEF Taken
<1> QED
  BY <1>8, <1>9, <1>10

\* A receipt is filed where there is none, so nobody's receipt changes.
LEMMA TakeKeeps ==
    ASSUME PaidInv, NEW kind \in Kinds, NEW gain \in Gain, Take(kind, gain)
    PROVE  PaidFacts'
<1>1. PICK s \in queue : Taken(s, kind, gain)
  BY TakeCases DEF PaidInv
<1>2. /\ UNCHANGED <<gh, kept, todo, results>> /\ pc = "take"
      /\ pc' = (IF kind = "raised" THEN "record" ELSE "label") /\ s.pr \in PRs
      /\ pc' = "record" => job'.kind = "raised"
      /\ job' # None /\ job'.pr = s.pr /\ queue' = queue \ {s}
  BY <1>1 DEF Taken, Take, github, world, SnapshotShape, Scores
<1>3. \A q \in PRs : receipts[q] # None => receipts'[q] = receipts[q]
  BY <1>1 DEF Taken
<1>4. results \in Seq(ResultShape) /\ \A i \in DOMAIN results : results[i].pr \in PRs
  <2>1. results \in Seq(ResultShape)
    BY DEF PaidInv, Typed, TypeOK
  <2>2. \A i \in DOMAIN results : results[i] \in ResultShape
    BY <2>1
  <2> QED
    BY <2>1, <2>2 DEF ResultShape
<1>5. HandsApart'
  BY <1>1, <1>2 DEF PaidInv, PaidFacts, HandsApart
<1>6. JobIsFiled'
  <2>1. Scores(job'.kind) => receipts'[s.pr] # None /\ receipts'[s.pr].gain = job'.gain
    BY <1>1 DEF Taken, Scores
  <2>2. pc' \in {"comment", "record"} => Payout(job)' = 0
    BY <1>2 DEF Payout
  <2> QED
    BY <1>2, <2>1, <2>2 DEF JobIsFiled
<1>7. ResultsArePaid'
  BY <1>2, <1>3, <1>4 DEF PaidInv, PaidFacts, ResultsArePaid, Answering, Paid
<1>8. TodoIsFiled'
  BY <1>2 DEF PaidInv, PaidFacts, TodoIsFiled
<1>9. PaidHasReceipt' /\ MergeFirstIsPaid'
  BY <1>2, <1>3 DEF PaidInv, PaidFacts, PaidHasReceipt, MergeFirstIsPaid, Paid
<1> QED
  BY <1>5, <1>6, <1>7, <1>8, <1>9 DEF PaidFacts

\* Only what pays is labelled so.
LEMMA PayoutLabel ==
    ASSUME NEW j, Payout(j) > 0
    PROVE  LabelOf(j.kind, j.gain) = "gap"
<1>1. j.kind = "scored" /\ j.gain > 0
  BY DEF Payout
<1> QED
  BY <1>1 DEF LabelOf

\* The label, the comment and what raises in between.
LEMMA JobKeeps ==
    ASSUME PaidInv, Label \/ LabelRaises \/ Comment \/ CloseFails \/ CommentRaises
    PROVE  PaidFacts'
<1>1. /\ gh \in [PRs -> PRShape] /\ kept \in [PRs -> SUBSET Burnish]
      /\ job # None /\ job \in JobShape /\ job.pr \in PRs
      /\ pc \in {"label", "comment"} /\ PaidHasReceipt /\ MergeFirstIsPaid
      /\ UNCHANGED <<receipts, todo, queue, results>>
  BY DEF PaidInv, PaidFacts, Typed, TypeOK, JobShape, Label, LabelRaises, Comment, CloseFails,
         CommentRaises, disk, github
<1> PICK p \in PRs : p = job.pr
  BY <1>1
<1>2. /\ \/ job' = job /\ (pc = "label" => pc' = "comment")
         \/ job' = [job EXCEPT !.kind = "raised"]
      /\ pc' \in {"comment", "record"}
      /\ job'.pr = p /\ job' # None
  <2>1. [job EXCEPT !.kind = "raised"] \in JobShape
    BY <1>1 DEF JobShape
  <2>2. [job EXCEPT !.kind = "raised"] # None
    BY <2>1, NoneAssumption
  <2> QED
    BY <1>1, <2>2 DEF Label, LabelRaises, Comment, CloseFails, CommentRaises, JobShape
<1>3. /\ PaidHasReceipt' /\ MergeFirstIsPaid'
      /\ \A q \in PRs \ {p} : Paid(q)' <=> Paid(q)
      /\ pc = "comment" => (Paid(p)' <=> Paid(p))
      /\ Label /\ LabelOf(job.kind, job.gain) = "gap" => Paid(p)'
  <2>1. CASE pc = "label"
    <3> DEFINE new == LabelOf(job.kind, job.gain)
    <3>1. job.kind # "raised" /\ job.kind \in Kinds \cup {"score error"}
      BY <1>1, <2>1 DEF PaidInv, Typed, JobShape
    <3>2. new \in Burnish /\ new # "merge-first"
      BY <3>1, LabelOfType, RoundAssumption DEF LabelOf, AllKinds, NotMeasuredKinds
    <3>3. new = "gap" => Pays(p)
      BY <1>1, <3>1, RoundAssumption
         DEF LabelOf, AllKinds, NotMeasuredKinds, PaidInv, PaidFacts, JobIsFiled, Scores, Pays
    <3>4. UNCHANGED <<gh, kept>> \/ Sets(p, new) \/ Strips(p, new)
      BY <1>1, <2>1, <3>2, Setting, Failing
         DEF Label, LabelRaises, Comment, CloseFails, CommentRaises
    <3>5. Label => Sets(p, new)
      BY <1>1, <3>2, Setting DEF Label
    <3>6. /\ PaidHasReceipt' /\ MergeFirstIsPaid'
          /\ \A q \in PRs \ {p} : Paid(q)' <=> Paid(q)
      BY <1>1, <3>2, <3>3, <3>4, RequestKeeps
    <3>7. Label /\ new = "gap" => Paid(p)'
      BY <1>1, <3>2, <3>5, LabelsMean
    <3> QED
      BY <2>1, <3>6, <3>7
  <2>2. CASE pc = "comment"
    <3>1. kept' = kept /\ \A q \in PRs : gh'[q].labels = gh[q].labels
      BY <1>1, <2>2
         DEF Label, LabelRaises, Comment, CloseFails, CommentRaises, github, world, PRShape
    <3> QED
      BY <1>1, <2>2, <3>1 DEF PaidHasReceipt, MergeFirstIsPaid, Paid, Label
  <2> QED
    BY <1>1, <2>1, <2>2
<1>4. HandsApart'
  BY <1>1, <1>2 DEF PaidInv, PaidFacts, HandsApart
<1>5. JobIsFiled'
  <2>1. CASE job' = [job EXCEPT !.kind = "raised"]
    <3>1. job'.kind = "raised"
      BY <1>1, <2>1 DEF JobShape
    <3>2. ~Scores(job'.kind) /\ ~(Payout(job)' > 0)
      BY <3>1 DEF Scores, Payout
    <3> QED
      BY <3>2 DEF JobIsFiled
  <2>2. CASE job' = job /\ pc = "comment"
    BY <1>1, <1>2, <1>3, <2>2 DEF PaidInv, PaidFacts, JobIsFiled
  <2>3. CASE job' = job /\ pc = "label" /\ pc' = "comment"
    <3>1. Label
      BY <1>1, <2>3 DEF Label, LabelRaises, Comment, CloseFails, CommentRaises
    <3>2. Payout(job) > 0 => LabelOf(job.kind, job.gain) = "gap"
      BY PayoutLabel
    <3> QED
      BY <1>1, <1>3, <2>3, <3>1, <3>2 DEF PaidInv, PaidFacts, JobIsFiled
  <2> QED
    BY <1>1, <1>2, <2>1, <2>2, <2>3
<1>6. ResultsArePaid'
  <2>1. \A i \in DOMAIN results : results[i].pr \in PRs /\ results[i].pr # p
    <3>1. results \in Seq(ResultShape)
      BY DEF PaidInv, Typed, TypeOK
    <3>2. \A i \in DOMAIN results : results[i] \in ResultShape
      BY <3>1
    <3> QED
      BY <1>1, <3>2 DEF PaidInv, PaidFacts, HandsApart, ResultShape
  <2> QED
    BY <1>1, <1>3, <2>1 DEF PaidInv, PaidFacts, ResultsArePaid, Answering
<1>7. TodoIsFiled'
  BY <1>1, <1>2 DEF PaidInv, PaidFacts, TodoIsFiled
<1> QED
  BY <1>3, <1>4, <1>5, <1>6, <1>7 DEF PaidFacts

\* An answer joins the results with its label already set.
LEMMA RecordKeeps ==
    ASSUME PaidInv, Record
    PROVE  PaidFacts'
<1>1. /\ job # None /\ job \in JobShape /\ pc = "record" /\ pc' = "take" /\ job' = None
      /\ results \in Seq(ResultShape)
      /\ UNCHANGED <<gh, kept, receipts, todo, queue>>
  BY DEF PaidInv, Typed, TypeOK, Record, github, world
<1> PICK new \in ResultShape : /\ new.pr = job.pr /\ new.payout = Payout(job)
                               /\ results' = Append(results, new)
  <2>1. Payout(job) \in Gain
    BY <1>1 DEF Payout, JobShape, Gain
  <2>2. [pr |-> job.pr, payout |-> Payout(job), measured |-> job.kind \notin NotMeasuredKinds]
          \in ResultShape
    BY <1>1, <2>1 DEF ResultShape, JobShape
  <2> QED
    BY <2>2 DEF Record
<1>2. /\ DOMAIN results' = DOMAIN results \cup {Len(results) + 1}
      /\ \A i \in DOMAIN results : results'[i] = results[i]
      /\ results'[Len(results) + 1] = new /\ Len(results) + 1 \notin DOMAIN results
  BY <1>1
<1>3. HandsApart'
  <2>1. \A i, j \in DOMAIN results' : results'[i].pr = results'[j].pr => i = j
    BY <1>1, <1>2 DEF PaidInv, PaidFacts, HandsApart
  <2> QED
    BY <1>1, <1>2, <2>1 DEF PaidInv, PaidFacts, HandsApart
<1>4. ResultsArePaid'
  <2>1. new.payout > 0 =>
            /\ receipts[new.pr] # None /\ receipts[new.pr].gain = new.payout
            /\ Paid(new.pr)
    BY <1>1 DEF PaidInv, PaidFacts, JobIsFiled, Payout, Scores, Paid
  <2>2. \A q \in PRs : Paid(q)' <=> Paid(q)
    BY <1>1 DEF Paid
  <2>3. \A i \in DOMAIN results : results[i].payout > 0 =>
            /\ receipts[results[i].pr] # None
            /\ receipts[results[i].pr].gain = results[i].payout /\ Paid(results[i].pr)
    BY <1>1 DEF PaidInv, PaidFacts, ResultsArePaid, Answering
  <2>4. ASSUME NEW i \in DOMAIN results', results'[i].payout > 0
        PROVE  /\ receipts'[results'[i].pr] # None
               /\ receipts'[results'[i].pr].gain = results'[i].payout
               /\ Paid(results'[i].pr)
    BY <1>1, <1>2, <2>1, <2>3, <2>4
  <2> QED
    BY <1>1, <2>4 DEF ResultsArePaid, Paid
<1>5. JobIsFiled' /\ TodoIsFiled' /\ PaidHasReceipt' /\ MergeFirstIsPaid'
  BY <1>1 DEF PaidInv, PaidFacts, JobIsFiled, TodoIsFiled, PaidHasReceipt, MergeFirstIsPaid,
              Paid
<1> QED
  BY <1>3, <1>4, <1>5 DEF PaidFacts

\* The winner is merged, or gets merge-first beside its paid label.
LEMMA WinnerKeeps ==
    ASSUME PaidInv, NEW w \in DOMAIN results, MergeWinner(w) \/ MergeFails(w) \/ LabelWinner(w)
    PROVE  PaidFacts'
<1>1. /\ gh \in [PRs -> PRShape] /\ main \in Nat /\ results \in Seq(ResultShape)
      /\ pc = "take" /\ pc' = "rebase" /\ Winner(w, results) /\ job = None
      /\ todo' = Losers(results, w)
      /\ UNCHANGED <<kept, receipts, queue, job, results>>
  BY DEF PaidInv, Typed, TypeOK, MergeWinner, MergeFails, LabelWinner, ToRebase, RoundOver,
         disk
<1> PICK p \in PRs : p = results[w].pr
  <2>1. results[w] \in ResultShape
    BY <1>1
  <2> QED
    BY <2>1 DEF ResultShape
<1>2. Paid(p)
  BY <1>1 DEF PaidInv, PaidFacts, ResultsArePaid, Answering, Winner, Paying
<1>3. /\ \A q \in PRs : Paid(q)' <=> Paid(q)
      /\ \A q \in PRs \ {p} : gh'[q].labels = gh[q].labels
  <2>1. CASE MergeWinner(w)
    BY <1>1, <2>1, MergeShape DEF MergeWinner, Paid
  <2>2. CASE MergeFails(w)
    BY <1>1, <2>2 DEF MergeFails, github, Paid
  <2>3. CASE LabelWinner(w)
    <3>1. \/ gh' = gh
          \/ gh' = [gh EXCEPT ![p].labels = @ \cup {"merge-first"}]
      BY <2>3 DEF LabelWinner
    <3> QED
      BY <1>1, <3>1 DEF Paid, PRShape
  <2> QED
    BY <2>1, <2>2, <2>3
<1>4. PaidHasReceipt' /\ MergeFirstIsPaid'
  BY <1>1, <1>2, <1>3 DEF PaidInv, PaidFacts, PaidHasReceipt, MergeFirstIsPaid, Paid
<1>5. HandsApart' /\ JobIsFiled'
  BY <1>1 DEF PaidInv, PaidFacts, HandsApart, JobIsFiled
<1>6. ResultsArePaid'
  BY <1>1 DEF PaidInv, PaidFacts, ResultsArePaid, Answering
<1>7. TodoIsFiled'
  BY <1>1 DEF TodoIsFiled, Losers
<1> QED
  BY <1>4, <1>5, <1>6, <1>7 DEF PaidFacts

\* Others add clearances, move heads, close and merge: no label of the bot.
LEMMA OthersMean ==
    ASSUME Typed, Others
    PROVE  /\ \A q \in PRs : gh'[q].labels \cap Burnish = gh[q].labels \cap Burnish
           /\ UNCHANGED <<record, receipts, pc, base, todo, queue, job, results, kept, faults>>
<1>1. PICK p \in PRs : \/ Push(p) \/ Edit(p) \/ Close(p) \/ Challenge(p) \/ PersonMerges(p)
                      \/ \E c \in Clearances : Clear(p, c)
  BY DEF Others
<1>2. gh \in [PRs -> PRShape] /\ main \in Nat
  BY DEF Typed, TypeOK
<1>3. UNCHANGED <<record, receipts, pc, base, todo, queue, job, results, kept, faults>>
  BY <1>1 DEF Push, Edit, Close, Challenge, PersonMerges, Clear, disk, round, world
<1>4. CASE Push(p) \/ Edit(p) \/ Close(p) \/ Challenge(p) \/ PersonMerges(p)
  <2>1. CASE Push(p) \/ Edit(p) \/ Close(p)
    BY <1>2, <1>3, <2>1 DEF Push, Edit, Close, PRShape
  <2>2. CASE Challenge(p)
    BY <1>3, <2>2 DEF Challenge, github
  <2>3. CASE PersonMerges(p)
    BY <1>2, <1>3, <2>3, MergeShape DEF PersonMerges
  <2> QED
    BY <1>4, <2>1, <2>2, <2>3
<1>5. ASSUME NEW c \in Clearances, Clear(p, c)
      PROVE  \A q \in PRs : gh'[q].labels \cap Burnish = gh[q].labels \cap Burnish
  <2>1. c \notin Burnish
    BY DEF Clearances, Burnish, NotMeasuredKinds
  <2>2. \A q \in PRs : gh'[q].labels = gh[q].labels \/ gh'[q].labels = gh[q].labels \cup {c}
    BY <1>2, <1>5 DEF Clear, PRShape
  <2> QED
    BY <2>1, <2>2
<1> QED
  BY <1>1, <1>3, <1>4, <1>5

LEMMA OthersKeeps ==
    ASSUME PaidInv, Others
    PROVE  PaidFacts'
<1>1. /\ \A q \in PRs : gh'[q].labels \cap Burnish = gh[q].labels \cap Burnish
      /\ UNCHANGED <<record, receipts, pc, base, todo, queue, job, results, kept, faults>>
  BY OthersMean DEF PaidInv
<1>2. {"gap", "merge-first"} \subseteq Burnish
  BY DEF Burnish
<1>3. \A q \in PRs : /\ Paid(q)' <=> Paid(q)
                     /\ "merge-first" \in gh'[q].labels <=> "merge-first" \in gh[q].labels
  BY <1>1, <1>2 DEF Paid
<1>4. PaidHasReceipt' /\ MergeFirstIsPaid'
  BY <1>1, <1>3 DEF PaidInv, PaidFacts, PaidHasReceipt, MergeFirstIsPaid
<1>5. HandsApart' /\ TodoIsFiled'
  BY <1>1 DEF PaidInv, PaidFacts, HandsApart, TodoIsFiled, Pays
<1>6. JobIsFiled'
  <2>1. CASE job = None
    BY <1>1, <2>1 DEF JobIsFiled
  <2>2. CASE job # None
    <3> PICK p \in PRs : p = job.pr
      BY <2>2 DEF PaidInv, Typed, TypeOK, JobShape
    <3>1. /\ Scores(job.kind) => receipts[p] # None /\ receipts[p].gain = job.gain
          /\ pc \in {"comment", "record"} /\ Payout(job) > 0 => Paid(p)
      BY <2>2 DEF PaidInv, PaidFacts, JobIsFiled
    <3>2. (Paid(p)' <=> Paid(p)) /\ Payout(job)' = Payout(job)
      BY <1>1, <1>3 DEF Payout
    <3>3. Paid(job.pr)' <=> Paid(p)'
      BY <1>1 DEF Paid
    <3> QED
      BY <1>1, <3>1, <3>2, <3>3 DEF JobIsFiled
  <2> QED
    BY <2>1, <2>2
<1>7. ResultsArePaid'
  <2>1. results \in Seq(ResultShape)
    BY DEF PaidInv, Typed, TypeOK
  <2>2. \A i \in DOMAIN results : results[i] \in ResultShape
    BY <2>1
  <2>3. \A i \in DOMAIN results : Paid(results[i].pr)' <=> Paid(results[i].pr)
    BY <1>1, <1>3, <2>2 DEF ResultShape, Paid
  <2> QED
    BY <1>1, <2>3 DEF PaidInv, PaidFacts, ResultsArePaid
<1> QED
  BY <1>4, <1>5, <1>6, <1>7 DEF PaidFacts

LEMMA PaidStep ==
    ASSUME PaidInv, [Next]_vars
    PROVE  PaidInv'
<1>1. Typed'
  BY TypedStep DEF PaidInv
<1>2. CASE UNCHANGED vars
  <2>1. UNCHANGED <<gh, kept, receipts, pc, todo, queue, job, results>>
    BY <1>2 DEF vars, github, disk, round, world
  <2>2. HandsApart' /\ TodoIsFiled'
    BY <2>1 DEF PaidInv, PaidFacts, HandsApart, TodoIsFiled, Pays
  <2>3. JobIsFiled'
    BY <2>1 DEF PaidInv, PaidFacts, JobIsFiled, Scores, Payout, Paid
  <2>4. ResultsArePaid'
    BY <2>1 DEF PaidInv, PaidFacts, ResultsArePaid, Paid
  <2>5. PaidHasReceipt'
    BY <2>1 DEF PaidInv, PaidFacts, PaidHasReceipt, Paid
  <2>6. MergeFirstIsPaid'
    BY <2>1 DEF PaidInv, PaidFacts, MergeFirstIsPaid, Paid
  <2> QED
    BY <1>1, <2>2, <2>3, <2>4, <2>5, <2>6 DEF PaidInv, PaidFacts
<1>3. ASSUME NEW kind \in Kinds, NEW gain \in Gain, Take(kind, gain)
      PROVE  PaidFacts'
  BY <1>3, TakeKeeps
<1>4. ASSUME NEW w \in DOMAIN results, MergeWinner(w) \/ MergeFails(w) \/ LabelWinner(w)
      PROVE  PaidFacts'
  BY <1>4, WinnerKeeps
<1> QED
  BY <1>1, <1>2, <1>3, <1>4, SyncKeeps, QuietKeeps, JobKeeps, RecordKeeps, OthersKeeps
     DEF Next, RoundStep, PaidInv, Gain

LEMMA PaidAlways == Spec => []PaidInv
<1>1. Init => PaidInv
  BY TypedInit, PaidInit DEF PaidInv
<1>2. PaidInv /\ [Next]_vars => PaidInv'
  BY PaidStep
<1> QED
  BY <1>1, <1>2, PTL DEF Spec

\* Whatever fails, whoever pushes, closes, clears, disputes or merges: a paid
\* label rests on a receipt that pays, since the receipt is filed before the
\* label and nothing rewrites it.
THEOREM ReceiptBehindLabel == Spec => []PaidHasReceipt
<1>1. PaidInv => PaidHasReceipt
  BY DEF PaidInv, PaidFacts
<1> QED
  BY <1>1, PaidAlways, PTL

\* merge-first is set only while the paid label is there, and whatever takes the
\* paid label away asks GitHub to take merge-first too: it stands alone only where
\* that DELETE, of which the code does not see the answer, has failed.
THEOREM MergeFirstBesidePaid == Spec => []MergeFirstIsPaid
<1>1. PaidInv => MergeFirstIsPaid
  BY DEF PaidInv, PaidFacts
<1> QED
  BY <1>1, PaidAlways, PTL

=============================================================================
