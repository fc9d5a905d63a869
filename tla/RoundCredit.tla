------------------------------ MODULE RoundCredit ------------------------------
(***************************************************************************)
(* What rounds do with credit, for any number of pull requests, slots and   *)
(* commits: a gain under copycat review is withheld, a round merges its     *)
(* best, one baseline is credited once, and answers are final.  Each has    *)
(* the hypotheses without which it fails, as the configurations named in    *)
(* the README show: no dispute, no faulty request, no closing, no answer    *)
(* that raises.  A DELETE of a label that fails unseen is a faulty request. *)
(***************************************************************************)
EXTENDS RoundProofs

-----------------------------------------------------------------------------
\* A gain under review

\* Nothing is held, so no release sets a label.
NothingHeld ==
    /\ disputed = {} /\ HeldLabelled = {}
    /\ \A x \in todo : x[2] = "needs-rebase"

\* A review stands from its receipt on: what was answered so is neither paid nor
\* merged, cleared or not, because its receipt refuses every later score.
ReviewStands ==
    \A p \in PRs : record[p] # None /\ record[p].outcome = "review" =>
        receipts[p] # None /\ ~Paid(p) /\ ~gh[p].merged

MergedHasReceipt == \A p \in PRs : gh[p].merged => receipts[p] # None

\* merge-first names a score, even where its DELETE has failed.
MergeFirstIsScored ==
    \A p \in PRs : "merge-first" \in gh[p].labels =>
        /\ receipts[p] # None
        /\ ~(record[p] # None /\ record[p].outcome = "review")
        /\ job # None => ~(job.pr = p /\ job.kind = "review")

\* A score is the first of its pull request.
JobIsFresh ==
    job # None =>
        /\ job.kind = "review" => ~Paid(job.pr) /\ ~gh[job.pr].merged
        /\ job.kind = "scored" =>
            ~(record[job.pr] # None /\ record[job.pr].outcome = "review")

WithheldFacts ==
    NothingHeld /\ ReviewStands /\ MergedHasReceipt /\ MergeFirstIsScored /\ JobIsFresh
WithheldInv == PaidInv /\ WithheldFacts

\* A request changes the labels of one pull request and adds at most the new one.
LEMMA LabelsGrow ==
    ASSUME gh \in [PRs -> PRShape], NEW p \in PRs, NEW new,
           UNCHANGED <<gh, kept>> \/ Sets(p, new) \/ Strips(p, new)
    PROVE  \A q \in PRs : /\ gh'[q].open = gh[q].open /\ gh'[q].merged = gh[q].merged
                          /\ gh'[q].head = gh[q].head /\ gh'[q].body = gh[q].body
                          /\ gh'[q].labels \subseteq gh[q].labels \cup {new}
                          /\ q # p => gh'[q] = gh[q]
BY DEF Sets, Strips, OnlyLabels

\* A hold, a release or a rebase: one label of one pull request.
LEMMA RequestSteps ==
    ASSUME PaidInv, SyncHold \/ SyncFails \/ SendBack \/ SendBackRaises
    PROVE  /\ UNCHANGED <<main, record, receipts, disputed, disputes, tries>>
           /\ todo' \subseteq todo /\ job = None /\ job' = None
           /\ pc \in {"sync", "rebase"}
           /\ \E x \in todo : /\ x[1] \in PRs /\ x[2] \in Burnish /\ x[2] # "merge-first"
                              /\ \/ UNCHANGED <<gh, kept>>
                                 \/ Sets(x[1], x[2]) \/ Strips(x[1], x[2])
<1>1. PICK x \in todo : SetLabel(x[1], x[2]) \/ RequestFails(x[1], x[2])
  BY DEF SyncHold, SyncFails, SendBack, SendBackRaises
<1>2. /\ gh \in [PRs -> PRShape] /\ kept \in [PRs -> SUBSET Burnish] /\ job = None
      /\ x[1] \in PRs /\ x[2] \in Burnish /\ x[2] # "merge-first"
  BY DEF PaidInv, PaidFacts, TodoIsFiled, Typed, TypeOK, SyncHold, SyncFails, SendBack,
         SendBackRaises
<1>3. UNCHANGED <<gh, kept>> \/ Sets(x[1], x[2]) \/ Strips(x[1], x[2])
  BY <1>1, <1>2, Setting, Requesting
<1> QED
  BY <1>2, <1>3
     DEF SyncHold, SyncFails, SendBack, SendBackRaises, EndRound, disk, world

LEMMA WithheldRequest ==
    ASSUME WithheldInv, SyncHold \/ SyncFails \/ SendBack \/ SendBackRaises
    PROVE  WithheldFacts'
<1>1. /\ UNCHANGED <<record, receipts, disputed>> /\ todo' \subseteq todo /\ job' = None
      /\ gh \in [PRs -> PRShape]
  BY RequestSteps DEF WithheldInv, PaidInv, Typed, TypeOK
<1>2. PICK x \in todo : /\ x[1] \in PRs /\ x[2] \in Burnish
                        /\ UNCHANGED <<gh, kept>> \/ Sets(x[1], x[2]) \/ Strips(x[1], x[2])
  BY RequestSteps DEF WithheldInv
<1>3. x[2] = "needs-rebase"
  BY DEF WithheldInv, WithheldFacts, NothingHeld
<1>4. \A q \in PRs : /\ gh'[q].merged = gh[q].merged
                     /\ gh'[q].labels \subseteq gh[q].labels \cup {"needs-rebase"}
  BY <1>1, <1>2, <1>3, LabelsGrow
<1>5. \A q \in PRs : Paid(q)' => Paid(q)
  BY <1>4 DEF Paid
<1>6. NothingHeld'
  BY <1>1, <1>4 DEF WithheldInv, WithheldFacts, NothingHeld, HeldLabelled
<1>7. MergeFirstIsScored'
  BY <1>1, <1>4 DEF WithheldInv, WithheldFacts, MergeFirstIsScored
<1> QED
  BY <1>1, <1>4, <1>5, <1>6, <1>7
     DEF WithheldInv, WithheldFacts, ReviewStands, MergedHasReceipt, JobIsFresh

LEMMA WithheldQuiet ==
    ASSUME WithheldInv,
           \/ StartRound \/ NothingDue \/ FreezeQueue \/ NobodyWins \/ FinishRound \/ Crash
    PROVE  WithheldFacts'
<1>1. /\ UNCHANGED <<gh, record, receipts, disputed>> /\ job' = None
      /\ todo' = {} \/ todo' = todo \/ todo' = HoldChanges
  BY DEF WithheldInv, PaidInv, Typed, TypeOK, StartRound, NothingDue, FreezeQueue, NobodyWins,
         FinishRound, Crash, EndRound, github, disk, world
<1>2. HoldChanges = {}
  BY DEF WithheldInv, WithheldFacts, NothingHeld, HoldChanges
<1> QED
  BY <1>1, <1>2
     DEF WithheldInv, WithheldFacts, NothingHeld, HeldLabelled, ReviewStands, MergedHasReceipt,
         MergeFirstIsScored, JobIsFresh, Paid

LEMMA WithheldTake ==
    ASSUME WithheldInv, NEW kind \in Kinds, NEW gain \in Gain, Take(kind, gain)
    PROVE  WithheldFacts'
<1>1. PICK s \in queue : Taken(s, kind, gain)
  BY TakeCases DEF WithheldInv, PaidInv
<1> PICK p \in PRs : p = s.pr
  BY <1>1 DEF Taken, SnapshotShape
<1>2. /\ UNCHANGED <<gh, record, todo, disputed>> /\ job' # None /\ job'.pr = p
      /\ \A q \in PRs : receipts[q] # None => receipts'[q] # None
  BY <1>1 DEF Take, Taken, github, world
<1>3. Scores(job'.kind) => receipts[p] = None
  BY <1>1 DEF Taken, Scores
<1>4. receipts[p] = None =>
        ~Paid(p) /\ ~gh[p].merged /\ ~(record[p] # None /\ record[p].outcome = "review")
  BY DEF WithheldInv, WithheldFacts, PaidInv, PaidFacts, PaidHasReceipt, MergedHasReceipt,
         ReviewStands
<1>5. JobIsFresh'
  BY <1>2, <1>3, <1>4 DEF JobIsFresh, Scores, Paid
<1>6. MergeFirstIsScored'
  BY <1>2, <1>3 DEF WithheldInv, WithheldFacts, MergeFirstIsScored, Scores
<1> QED
  BY <1>2, <1>5, <1>6
     DEF WithheldInv, WithheldFacts, NothingHeld, HeldLabelled, ReviewStands, MergedHasReceipt,
         Paid

LEMMA WithheldRecord ==
    ASSUME WithheldInv, Record
    PROVE  WithheldFacts'
<1>1. /\ UNCHANGED <<gh, receipts, todo, disputed>> /\ job # None /\ job' = None
      /\ record \in [PRs -> RecordShape \cup {None}]
  BY DEF WithheldInv, PaidInv, Typed, TypeOK, Record, github, world
<1> PICK p \in PRs : p = job.pr
  BY <1>1 DEF WithheldInv, PaidInv, Typed, TypeOK, JobShape
<1>2. /\ \A q \in PRs \ {p} : record'[q] = record[q]
      /\ record'[p].outcome = OutcomeOf(job.kind)
  BY <1>1 DEF Record
<1>3. OutcomeOf(job.kind) = "review" => receipts[p] # None /\ ~Paid(p) /\ ~gh[p].merged
  BY <1>1
     DEF OutcomeOf, WithheldInv, WithheldFacts, JobIsFresh, PaidInv, PaidFacts, JobIsFiled, Scores
<1>4. ReviewStands'
  BY <1>1, <1>2, <1>3 DEF WithheldInv, WithheldFacts, ReviewStands, Paid
<1>5. MergeFirstIsScored'
  <2>1. OutcomeOf(job.kind) = "review" => job.kind = "review"
    BY DEF OutcomeOf
  <2> QED
    BY <1>1, <1>2, <2>1 DEF WithheldInv, WithheldFacts, MergeFirstIsScored
<1> QED
  BY <1>1, <1>4, <1>5
     DEF WithheldInv, WithheldFacts, NothingHeld, HeldLabelled, MergedHasReceipt, JobIsFresh

\* The label and the comment of an answer, and what raises in between.
LEMMA JobSteps ==
    ASSUME PaidInv, Label \/ LabelRaises \/ Comment \/ CloseFails \/ CommentRaises
    PROVE  /\ job \in JobShape /\ job # None /\ job' # None /\ job'.pr = job.pr
           /\ job'.head = job.head /\ job'.body = job.body
           /\ pc \in {"label", "comment"} /\ pc' \in {"comment", "record"}
           /\ \/ job' = job /\ (pc = "label" => Label)
              \/ job'.kind = "raised" /\ (LabelRaises \/ CommentRaises)
           /\ UNCHANGED <<main, record, receipts, base, todo, queue, results, disputed, disputes,
                          tries>>
           /\ pc = "label" =>
                LET new == LabelOf(job.kind, job.gain)
                IN  /\ new \in Burnish /\ new # "merge-first"
                    /\ Label => Sets(job.pr, new)
                    /\ Label /\ ~Fault("delete") => Replaces(job.pr, new)
                    /\ UNCHANGED <<gh, kept>> \/ Sets(job.pr, new) \/ Strips(job.pr, new)
           /\ pc = "comment" =>
                \A q \in PRs : /\ gh'[q].labels = gh[q].labels
                               /\ gh'[q].head = gh[q].head /\ gh'[q].body = gh[q].body
                               /\ gh'[q].merged = gh[q].merged
                               /\ \/ gh'[q] = gh[q]
                                  \/ /\ q = job.pr /\ job.kind \in {"copycat", "blocked"}
                                     /\ ~gh'[q].open
<1>1. /\ gh \in [PRs -> PRShape] /\ kept \in [PRs -> SUBSET Burnish]
      /\ job # None /\ job \in JobShape /\ job.pr \in PRs
      /\ pc \in {"label", "comment"} /\ pc' \in {"comment", "record"}
      /\ UNCHANGED <<main, record, receipts, base, todo, queue, results, disputed, disputes,
                     tries>>
  BY DEF PaidInv, Typed, TypeOK, JobShape, Label, LabelRaises, Comment, CloseFails,
         CommentRaises, disk, github, world
<1>2. [job EXCEPT !.kind = "raised"] # None
  <2>1. [job EXCEPT !.kind = "raised"] \in JobShape
    BY <1>1 DEF JobShape
  <2> QED
    BY <2>1, NoneAssumption
<1>3. /\ \/ job' = job /\ (pc = "label" => Label)
         \/ job'.kind = "raised" /\ (LabelRaises \/ CommentRaises)
      /\ job' # None /\ job'.pr = job.pr /\ job'.head = job.head /\ job'.body = job.body
  BY <1>1, <1>2 DEF Label, LabelRaises, Comment, CloseFails, CommentRaises, JobShape
<1>4. CASE pc = "label"
  <2> DEFINE new == LabelOf(job.kind, job.gain)
  <2>1. job.kind # "raised" /\ job.kind \in Kinds \cup {"score error"}
    BY <1>1, <1>4 DEF PaidInv, Typed, JobShape
  <2>2. new \in Burnish /\ new # "merge-first"
    BY <2>1, LabelOfType, RoundAssumption DEF LabelOf, AllKinds, NotMeasuredKinds
  <2>3. UNCHANGED <<gh, kept>> \/ Sets(job.pr, new) \/ Strips(job.pr, new)
    BY <1>1, <1>4, <2>2, Setting, Failing
       DEF Label, LabelRaises, Comment, CloseFails, CommentRaises
  <2>4. Label => Sets(job.pr, new) /\ (~Fault("delete") => Replaces(job.pr, new))
    BY <1>1, <2>2, Setting DEF Label
  <2> QED
    BY <1>1, <1>3, <1>4, <2>2, <2>3, <2>4
<1>5. CASE pc = "comment"
  <2>1. CASE job.kind \in {"copycat", "blocked"} /\ gh' = [gh EXCEPT ![job.pr].open = FALSE]
    BY <1>1, <1>3, <1>5, <2>1 DEF PRShape
  <2>2. CASE gh' = gh
    BY <1>1, <1>3, <1>5, <2>2
  <2> QED
    BY <1>5, <2>1, <2>2
       DEF Label, LabelRaises, Comment, CloseFails, CommentRaises, github
<1> QED
  BY <1>1, <1>4, <1>5

LEMMA WithheldJob ==
    ASSUME WithheldInv, Label \/ LabelRaises \/ Comment \/ CloseFails \/ CommentRaises
    PROVE  WithheldFacts'
<1>1. /\ job # None /\ job' # None /\ job'.pr = job.pr /\ job.pr \in PRs
      /\ job'.kind \in {job.kind, "raised"}
      /\ UNCHANGED <<record, receipts, todo, disputed>> /\ gh \in [PRs -> PRShape]
  BY JobSteps DEF WithheldInv, PaidInv, Typed, TypeOK, JobShape
<1> PICK p \in PRs : p = job.pr
  BY <1>1
<1> DEFINE new == LabelOf(job.kind, job.gain)
<1>2. \A q \in PRs : /\ gh'[q].merged = gh[q].merged
                     /\ \/ gh'[q].labels \subseteq gh[q].labels
                        \/ /\ q = p /\ pc = "label"
                           /\ gh'[q].labels \subseteq gh[q].labels \cup {new}
  <2>1. CASE pc = "label"
    BY <1>1, <2>1, JobSteps, LabelsGrow DEF WithheldInv
  <2>2. CASE pc = "comment"
    BY <2>2, JobSteps DEF WithheldInv
  <2> QED
    BY <2>1, <2>2, JobSteps DEF WithheldInv
<1>3. pc = "label" => /\ new \notin {"held", "merge-first"}
                      /\ new = "gap" => job.kind = "scored"
  <2>1. pc = "label" => job.kind # "raised" /\ job.kind \in Kinds \cup {"score error"}
    BY <1>1 DEF WithheldInv, PaidInv, Typed, TypeOK, JobShape
  <2> QED
    BY <2>1, RoundAssumption DEF LabelOf, AllKinds, NotMeasuredKinds
<1>4. \A q \in PRs : Paid(q)' => Paid(q) \/ (q = p /\ job.kind = "scored")
  BY <1>2, <1>3 DEF Paid
<1>5. NothingHeld'
  BY <1>1, <1>2, <1>3 DEF WithheldInv, WithheldFacts, NothingHeld, HeldLabelled
<1>6. ReviewStands' /\ MergedHasReceipt'
  BY <1>1, <1>2, <1>4
     DEF WithheldInv, WithheldFacts, ReviewStands, MergedHasReceipt, JobIsFresh
<1>7. JobIsFresh'
  BY <1>1, <1>2, <1>4 DEF WithheldInv, WithheldFacts, JobIsFresh, Paid
<1>8. MergeFirstIsScored'
  <2>1. \A q \in PRs : "merge-first" \in gh'[q].labels => "merge-first" \in gh[q].labels
    BY <1>2, <1>3
  <2> QED
    BY <1>1, <2>1 DEF WithheldInv, WithheldFacts, MergeFirstIsScored
<1> QED
  BY <1>5, <1>6, <1>7, <1>8 DEF WithheldFacts

\* What is merged, or gets merge-first, is paid.
LEMMA WinnerSteps ==
    ASSUME PaidInv, NEW w \in DOMAIN results,
           MergeWinner(w) \/ MergeFails(w) \/ LabelWinner(w)
    PROVE  /\ results[w].pr \in PRs /\ Paid(results[w].pr) /\ receipts[results[w].pr] # None
           /\ receipts[results[w].pr].gain = results[w].payout
           /\ Winner(w, results) /\ job = None /\ job' = None
           /\ pc = "take" /\ pc' = "rebase"
           /\ todo' = Losers(results, w)
           /\ UNCHANGED <<record, receipts, base, queue, results, disputed, disputes, tries>>
           /\ \A q \in PRs : /\ gh'[q].head = gh[q].head /\ gh'[q].body = gh[q].body
                             /\ q # results[w].pr => gh'[q] = gh[q]
                             /\ gh'[q].labels \subseteq gh[q].labels \cup {"merge-first"}
                             /\ gh[q].labels \subseteq gh'[q].labels
           /\ gh'[results[w].pr].merged => gh[results[w].pr].merged \/ MergeWinner(w)
<1>1. /\ gh \in [PRs -> PRShape] /\ main \in Nat /\ results \in Seq(ResultShape)
      /\ pc = "take" /\ Winner(w, results) /\ job = None
  BY DEF PaidInv, Typed, TypeOK, MergeWinner, MergeFails, LabelWinner, RoundOver
<1> PICK p \in PRs : p = results[w].pr
  <2>1. results[w] \in ResultShape
    BY <1>1
  <2> QED
    BY <2>1 DEF ResultShape
<1>2. Paid(p) /\ receipts[p] # None /\ receipts[p].gain = results[w].payout
  BY <1>1 DEF PaidInv, PaidFacts, ResultsArePaid, Answering, Winner, Paying
<1>3. /\ pc' = "rebase" /\ todo' = Losers(results, w) /\ job' = None
      /\ UNCHANGED <<record, receipts, base, queue, results, disputed, disputes, tries>>
  BY <1>1 DEF MergeWinner, MergeFails, LabelWinner, ToRebase, disk
<1>4. /\ \A q \in PRs : /\ gh'[q].head = gh[q].head /\ gh'[q].body = gh[q].body
                        /\ q # p => gh'[q] = gh[q]
                        /\ gh'[q].labels \subseteq gh[q].labels \cup {"merge-first"}
                        /\ gh[q].labels \subseteq gh'[q].labels
      /\ gh'[p].merged => gh[p].merged \/ MergeWinner(w)
  <2>1. CASE MergeWinner(w)
    <3>1. gh' = [gh EXCEPT ![p].open = FALSE, ![p].merged = TRUE]
      BY <2>1 DEF MergeWinner, MergePR
    <3> QED
      BY <1>1, <2>1, <3>1 DEF PRShape
  <2>2. CASE MergeFails(w)
    BY <1>1, <2>2 DEF MergeFails, github
  <2>3. CASE LabelWinner(w)
    <3>1. \/ gh' = gh
          \/ gh' = [gh EXCEPT ![p].labels = @ \cup {"merge-first"}]
      BY <2>3 DEF LabelWinner
    <3> QED
      BY <1>1, <3>1 DEF PRShape
  <2> QED
    BY <2>1, <2>2, <2>3
<1> QED
  BY <1>1, <1>2, <1>3, <1>4

LEMMA WithheldWinner ==
    ASSUME WithheldInv, NEW w \in DOMAIN results,
           MergeWinner(w) \/ MergeFails(w) \/ LabelWinner(w)
    PROVE  WithheldFacts'
<1> PICK p \in PRs : p = results[w].pr
  BY WinnerSteps DEF WithheldInv
<1>1. /\ Paid(p) /\ receipts[p] # None /\ job' = None /\ todo' = Losers(results, w)
      /\ UNCHANGED <<record, receipts, disputed>>
      /\ \A q \in PRs : /\ q # p => gh'[q] = gh[q]
                        /\ gh'[q].labels \subseteq gh[q].labels \cup {"merge-first"}
  BY WinnerSteps DEF WithheldInv
<1>2. ~(record[p] # None /\ record[p].outcome = "review")
  BY <1>1 DEF WithheldInv, WithheldFacts, ReviewStands
<1>3. NothingHeld'
  BY <1>1 DEF WithheldInv, WithheldFacts, NothingHeld, HeldLabelled, Losers
<1>4. ReviewStands' /\ MergedHasReceipt' /\ JobIsFresh'
  BY <1>1, <1>2
     DEF WithheldInv, WithheldFacts, ReviewStands, MergedHasReceipt, JobIsFresh, Paid
<1>5. MergeFirstIsScored'
  BY <1>1, <1>2 DEF WithheldInv, WithheldFacts, MergeFirstIsScored
<1> QED
  BY <1>3, <1>4, <1>5 DEF WithheldFacts

\* What everybody else may do to a pull request p: change it, which starts its
\* count anew, or open, close, dispute or merge it.
OtherOf(p) ==
    /\ UNCHANGED <<record, receipts, pc, base, todo, queue, job, results, faults>>
    /\ \A q \in PRs \ {p} : gh'[q] = gh[q] /\ tries'[q] = tries[q]
    /\ gh'[p].labels \cap Burnish = gh[p].labels \cap Burnish
    /\ \/ tries'[p] = 0
       \/ /\ gh'[p].head = gh[p].head /\ gh'[p].body = gh[p].body
          /\ gh'[p].labels = gh[p].labels /\ tries'[p] = tries[p]
    /\ disputed' = disputed \/ "dispute" \in World
    /\ \/ main' = main /\ gh'[p].merged = gh[p].merged
       \/ ~AutoMerge /\ "merge-first" \in gh[p].labels
    /\ gh[p].merged => gh'[p].merged
    /\ (gh[p].merged => ~gh[p].open) => (gh'[p].merged => ~gh'[p].open)
    /\ gh[p].open => gh'[p].open \/ "close" \in World \/ ~AutoMerge

LEMMA OthersSteps ==
    ASSUME Typed, Others
    PROVE  \E p \in PRs : OtherOf(p)
<1>1. PICK p \in PRs : \/ Push(p) \/ Edit(p) \/ Close(p) \/ Challenge(p) \/ PersonMerges(p)
                      \/ \E c \in Clearances : Clear(p, c)
  BY DEF Others
<1>2. gh \in [PRs -> PRShape] /\ main \in Nat /\ tries \in [PRs -> 0 .. MaxAttempts + 1]
  BY DEF Typed, TypeOK
<1>3. /\ UNCHANGED <<record, receipts, pc, base, todo, queue, job, results, faults>>
      /\ gh'[p].labels \cap Burnish = gh[p].labels \cap Burnish
  BY OthersMean
<1>4. CASE Push(p) \/ Edit(p)
  <2>1. /\ tries' = [tries EXCEPT ![p] = 0] /\ disputed' = disputed /\ main' = main
        /\ \/ gh' = [gh EXCEPT ![p].head = @ + 1]
           \/ gh' = [gh EXCEPT ![p].body = @ + 1]
    BY <1>4 DEF Push, Edit, Changed, world
  <2>2. gh'[p].open = gh[p].open /\ gh'[p].merged = gh[p].merged
    BY <1>2, <2>1 DEF PRShape
  <2>3. \A q \in PRs \ {p} : gh'[q] = gh[q] /\ tries'[q] = tries[q]
    BY <1>2, <2>1
  <2>4. tries'[p] = 0
    BY <1>2, <2>1
  <2> QED
    BY <1>2, <1>3, <2>1, <2>2, <2>3, <2>4 DEF OtherOf
<1>5. CASE Close(p)
  <2>1. /\ tries' = tries /\ disputed' = disputed /\ main' = main /\ "close" \in World
        /\ gh' = [gh EXCEPT ![p].open = FALSE]
    BY <1>5 DEF Close, world
  <2> QED
    BY <1>2, <1>3, <2>1 DEF OtherOf, PRShape
<1>6. CASE Challenge(p)
  <2>1. tries' = tries /\ gh' = gh /\ main' = main /\ "dispute" \in World
    BY <1>6 DEF Challenge, github
  <2> QED
    BY <1>3, <2>1 DEF OtherOf
<1>7. CASE PersonMerges(p)
  <2>1. /\ tries' = tries /\ disputed' = disputed /\ ~AutoMerge /\ "merge-first" \in gh[p].labels
        /\ gh' = [gh EXCEPT ![p].open = FALSE, ![p].merged = TRUE]
    BY <1>7 DEF PersonMerges, MergePR, world
  <2>2. /\ gh'[p].merged = TRUE /\ gh'[p].open = FALSE /\ gh'[p].head = gh[p].head
        /\ gh'[p].body = gh[p].body /\ gh'[p].labels = gh[p].labels
    BY <1>2, <2>1 DEF PRShape
  <2>3. \A q \in PRs \ {p} : gh'[q] = gh[q]
    BY <1>2, <2>1
  <2> QED
    BY <1>3, <2>1, <2>2, <2>3 DEF OtherOf
<1>8. ASSUME NEW c \in Clearances, Clear(p, c)
      PROVE  OtherOf(p)
  <2>1. /\ tries' = [tries EXCEPT ![p] = 0] /\ disputed' = disputed /\ main' = main
        /\ ~gh[p].merged
        /\ gh' = [gh EXCEPT ![p].labels = @ \cup {c}, ![p].open = TRUE]
    BY <1>8 DEF Clear, Changed, world
  <2> QED
    BY <1>2, <1>3, <2>1 DEF OtherOf, PRShape
<1> QED
  BY <1>1, <1>4, <1>5, <1>6, <1>7, <1>8

LEMMA WithheldOthers ==
    ASSUME WithheldInv, Others, "dispute" \notin World
    PROVE  WithheldFacts'
<1>1. PICK p \in PRs : OtherOf(p)
  BY OthersSteps DEF WithheldInv, PaidInv
<1>2. /\ UNCHANGED <<record, receipts, todo, job, disputed>>
      /\ \A q \in PRs : gh'[q].labels \cap Burnish = gh[q].labels \cap Burnish
      /\ \A q \in PRs : gh'[q].merged = gh[q].merged \/ "merge-first" \in gh[q].labels
  BY <1>1 DEF OtherOf
<1>3. {"gap", "held", "merge-first"} \subseteq Burnish
  BY DEF Burnish
<1>4. \A q \in PRs : /\ Paid(q)' <=> Paid(q)
                     /\ "held" \in gh'[q].labels <=> "held" \in gh[q].labels
                     /\ "merge-first" \in gh'[q].labels <=> "merge-first" \in gh[q].labels
                     /\ \/ gh'[q].merged = gh[q].merged
                        \/ /\ receipts[q] # None
                           /\ ~(record[q] # None /\ record[q].outcome = "review")
                           /\ job # None => ~(job.pr = q /\ job.kind = "review")
  BY <1>2, <1>3 DEF Paid, WithheldInv, WithheldFacts, MergeFirstIsScored
<1>5. NothingHeld'
  BY <1>2, <1>4 DEF WithheldInv, WithheldFacts, NothingHeld, HeldLabelled
<1>6. ReviewStands' /\ MergedHasReceipt' /\ MergeFirstIsScored'
  BY <1>2, <1>4
     DEF WithheldInv, WithheldFacts, ReviewStands, MergedHasReceipt, MergeFirstIsScored
<1>7. JobIsFresh'
  <2>1. CASE job = None
    BY <1>2, <2>1 DEF JobIsFresh
  <2>2. CASE job # None
    <3> PICK q \in PRs : q = job.pr
      BY <2>2 DEF WithheldInv, PaidInv, Typed, TypeOK, JobShape
    <3> QED
      BY <1>2, <1>4, <2>2 DEF WithheldInv, WithheldFacts, JobIsFresh, Paid
  <2> QED
    BY <2>1, <2>2
<1> QED
  BY <1>5, <1>6, <1>7 DEF WithheldFacts

LEMMA WithheldStep ==
    ASSUME WithheldInv, [Next]_vars, "dispute" \notin World
    PROVE  WithheldInv'
<1>1. PaidInv'
  BY PaidStep DEF WithheldInv
<1>2. CASE UNCHANGED vars
  <2>1. UNCHANGED <<gh, record, receipts, disputed, todo, job>>
    BY <1>2 DEF vars, github, disk, round, world
  <2>2. NothingHeld' /\ ReviewStands' /\ MergedHasReceipt' /\ MergeFirstIsScored'
    BY <2>1
       DEF WithheldInv, WithheldFacts, NothingHeld, HeldLabelled, ReviewStands, MergedHasReceipt,
           MergeFirstIsScored, Paid
  <2>3. JobIsFresh'
    BY <2>1 DEF WithheldInv, WithheldFacts, JobIsFresh, Paid
  <2> QED
    BY <1>1, <2>2, <2>3 DEF WithheldInv, WithheldFacts
<1>3. ASSUME NEW kind \in Kinds, NEW gain \in Gain, Take(kind, gain)
      PROVE  WithheldFacts'
  BY <1>3, WithheldTake
<1>4. ASSUME NEW w \in DOMAIN results, MergeWinner(w) \/ MergeFails(w) \/ LabelWinner(w)
      PROVE  WithheldFacts'
  BY <1>4, WithheldWinner
<1> QED
  BY <1>1, <1>2, <1>3, <1>4, WithheldRequest, WithheldQuiet, WithheldJob, WithheldRecord,
     WithheldOthers
     DEF Next, RoundStep, WithheldInv, Gain

\* Where no receipt is disputed a gain under copycat review is neither paid nor
\* merged, whatever fails and whoever merges: the review's own receipt has every
\* later score refused.  A released dispute pays it (MCRound_release).
THEOREM WithheldUnderReview ==
    ASSUME "dispute" \notin World
    PROVE  Spec => []ReviewIsWithheld
<1>1. Init => WithheldInv
  <2>1. Init => /\ NothingHeld /\ ReviewStands /\ MergedHasReceipt /\ MergeFirstIsScored
                /\ JobIsFresh
    BY DEF Init, NothingHeld, HeldLabelled, ReviewStands, MergedHasReceipt, MergeFirstIsScored,
           JobIsFresh
  <2> QED
    BY <2>1, TypedInit, PaidInit DEF WithheldInv, WithheldFacts, PaidInv
<1>2. WithheldInv /\ [Next]_vars => WithheldInv'
  BY WithheldStep
<1>3. WithheldInv => ReviewIsWithheld
  BY DEF WithheldInv, WithheldFacts, ReviewStands, ReviewIsWithheld
<1> QED
  BY <1>1, <1>2, <1>3, PTL DEF Spec

-----------------------------------------------------------------------------
\* What a round merges

LEMMA ResultFacts ==
    ASSUME Typed
    PROVE  /\ results \in Seq(ResultShape)
           /\ \A i \in DOMAIN results : /\ results[i] \in ResultShape
                                        /\ results[i].pr \in PRs /\ results[i].payout \in Nat
<1>1. results \in Seq(ResultShape)
  BY DEF Typed, TypeOK
<1>2. \A i \in DOMAIN results : results[i] \in ResultShape
  BY <1>1
<1>3. Gain \subseteq Nat
  BY RoundAssumption DEF Gain
<1> QED
  BY <1>1, <1>2, <1>3 DEF ResultShape

\* Nobody is merged but the winner of a round, or by hand what merge-first names.
LEMMA Merging ==
    ASSUME PaidInv, [Next]_vars, NEW p \in PRs, ~gh[p].merged, gh'[p].merged
    PROVE  \/ ~AutoMerge /\ "merge-first" \in gh[p].labels
           \/ \E w \in DOMAIN results : MergeWinner(w) /\ p = results[w].pr
<1>1. gh \in [PRs -> PRShape]
  BY DEF PaidInv, Typed, TypeOK
<1>2. gh' # gh
  OBVIOUS
<1>3. ~(SyncHold \/ SyncFails \/ SendBack \/ SendBackRaises)
  BY <1>1, RequestSteps, LabelsGrow
<1>4. ~(Label \/ LabelRaises \/ Comment \/ CloseFails \/ CommentRaises)
  <2> SUFFICES ASSUME Label \/ LabelRaises \/ Comment \/ CloseFails \/ CommentRaises
               PROVE  gh'[p].merged = gh[p].merged
    OBVIOUS
  <2>1. job.pr \in PRs
    BY JobSteps DEF JobShape
  <2>2. CASE pc = "label"
    BY <1>1, <2>1, <2>2, JobSteps, LabelsGrow
  <2> QED
    BY <2>2, JobSteps
<1>5. CASE Others
  BY <1>5, OthersSteps DEF PaidInv, OtherOf
<1>6. ASSUME NEW w \in DOMAIN results, MergeWinner(w) \/ MergeFails(w) \/ LabelWinner(w)
      PROVE  MergeWinner(w) /\ p = results[w].pr
  BY <1>6, WinnerSteps
<1>7. gh' # gh => ~(\/ StartRound \/ NothingDue \/ FreezeQueue \/ NobodyWins \/ FinishRound
                    \/ Crash \/ Record \/ UNCHANGED vars
                    \/ \E kind \in Kinds, gain \in Gains \cup {0} : Take(kind, gain))
  BY DEF StartRound, NothingDue, FreezeQueue, NobodyWins, FinishRound, Crash, Record, Take,
         vars, github
<1> QED
  BY <1>2, <1>3, <1>4, <1>5, <1>6, <1>7 DEF Next, RoundStep

LEMMA MergedPays ==
    ASSUME PaidInv, [Next]_vars, NEW p \in PRs, ~gh[p].merged, gh'[p].merged
    PROVE  /\ Paid(p) \/ (~AutoMerge /\ "merge-first" \in kept[p])
           /\ AutoMerge => \A i \in DOMAIN results : results[i].payout <= receipts[p].gain
<1>1. CASE ~AutoMerge /\ "merge-first" \in gh[p].labels
  BY <1>1 DEF PaidInv, PaidFacts, MergeFirstIsPaid
<1>2. ASSUME NEW w \in DOMAIN results, MergeWinner(w), p = results[w].pr
      PROVE  Paid(p) /\ \A i \in DOMAIN results : results[i].payout <= receipts[p].gain
  <2>1. /\ Paid(p) /\ receipts[p].gain = results[w].payout /\ Winner(w, results)
    BY <1>2, WinnerSteps
  <2>2. \A i \in DOMAIN results : results[i].payout \in Nat
    BY ResultFacts DEF PaidInv
  <2>3. ASSUME NEW i \in DOMAIN results
        PROVE  results[i].payout <= results[w].payout
    <3>1. results[w].payout > 0 /\ results[w].payout \in Nat /\ results[i].payout \in Nat
      BY <2>1, <2>2 DEF Winner, Paying
    <3>2. results[i].payout > 0 =>
              \/ results[i].payout < results[w].payout
              \/ results[i].payout = results[w].payout
      BY <2>1 DEF Winner, Paying
    <3> QED
      BY <3>1, <3>2
  <2> QED
    BY <2>1, <2>3
<1> QED
  BY <1>1, <1>2, Merging

\* What is merged has its paid label, or is merged by hand by a merge-first whose
\* DELETE had failed; what a round merges gained no less than any result.
MergesThePaid ==
    [][\A p \in PRs : ~gh[p].merged /\ gh'[p].merged =>
        /\ Paid(p) \/ (~AutoMerge /\ "merge-first" \in kept[p])
        /\ AutoMerge => \A i \in DOMAIN results : results[i].payout <= receipts[p].gain]_vars

\* Whatever fails, what a round merges has its paid label and gained no less than
\* any of its results, and what a person merges by its merge-first has its paid
\* label unless set_label failed to delete that merge-first.
THEOREM MergedIsPaid == Spec => MergesThePaid
<1>1. PaidInv /\ [Next]_vars =>
        [\A p \in PRs : ~gh[p].merged /\ gh'[p].merged =>
            /\ Paid(p) \/ (~AutoMerge /\ "merge-first" \in kept[p])
            /\ AutoMerge =>
                \A i \in DOMAIN results : results[i].payout <= receipts[p].gain]_vars
  BY MergedPays
<1> QED
  BY <1>1, PaidAlways, PTL DEF Spec, MergesThePaid


\* With no failing request and no answer that raises, the labels of a round's
\* pull requests are its results.
JobDoesNotRaise == job # None => job.kind # "raised"

LabelsAreResults ==
    /\ pc \in Answering => \A i \in DOMAIN results :
                             Paid(results[i].pr) => results[i].payout > 0
    /\ pc \in {"comment", "record"} => (Paid(job.pr) => Payout(job) > 0)

BestInv == PaidInv /\ JobDoesNotRaise /\ LabelsAreResults

\* Fewer requests fail and fewer answers raise than the model allows.
LEMMA NothingRaised ==
    ASSUME BestInv, "api" \notin Faults, Label \/ LabelRaises \/ Comment \/ CloseFails \/ CommentRaises
    PROVE  job' = job /\ (pc = "label" => Label)
<1>1. ~LabelRaises /\ ~CommentRaises
  BY DEF LabelRaises, LabelFails, CommentRaises, Fault
<1> QED
  BY <1>1, JobSteps DEF BestInv

LEMMA BestStep ==
    ASSUME BestInv, [Next]_vars, AutoMerge, Faults \cap {"api", "delete"} = {},
           "raised" \notin Kinds
    PROVE  BestInv'
<1>1. PaidInv' /\ gh \in [PRs -> PRShape]
  BY PaidStep DEF BestInv, PaidInv, Typed, TypeOK
<1>2. CASE UNCHANGED vars
  <2>1. UNCHANGED <<gh, pc, job, results>>
    BY <1>2 DEF vars, github, round
  <2> QED
    BY <1>1, <2>1 DEF BestInv, JobDoesNotRaise, LabelsAreResults, Paid, Payout
<1>3. CASE \/ SyncHold \/ SyncFails \/ SendBack \/ SendBackRaises
           \/ StartRound \/ NothingDue \/ NobodyWins \/ FinishRound \/ Crash
  <2>1. job' = None /\ pc' \in {"idle", "sync", "rebase"}
    BY <1>3 DEF SyncHold, SyncFails, SendBack, SendBackRaises, StartRound, NothingDue,
                NobodyWins, FinishRound, Crash, EndRound, BestInv, PaidInv, Typed, TypeOK
  <2> QED
    BY <1>1, <2>1 DEF BestInv, JobDoesNotRaise, LabelsAreResults, Answering
<1>4. CASE FreezeQueue
  <2>1. results' = <<>> /\ job' = None /\ pc' = "take"
    BY <1>4 DEF FreezeQueue, BestInv, PaidInv, PaidFacts, HandsApart, Typed, TypeOK
  <2> QED
    BY <1>1, <2>1 DEF BestInv, JobDoesNotRaise, LabelsAreResults
<1>5. ASSUME NEW kind \in Kinds, NEW gain \in Gain, Take(kind, gain)
      PROVE  BestInv'
  <2>1. PICK s \in queue : Taken(s, kind, gain)
    BY <1>5, TakeCases DEF BestInv, PaidInv
  <2>2. job'.kind # "raised"
    BY <2>1 DEF Taken
  <2>3. UNCHANGED <<gh, results>> /\ pc = "take" /\ pc' = "label"
    BY <1>5 DEF Take, github
  <2> QED
    BY <1>1, <2>2, <2>3 DEF BestInv, JobDoesNotRaise, LabelsAreResults, Answering, Paid
<1>6. CASE Label \/ LabelRaises \/ Comment \/ CloseFails \/ CommentRaises
  <2>1. job' = job /\ (pc = "label" => Label)
    BY <1>6, NothingRaised
  <2> PICK p \in PRs : p = job.pr
    BY <1>6, JobSteps DEF BestInv, JobShape
  <2>2. /\ pc \in {"label", "comment"} /\ pc' \in {"comment", "record"} /\ results' = results
        /\ job # None
    BY <1>6, JobSteps DEF BestInv
  <2>3. /\ \A q \in PRs \ {p} : Paid(q)' <=> Paid(q)
        /\ Paid(p)' => Payout(job) > 0
    <3>1. CASE pc = "label"
      <4> DEFINE new == LabelOf(job.kind, job.gain)
      <4>1. new \in Burnish /\ Replaces(p, new)
        BY <1>6, <2>1, <3>1, JobSteps DEF BestInv, Fault
      <4>2. (Paid(p)' <=> new = "gap") /\ \A q \in PRs \ {p} : gh'[q] = gh[q]
        BY <4>1, LabelDecides
      <4>3. job.kind \in Kinds \cup {"score error"}
        BY <1>6, <2>2, JobSteps DEF BestInv, JobDoesNotRaise, JobShape
      <4>4. new = "gap" => Payout(job) > 0
        BY <4>3, RoundAssumption DEF LabelOf, AllKinds, NotMeasuredKinds, Payout
      <4> QED
        BY <4>2, <4>4 DEF Paid
    <3>2. CASE pc = "comment"
      <4>1. \A q \in PRs : gh'[q].labels = gh[q].labels
        BY <1>6, <3>2, JobSteps DEF BestInv
      <4> QED
        BY <3>2, <4>1 DEF BestInv, LabelsAreResults, Paid
    <3> QED
      BY <2>2, <3>1, <3>2
  <2>4. \A i \in DOMAIN results : results[i].pr \in PRs /\ results[i].pr # p
    BY <2>2, ResultFacts DEF BestInv, PaidInv, PaidFacts, HandsApart
  <2>5. \A i \in DOMAIN results : Paid(results[i].pr)' => results[i].payout > 0
    BY <2>2, <2>3, <2>4 DEF BestInv, LabelsAreResults, Answering, Paid
  <2>6. Paid(job.pr)' => Payout(job)' > 0
    BY <2>1, <2>3 DEF Paid, Payout
  <2> QED
    BY <1>1, <2>1, <2>2, <2>5, <2>6 DEF BestInv, JobDoesNotRaise, LabelsAreResults, Paid
<1>7. CASE Record
  <2>1. /\ UNCHANGED gh /\ job' = None /\ pc = "record" /\ pc' = "take" /\ job # None
        /\ results' = Append(results, [pr |-> job.pr, payout |-> Payout(job),
                                       measured |-> job.kind \notin NotMeasuredKinds])
    BY <1>7 DEF Record, github, BestInv, PaidInv, Typed, TypeOK
  <2>2. /\ DOMAIN results' = DOMAIN results \cup {Len(results) + 1}
        /\ \A i \in DOMAIN results : results'[i] = results[i]
        /\ results'[Len(results) + 1].pr = job.pr
        /\ results'[Len(results) + 1].payout = Payout(job)
    BY <2>1, ResultFacts DEF BestInv, PaidInv
  <2>3. \A i \in DOMAIN results' : "gap" \in gh[results'[i].pr].labels => results'[i].payout > 0
    BY <2>1, <2>2 DEF BestInv, LabelsAreResults, Answering, Paid
  <2> QED
    BY <1>1, <2>1, <2>3 DEF BestInv, JobDoesNotRaise, LabelsAreResults, Paid
<1>8. ASSUME NEW w \in DOMAIN results, MergeWinner(w) \/ MergeFails(w) \/ LabelWinner(w)
      PROVE  BestInv'
  <2>1. job' = None /\ pc' = "rebase"
    BY <1>8, WinnerSteps DEF BestInv
  <2> QED
    BY <1>1, <2>1 DEF BestInv, JobDoesNotRaise, LabelsAreResults, Answering
<1>9. CASE Others
  <2>1. /\ \A q \in PRs : gh'[q].labels \cap Burnish = gh[q].labels \cap Burnish
        /\ UNCHANGED <<pc, job, results>>
    BY <1>9, OthersMean DEF BestInv, PaidInv
  <2>2. \A q \in PRs : "gap" \in gh'[q].labels <=> "gap" \in gh[q].labels
    BY <2>1 DEF Burnish
  <2>3. \A i \in DOMAIN results : results[i].pr \in PRs
    BY ResultFacts DEF BestInv, PaidInv
  <2>4. pc \in {"comment", "record"} => job.pr \in PRs
    BY DEF BestInv, PaidInv, Typed, TypeOK, JobShape
  <2> QED
    BY <1>1, <2>1, <2>2, <2>3, <2>4
       DEF BestInv, JobDoesNotRaise, LabelsAreResults, Paid, Payout
<1> QED
  BY <1>2, <1>3, <1>4, <1>5, <1>6, <1>7, <1>8, <1>9 DEF Next, RoundStep, Gain

\* With --merge and no request that fails, a round merges the largest gain among
\* all the pull requests it answered that carry a paid label.  An answer that
\* raises may leave an older, larger paid label standing (MCRound_lost_comment),
\* and so may a DELETE that fails.
THEOREM BestIsMerged ==
    ASSUME AutoMerge, Faults \cap {"api", "delete"} = {}, "raised" \notin Kinds
    PROVE  Spec => MergesTheBest
<1>1. Init => BestInv
  <2>1. Init => JobDoesNotRaise /\ LabelsAreResults
    BY DEF Init, JobDoesNotRaise, LabelsAreResults
  <2> QED
    BY <2>1, TypedInit, PaidInit DEF BestInv, PaidInv
<1>2. BestInv /\ [Next]_vars => BestInv'
  BY BestStep
<1>3. ASSUME BestInv, [Next]_vars, NEW p \in PRs, ~gh[p].merged, gh'[p].merged
      PROVE  /\ Paid(p)
             /\ \A i \in DOMAIN results :
                 Paid(results[i].pr) => receipts[results[i].pr].gain <= receipts[p].gain
  <2>1. PICK w \in DOMAIN results : MergeWinner(w)
    BY <1>3, Merging DEF BestInv
  <2>2. Paid(p) /\ \A i \in DOMAIN results : results[i].payout <= receipts[p].gain
    BY <1>3, MergedPays DEF BestInv
  <2>3. \A i \in DOMAIN results : Paid(results[i].pr) =>
            receipts[results[i].pr].gain = results[i].payout
    BY <1>3, <2>1
       DEF MergeWinner, RoundOver, BestInv, LabelsAreResults, Answering, PaidInv, PaidFacts,
           ResultsArePaid
  <2> QED
    BY <2>2, <2>3
<1>4. BestInv /\ [Next]_vars =>
        [\A p \in PRs : ~gh[p].merged /\ gh'[p].merged =>
            /\ Paid(p)
            /\ \A i \in DOMAIN results :
                Paid(results[i].pr) => receipts[results[i].pr].gain <= receipts[p].gain]_vars
  BY <1>3
<1> QED
  BY <1>1, <1>2, <1>4, PTL DEF Spec, MergesTheBest

-----------------------------------------------------------------------------
\* One credit for one baseline

MergedIsClosed == \A p \in PRs : gh[p].merged => ~gh[p].open

\* Between rounds only what was merged is paid.
PaidIsMerged == pc \in {"idle", "sync"} => \A p \in PRs : Paid(p) => gh[p].merged

\* What was merged was measured against an older main, each against its own.
BasesAreSpent ==
    /\ \A p \in PRs : Paid(p) /\ gh[p].merged => receipts[p].base < main
    /\ \A p, q \in PRs : p # q /\ Paid(p) /\ gh[p].merged /\ Paid(q) /\ gh[q].merged =>
        receipts[p].base # receipts[q].base

\* While a round answers, main is what it measures against, what it pays is open
\* and in its results, and what it has not answered is open.
RoundIsCurrent ==
    /\ pc \in Answering \cup {"sync"} => base = main
    /\ pc \in Answering =>
        /\ \A p \in PRs : Paid(p) /\ ~gh[p].merged =>
            \/ \E i \in Paying(results) : results[i].pr = p
            \/ pc \in {"comment", "record"} /\ job.pr = p /\ Payout(job) > 0
        /\ \A i \in Paying(results) : receipts[results[i].pr].base = base /\ gh[results[i].pr].open
        /\ \A s \in queue : gh[s.pr].open
    /\ job # None =>
        /\ Scores(job.kind) => receipts[job.pr].base = base
        /\ pc \in {"label", "comment"} \/ Scores(job.kind) => gh[job.pr].open

\* What is paid and not merged is about to be sent back.
LosersAreSentBack ==
    pc = "rebase" =>
        \A p \in PRs : Paid(p) /\ ~gh[p].merged => <<p, "needs-rebase">> \in todo

CreditFacts == PaidIsMerged /\ BasesAreSpent /\ RoundIsCurrent /\ LosersAreSentBack
CreditInv == WithheldInv /\ MergedIsClosed /\ (faults = 0 => CreditFacts)

\* A step after which nothing has failed failed nothing.
LEMMA FaultsGrow ==
    ASSUME Typed, [Next]_vars
    PROVE  /\ faults' = 0 => faults = 0
           /\ \A f : Fault(f) => faults' # 0
<1>1. faults \in Nat
  BY RoundAssumption DEF Typed, TypeOK
<1>2. faults' = faults \/ faults' = faults + 1
  BY OthersMean DEF Next, RoundStep, StartRound, SyncHold, SyncFails, NothingDue, FreezeQueue, Take,
         Label, LabelRaises, Comment, CloseFails, CommentRaises, Record, NobodyWins,
         MergeWinner, MergeFails, LabelWinner, SendBack, SendBackRaises, FinishRound, Crash,
         SetLabel, RequestFails, LabelFails, Fault, world, round, disk, vars
<1> QED
  BY <1>1, <1>2 DEF Fault

\* A request between the answers of two rounds.
LEMMA CreditRequest ==
    ASSUME CreditInv, faults' = 0, faults = 0, \A f : ~Fault(f),
           SyncHold \/ SyncFails \/ SendBack \/ SendBackRaises
    PROVE  CreditFacts'
<1>1. SyncHold \/ SendBack
  BY DEF SyncFails, SendBackRaises, RequestFails, LabelFails
<1>2. /\ gh \in [PRs -> PRShape] /\ kept \in [PRs -> SUBSET Burnish]
      /\ pc \in {"sync", "rebase"} /\ pc' = pc /\ job' = None
      /\ UNCHANGED <<main, receipts, base>>
  BY <1>1, RequestSteps DEF CreditInv, WithheldInv, PaidInv, Typed, TypeOK, SyncHold, SendBack
<1>3. PICK x \in todo : SetLabel(x[1], x[2]) /\ todo' = todo \ {x}
  BY <1>1 DEF SyncHold, SendBack
<1>4. x[2] = "needs-rebase" /\ x[1] \in PRs /\ x = <<x[1], x[2]>>
  BY <1>3 DEF CreditInv, WithheldInv, WithheldFacts, NothingHeld, PaidInv, Typed, TypeOK
<1> PICK p \in PRs : p = x[1]
  BY <1>4
<1>5. ~Paid(p)' /\ \A q \in PRs \ {p} : gh'[q] = gh[q]
  <2>1. "needs-rebase" \in Burnish
    BY DEF Burnish
  <2>2. Replaces(p, "needs-rebase")
    BY <1>2, <1>3, <1>4, <2>1, Setting
  <2> QED
    BY <2>1, <2>2, LabelDecides
<1>6. \A q \in PRs : Paid(q)' => q # p /\ Paid(q) /\ gh'[q] = gh[q]
  BY <1>5 DEF Paid
<1>7. PaidIsMerged' /\ BasesAreSpent'
  BY <1>2, <1>6 DEF CreditInv, CreditFacts, PaidIsMerged, BasesAreSpent
<1>8. RoundIsCurrent'
  BY <1>2 DEF CreditInv, CreditFacts, RoundIsCurrent, Answering
<1>9. LosersAreSentBack'
  BY <1>2, <1>3, <1>4, <1>6 DEF CreditInv, CreditFacts, LosersAreSentBack
<1> QED
  BY <1>7, <1>8, <1>9 DEF CreditFacts

\* The steps that only begin or end a round.
LEMMA CreditQuiet ==
    ASSUME CreditInv, faults' = 0, faults = 0, \A f : ~Fault(f),
           \/ StartRound \/ NothingDue \/ FreezeQueue \/ NobodyWins \/ FinishRound \/ Crash
    PROVE  CreditFacts'
<1>1. ~Crash
  BY DEF Crash
<1>2. UNCHANGED <<gh, main, receipts>> /\ job' = None /\ job = None
  BY <1>1
     DEF CreditInv, WithheldInv, PaidInv, Typed, TypeOK, StartRound, NothingDue, FreezeQueue,
         NobodyWins, FinishRound, RoundOver, EndRound, github, disk
<1>3. BasesAreSpent'
  BY <1>2 DEF CreditInv, CreditFacts, BasesAreSpent, Paid
<1>4. CASE StartRound
  <2>1. pc = "idle" /\ pc' = "sync" /\ base' = main
    BY <1>4 DEF StartRound
  <2> QED
    BY <1>2, <1>3, <2>1
       DEF CreditInv, CreditFacts, PaidIsMerged, RoundIsCurrent, LosersAreSentBack, Paid, Answering
<1>5. CASE FreezeQueue
  <2>1. /\ pc = "sync" /\ pc' = "take" /\ base' = base /\ queue' = Frozen
        /\ results = <<>> /\ results' = results
    BY <1>5 DEF FreezeQueue, CreditInv, WithheldInv, PaidInv, PaidFacts, HandsApart
  <2>2. \A s \in Frozen : gh[s.pr].open
    BY DEF Frozen
  <2>3. \A p \in PRs : Paid(p) => gh[p].merged
    BY <2>1 DEF CreditInv, CreditFacts, PaidIsMerged
  <2>4. Paying(results) = {}
    BY <2>1 DEF Paying
  <2>5. base = main
    BY <2>1 DEF CreditInv, CreditFacts, RoundIsCurrent
  <2> QED
    BY <1>2, <1>3, <2>1, <2>2, <2>3, <2>4, <2>5
       DEF CreditFacts, PaidIsMerged, RoundIsCurrent, LosersAreSentBack, Paid, Paying
<1>6. CASE NothingDue \/ NobodyWins \/ FinishRound
  <2>1. pc' = "idle"
    BY <1>6 DEF NothingDue, NobodyWins, FinishRound, EndRound
  <2>2. \A p \in PRs : Paid(p) => gh[p].merged
    <3>1. CASE NothingDue
      BY <3>1 DEF NothingDue, CreditInv, CreditFacts, PaidIsMerged
    <3>2. CASE NobodyWins
      BY <3>2
         DEF NobodyWins, RoundOver, CreditInv, CreditFacts, RoundIsCurrent, Answering
    <3>3. CASE FinishRound
      BY <3>3 DEF FinishRound, CreditInv, CreditFacts, LosersAreSentBack
    <3> QED
      BY <1>6, <3>1, <3>2, <3>3
  <2> QED
    BY <1>2, <1>3, <2>1, <2>2
       DEF CreditFacts, PaidIsMerged, RoundIsCurrent, LosersAreSentBack, Paid, Answering
<1> QED
  BY <1>1, <1>4, <1>5, <1>6

\* What is taken is open, so it was not merged, and its receipt is of this round.
LEMMA CreditTake ==
    ASSUME CreditInv, faults = 0, NEW kind \in Kinds, NEW gain \in Gain, Take(kind, gain)
    PROVE  CreditFacts'
<1>1. PICK s \in queue : Taken(s, kind, gain)
  BY TakeCases DEF CreditInv, WithheldInv, PaidInv
<1> PICK p \in PRs : p = s.pr
  BY <1>1 DEF Taken, SnapshotShape
<1>2. /\ UNCHANGED <<gh, main, base, results>> /\ pc = "take" /\ pc' \in {"label", "record"}
      /\ pc' = "record" => kind = "raised"
      /\ job'.pr = p /\ queue' \subseteq queue
      /\ \A q \in PRs \ {p} : receipts'[q] = receipts[q]
  BY <1>1 DEF Take, Taken, github
<1>3. /\ Scores(job'.kind) => receipts'[p].base = base
      /\ kind = "raised" => ~Scores(job'.kind)
  BY <1>1 DEF Taken, Scores
<1>4. gh[p].open /\ ~gh[p].merged
  BY <1>2 DEF CreditInv, CreditFacts, RoundIsCurrent, Answering, MergedIsClosed
<1>5. \A i \in DOMAIN results : results[i].pr \in PRs \ {p}
  BY ResultFacts DEF CreditInv, WithheldInv, PaidInv, PaidFacts, HandsApart
<1>6. BasesAreSpent'
  BY <1>2, <1>4 DEF CreditInv, CreditFacts, BasesAreSpent, Paid
<1>7. RoundIsCurrent'
  <2>1. /\ base = main
        /\ \A q \in PRs : Paid(q) /\ ~gh[q].merged =>
                \E i \in Paying(results) : results[i].pr = q
        /\ \A i \in Paying(results) :
              receipts[results[i].pr].base = base /\ gh[results[i].pr].open
        /\ \A t \in queue : gh[t.pr].open
    BY <1>2 DEF CreditInv, CreditFacts, RoundIsCurrent, Answering
  <2>2. \A i \in Paying(results) : receipts'[results[i].pr].base = base
    BY <1>2, <1>5, <2>1 DEF Paying
  <2>3. Paying(results)' = Paying(results)
    BY <1>2 DEF Paying
  <2> QED
    BY <1>2, <1>3, <1>4, <2>1, <2>2, <2>3 DEF RoundIsCurrent, Paid
<1>8. PaidIsMerged' /\ LosersAreSentBack'
  BY <1>2 DEF PaidIsMerged, LosersAreSentBack
<1> QED
  BY <1>6, <1>7, <1>8 DEF CreditFacts

\* The label of an answer is a credit against the main of this round.
LEMMA CreditJob ==
    ASSUME CreditInv, faults' = 0, faults = 0, \A f : ~Fault(f),
           Label \/ LabelRaises \/ Comment \/ CloseFails \/ CommentRaises
    PROVE  CreditFacts'
<1>1. PaidInv /\ gh \in [PRs -> PRShape]
  BY DEF CreditInv, WithheldInv, PaidInv, Typed, TypeOK
<1>2. /\ job' = job /\ job # None /\ (pc = "label" => Label)
      /\ pc \in {"label", "comment"} /\ pc' \in {"comment", "record"}
      /\ pc = "label" => pc' = "comment"
      /\ pc = "comment" => pc' = "record"
      /\ UNCHANGED <<main, receipts, base, queue, results>> /\ job \in JobShape
  <2>1. ~LabelRaises /\ ~CommentRaises
    BY DEF LabelRaises, LabelFails, CommentRaises
  <2> QED
    BY <1>1, <2>1, JobSteps DEF Label, Comment, CloseFails
<1> PICK p \in PRs : p = job.pr
  BY <1>2 DEF JobShape
<1>3. gh[p].open /\ ~gh[p].merged
  BY <1>2 DEF CreditInv, CreditFacts, RoundIsCurrent, MergedIsClosed
<1>4. /\ \A q \in PRs : gh'[q].merged = gh[q].merged
      /\ \A q \in PRs \ {p} : gh'[q].open = gh[q].open /\ (Paid(q)' <=> Paid(q))
      /\ pc = "label" \/ Scores(job.kind) => gh'[p].open
      /\ Paid(p)' => Payout(job) > 0
  <2>1. CASE pc = "label"
    <3> DEFINE new == LabelOf(job.kind, job.gain)
    <3>1. new \in Burnish /\ Replaces(p, new)
      BY <1>1, <1>2, <2>1, JobSteps
    <3>2. (Paid(p)' <=> new = "gap") /\ \A q \in PRs \ {p} : gh'[q] = gh[q]
      BY <3>1, LabelDecides
    <3>3. new = "gap" => Payout(job) > 0
      <4>1. job.kind \in Kinds \cup {"score error"}
        BY <1>1, <1>2, <2>1 DEF PaidInv, Typed, JobShape
      <4> QED
        BY <4>1, RoundAssumption DEF LabelOf, AllKinds, NotMeasuredKinds, Payout
    <3>4. gh'[p].open = gh[p].open /\ gh'[p].merged = gh[p].merged
      BY <3>1 DEF Replaces, Sets, OnlyLabels
    <3> QED
      BY <1>3, <3>2, <3>3, <3>4 DEF Paid
  <2>2. CASE pc = "comment"
    <3>1. \A q \in PRs : /\ gh'[q].labels = gh[q].labels /\ gh'[q].merged = gh[q].merged
                         /\ \/ gh'[q] = gh[q]
                            \/ q = p /\ job.kind \in {"copycat", "blocked"}
      BY <1>1, <1>2, <2>2, JobSteps
    <3>2. Paid(p) => Payout(job) > 0
      <4>1. \A i \in DOMAIN results : results[i].pr # p
        BY <1>1, <1>2 DEF PaidInv, PaidFacts, HandsApart
      <4> QED
        BY <1>3, <2>2, <4>1 DEF CreditInv, CreditFacts, RoundIsCurrent, Answering, Paying
    <3> QED
      BY <1>3, <2>2, <3>1, <3>2 DEF Paid, Scores
  <2> QED
    BY <1>2, <2>1, <2>2
<1>5. /\ \A s \in queue : s.pr \in PRs \ {p}
      /\ \A i \in DOMAIN results : results[i].pr \in PRs \ {p}
  <2>1. \A s \in queue : s.pr \in PRs
    BY <1>1 DEF PaidInv, Typed, TypeOK, SnapshotShape
  <2> QED
    BY <1>1, <1>2, <2>1, ResultFacts DEF PaidInv, PaidFacts, HandsApart
<1>6. BasesAreSpent'
  <2>1. \A q \in PRs : Paid(q)' /\ gh'[q].merged => Paid(q) /\ gh[q].merged
    BY <1>3, <1>4
  <2> QED
    BY <1>2, <2>1 DEF CreditInv, CreditFacts, BasesAreSpent
<1>7. RoundIsCurrent'
  <2>1. /\ base = main
        /\ \A q \in PRs \ {p} : Paid(q) /\ ~gh[q].merged =>
                \E i \in Paying(results) : results[i].pr = q
        /\ \A i \in Paying(results) :
              receipts[results[i].pr].base = base /\ gh[results[i].pr].open
        /\ \A t \in queue : gh[t.pr].open
        /\ Scores(job.kind) => receipts[job.pr].base = base
    BY <1>2 DEF CreditInv, CreditFacts, RoundIsCurrent, Answering
  <2>2. Paying(results)' = Paying(results) /\ Payout(job)' = Payout(job)
    BY <1>2 DEF Paying, Payout
  <2>3. \A i \in Paying(results) : gh'[results[i].pr].open
    BY <1>4, <1>5, <2>1 DEF Paying
  <2>4. \A q \in PRs : Paid(q)' /\ ~gh'[q].merged =>
            \/ \E i \in Paying(results) : results[i].pr = q
            \/ pc' \in {"comment", "record"} /\ job.pr = q /\ Payout(job) > 0
    BY <1>2, <1>4, <2>1
  <2>5. \A t \in queue : gh'[t.pr].open
    BY <1>4, <1>5, <2>1
  <2> QED
    BY <1>2, <1>4, <2>1, <2>2, <2>3, <2>4, <2>5 DEF RoundIsCurrent, Scores
<1>8. PaidIsMerged' /\ LosersAreSentBack'
  BY <1>2 DEF PaidIsMerged, LosersAreSentBack
<1> QED
  BY <1>6, <1>7, <1>8 DEF CreditFacts

LEMMA CreditRecord ==
    ASSUME CreditInv, faults = 0, Record
    PROVE  CreditFacts'
<1>1. /\ UNCHANGED <<gh, main, receipts, base, queue>> /\ job # None /\ job' = None
      /\ pc = "record" /\ pc' = "take"
      /\ results' = Append(results, [pr |-> job.pr, payout |-> Payout(job),
                                     measured |-> job.kind \notin NotMeasuredKinds])
  BY DEF Record, github, CreditInv, WithheldInv, PaidInv, Typed, TypeOK
<1>2. /\ DOMAIN results' = DOMAIN results \cup {Len(results) + 1}
      /\ \A i \in DOMAIN results : results'[i] = results[i]
      /\ results'[Len(results) + 1].pr = job.pr
      /\ results'[Len(results) + 1].payout = Payout(job)
  BY <1>1, ResultFacts DEF CreditInv, WithheldInv, PaidInv
<1>3. /\ base = main
      /\ \A q \in PRs : Paid(q) /\ ~gh[q].merged =>
            (\E i \in Paying(results) : results[i].pr = q) \/ (job.pr = q /\ Payout(job) > 0)
      /\ \A i \in Paying(results) : receipts[results[i].pr].base = base /\ gh[results[i].pr].open
      /\ \A s \in queue : gh[s.pr].open
      /\ Scores(job.kind) => receipts[job.pr].base = base /\ gh[job.pr].open
  BY <1>1 DEF CreditInv, CreditFacts, RoundIsCurrent, Answering
<1>4. \A i : i \in Paying(results)' <=>
                i \in Paying(results) \/ (i = Len(results) + 1 /\ Payout(job) > 0)
  <2>1. Len(results) + 1 \notin DOMAIN results
    BY ResultFacts DEF CreditInv, WithheldInv, PaidInv
  <2> QED
    BY <1>2, <2>1 DEF Paying
<1>5. Payout(job) > 0 => Scores(job.kind)
  BY DEF Payout, Scores
<1>6. \A i \in Paying(results)' : /\ receipts[results'[i].pr].base = base
                                  /\ gh[results'[i].pr].open
  BY <1>2, <1>3, <1>4, <1>5 DEF Paying
<1>7. \A q \in PRs : Paid(q) /\ ~gh[q].merged => \E i \in Paying(results)' : results'[i].pr = q
  BY <1>2, <1>3, <1>4 DEF Paying
<1>8. RoundIsCurrent'
  BY <1>1, <1>3, <1>6, <1>7 DEF RoundIsCurrent, Answering, Paid
<1>9. PaidIsMerged' /\ BasesAreSpent' /\ LosersAreSentBack'
  BY <1>1 DEF PaidIsMerged, LosersAreSentBack, CreditInv, CreditFacts, BasesAreSpent, Paid
<1> QED
  BY <1>8, <1>9 DEF CreditFacts

\* The winner is open, so it is merged; main moves past its base, and every other
\* gain of the round is to be sent back.
LEMMA CreditWinner ==
    ASSUME CreditInv, AutoMerge, faults' = 0, faults = 0, \A f : ~Fault(f),
           NEW w \in DOMAIN results, MergeWinner(w) \/ MergeFails(w) \/ LabelWinner(w)
    PROVE  CreditFacts'
<1>1. /\ PaidInv /\ gh \in [PRs -> PRShape] /\ main \in Nat
  BY DEF CreditInv, WithheldInv, PaidInv, Typed, TypeOK
<1> PICK p \in PRs : p = results[w].pr
  BY <1>1, WinnerSteps
<1>2. /\ Paid(p) /\ job = None /\ job' = None /\ pc = "take" /\ pc' = "rebase"
      /\ todo' = Losers(results, w) /\ Winner(w, results)
      /\ UNCHANGED <<receipts, base, results>>
  BY <1>1, WinnerSteps
<1>3. /\ base = main
      /\ \A q \in PRs : Paid(q) /\ ~gh[q].merged => \E i \in Paying(results) : results[i].pr = q
      /\ receipts[p].base = base /\ gh[p].open
  BY <1>2 DEF CreditInv, CreditFacts, RoundIsCurrent, Answering, Winner
<1>4. MergeWinner(w)
  BY <1>3 DEF MergeFails, LabelWinner
<1>5. /\ main' = main + 1 /\ gh'[p].merged
      /\ \A q \in PRs : Paid(q)' <=> Paid(q)
      /\ \A q \in PRs \ {p} : gh'[q].merged = gh[q].merged
  BY <1>1, <1>4, MergeShape DEF MergeWinner, Paid
<1>6. /\ \A q \in PRs : receipts[q] # None => receipts[q].base \in Nat
      /\ \A q \in PRs : Paid(q) => receipts[q] # None
  <2>1. \A q \in PRs : receipts[q] # None => receipts[q] \in ReceiptShape
    BY <1>1 DEF PaidInv, Typed, TypeOK
  <2> QED
    BY <1>1, <2>1 DEF ReceiptShape, PaidInv, PaidFacts, PaidHasReceipt
<1>7. /\ \A q \in PRs : Paid(q) /\ gh[q].merged => receipts[q].base < main
      /\ \A q, r \in PRs : q # r /\ Paid(q) /\ gh[q].merged /\ Paid(r) /\ gh[r].merged =>
            receipts[q].base # receipts[r].base
  BY DEF CreditInv, CreditFacts, BasesAreSpent
<1>8. \A q \in PRs : Paid(q)' /\ gh'[q].merged /\ q # p => receipts[q].base < main
  BY <1>5, <1>7
<1>9. BasesAreSpent'
  <2>1. \A q \in PRs : Paid(q)' /\ gh'[q].merged => receipts[q].base < main + 1
    BY <1>1, <1>3, <1>5, <1>6, <1>8
  <2>2. ASSUME NEW q \in PRs, NEW r \in PRs, q # r, Paid(q)', gh'[q].merged, Paid(r)', gh'[r].merged
        PROVE  receipts[q].base # receipts[r].base
    <3>1. CASE q = p
      BY <1>3, <1>8, <2>2, <3>1, <1>1
    <3>2. CASE r = p
      BY <1>3, <1>8, <2>2, <3>2, <1>1
    <3>3. CASE q # p /\ r # p
      BY <1>5, <1>7, <2>2, <3>3
    <3> QED
      BY <3>1, <3>2, <3>3
  <2> QED
    BY <1>2, <1>5, <2>1, <2>2 DEF BasesAreSpent
<1>10. LosersAreSentBack'
  <2> SUFFICES ASSUME NEW q \in PRs, Paid(q), ~gh'[q].merged
               PROVE  <<q, "needs-rebase">> \in Losers(results, w)
    BY <1>2, <1>5 DEF LosersAreSentBack
  <2>1. q # p /\ ~gh[q].merged
    BY <1>5
  <2>2. PICK i \in Paying(results) : results[i].pr = q
    BY <1>3, <2>1
  <2>3. i # w
    BY <2>1, <2>2
  <2> QED
    BY <2>2, <2>3 DEF Losers
<1>11. PaidIsMerged' /\ RoundIsCurrent'
  BY <1>2 DEF PaidIsMerged, RoundIsCurrent, Answering
<1> QED
  BY <1>9, <1>10, <1>11 DEF CreditFacts

\* Without closings nobody else changes what is open or merged.
LEMMA CreditOthers ==
    ASSUME CreditInv, AutoMerge, "close" \notin World, faults = 0, Others
    PROVE  CreditFacts'
<1>1. PICK p \in PRs : OtherOf(p)
  BY OthersSteps DEF CreditInv, WithheldInv, PaidInv
<1>2. /\ UNCHANGED <<receipts, pc, base, todo, queue, job, results, main>>
      /\ \A q \in PRs : /\ gh'[q].labels \cap Burnish = gh[q].labels \cap Burnish
                        /\ gh'[q].merged = gh[q].merged
                        /\ gh[q].open => gh'[q].open
  BY <1>1 DEF OtherOf
<1>3. \A q \in PRs : "gap" \in gh'[q].labels <=> "gap" \in gh[q].labels
  <2>1. "gap" \in Burnish
    BY DEF Burnish
  <2> QED
    BY <1>2, <2>1
<1>4. PaidIsMerged' /\ BasesAreSpent' /\ LosersAreSentBack'
  BY <1>2, <1>3
     DEF CreditInv, CreditFacts, PaidIsMerged, BasesAreSpent, LosersAreSentBack, Paid
<1>5. /\ job # None => job.pr \in PRs
      /\ \A s \in queue : s.pr \in PRs
      /\ \A i \in DOMAIN results : results[i].pr \in PRs
  BY ResultFacts
     DEF CreditInv, WithheldInv, PaidInv, Typed, TypeOK, JobShape, SnapshotShape
<1>6. RoundIsCurrent'
  <2>1. Paying(results)' = Paying(results) /\ Payout(job)' = Payout(job)
    BY <1>2 DEF Paying, Payout
  <2>2. RoundIsCurrent
    BY DEF CreditInv, CreditFacts
  <2>3. pc \in Answering =>
            /\ \A q \in PRs : "gap" \in gh'[q].labels /\ ~gh'[q].merged =>
                \/ \E i \in Paying(results) : results[i].pr = q
                \/ pc \in {"comment", "record"} /\ job.pr = q /\ Payout(job) > 0
            /\ \A i \in Paying(results) :
                  receipts[results[i].pr].base = base /\ gh'[results[i].pr].open
            /\ \A s \in queue : gh'[s.pr].open
    BY <1>2, <1>3, <1>5, <2>2 DEF RoundIsCurrent, Paid, Paying
  <2>4. job # None =>
            /\ Scores(job.kind) => receipts[job.pr].base = base
            /\ pc \in {"label", "comment"} \/ Scores(job.kind) => gh'[job.pr].open
    BY <1>2, <1>5, <2>2 DEF RoundIsCurrent
  <2>5. pc \in Answering \cup {"sync"} => base = main
    BY <2>2 DEF RoundIsCurrent
  <2> QED
    BY <1>2, <2>1, <2>3, <2>4, <2>5 DEF RoundIsCurrent, Paid, Scores
<1> QED
  BY <1>4, <1>6 DEF CreditFacts

\* What is merged is closed and is not opened again, whatever fails.
LEMMA MergedStaysClosed ==
    ASSUME PaidInv, MergedIsClosed, [Next]_vars
    PROVE  MergedIsClosed'
<1>1. gh \in [PRs -> PRShape] /\ main \in Nat
  BY DEF PaidInv, Typed, TypeOK
<1>2. CASE SyncHold \/ SyncFails \/ SendBack \/ SendBackRaises
  BY <1>1, <1>2, RequestSteps, LabelsGrow DEF MergedIsClosed
<1>3. CASE Label \/ LabelRaises \/ Comment \/ CloseFails \/ CommentRaises
  <2>1. job.pr \in PRs
    BY <1>3, JobSteps DEF JobShape
  <2>2. CASE pc = "label"
    BY <1>1, <1>3, <2>1, <2>2, JobSteps, LabelsGrow DEF MergedIsClosed
  <2>3. CASE pc = "comment"
    BY <1>3, <2>3, JobSteps DEF MergedIsClosed
  <2> QED
    BY <1>3, <2>2, <2>3, JobSteps
<1>4. CASE Others
  BY <1>4, OthersSteps DEF PaidInv, OtherOf, MergedIsClosed
<1>5. ASSUME NEW w \in DOMAIN results, MergeWinner(w) \/ MergeFails(w) \/ LabelWinner(w)
      PROVE  MergedIsClosed'
  <2> PICK p \in PRs : p = results[w].pr
    BY ResultFacts DEF PaidInv
  <2>1. CASE MergeWinner(w)
    BY <1>1, <2>1, MergeShape DEF MergeWinner, MergedIsClosed
  <2>2. CASE MergeFails(w)
    BY <2>2 DEF MergeFails, github, MergedIsClosed
  <2>3. CASE LabelWinner(w)
    <3>1. \/ gh' = gh
          \/ gh' = [gh EXCEPT ![p].labels = @ \cup {"merge-first"}]
      BY <2>3 DEF LabelWinner
    <3> QED
      BY <1>1, <3>1 DEF PRShape, MergedIsClosed
  <2> QED
    BY <1>5, <2>1, <2>2, <2>3
<1>6. CASE \/ StartRound \/ NothingDue \/ FreezeQueue \/ NobodyWins \/ FinishRound
           \/ Crash \/ Record \/ UNCHANGED vars
           \/ \E kind \in Kinds, gain \in Gains \cup {0} : Take(kind, gain)
  <2>1. gh' = gh
    BY <1>6 DEF StartRound, NothingDue, FreezeQueue, NobodyWins, FinishRound, Crash, Record,
                Take, vars, github
  <2> QED
    BY <2>1 DEF MergedIsClosed
<1> QED
  BY <1>2, <1>3, <1>4, <1>5, <1>6 DEF Next, RoundStep

LEMMA CreditStep ==
    ASSUME CreditInv, [Next]_vars, AutoMerge, World \cap {"close", "dispute"} = {}
    PROVE  CreditInv'
<1>1. WithheldInv' /\ MergedIsClosed'
  BY WithheldStep, MergedStaysClosed DEF CreditInv, WithheldInv
<1> SUFFICES ASSUME faults' = 0
             PROVE  CreditFacts'
  BY <1>1 DEF CreditInv
<1>2. faults = 0 /\ \A f : ~Fault(f)
  BY FaultsGrow DEF CreditInv, WithheldInv, PaidInv
<1>3. CASE UNCHANGED vars
  <2>1. UNCHANGED <<gh, main, receipts, pc, base, todo, queue, job, results>>
    BY <1>3 DEF vars, github, disk, round
  <2>2. PaidIsMerged' /\ BasesAreSpent' /\ LosersAreSentBack'
    BY <1>2, <2>1
       DEF CreditInv, CreditFacts, PaidIsMerged, BasesAreSpent, LosersAreSentBack, Paid
  <2>3. RoundIsCurrent'
    BY <1>2, <2>1 DEF CreditInv, CreditFacts, RoundIsCurrent, Paying, Payout, Paid, Scores
  <2> QED
    BY <2>2, <2>3 DEF CreditFacts
<1>4. ASSUME NEW kind \in Kinds, NEW gain \in Gain, Take(kind, gain)
      PROVE  CreditFacts'
  BY <1>2, <1>4, CreditTake
<1>5. ASSUME NEW w \in DOMAIN results, MergeWinner(w) \/ MergeFails(w) \/ LabelWinner(w)
      PROVE  CreditFacts'
  BY <1>2, <1>5, CreditWinner
<1> QED
  BY <1>2, <1>3, <1>4, <1>5, CreditRequest, CreditQuiet, CreditJob, CreditRecord, CreditOthers
     DEF Next, RoundStep, Gain

\* With --merge, as long as nothing has failed and where nobody closes or
\* disputes, two paid labels are always against different baselines once a round
\* is over: what is paid is merged, and each merge moves main past its base.
\* Without the hypotheses see MCRound_closed, MCRound_release_rebase and, by
\* hand, MCRound_two_winners.
THEOREM CreditedOnce ==
    ASSUME AutoMerge, World \cap {"close", "dispute"} = {}
    PROVE  Spec => []OneCreditPerBaseline
<1>1. Init => CreditInv
  <2>1. Init => /\ NothingHeld /\ ReviewStands /\ MergedHasReceipt /\ MergeFirstIsScored
                /\ JobIsFresh
                /\ MergedIsClosed /\ PaidIsMerged /\ BasesAreSpent /\ LosersAreSentBack
    BY DEF Init, NothingHeld, HeldLabelled, ReviewStands, MergedHasReceipt, MergeFirstIsScored,
           JobIsFresh, MergedIsClosed, PaidIsMerged, BasesAreSpent, LosersAreSentBack, Paid
  <2>2. Init => RoundIsCurrent
    BY DEF Init, RoundIsCurrent, Answering
  <2> QED
    BY <2>1, <2>2, TypedInit, PaidInit
       DEF CreditInv, CreditFacts, WithheldInv, WithheldFacts, PaidInv
<1>2. CreditInv /\ [Next]_vars => CreditInv'
  BY CreditStep
<1>3. CreditInv => OneCreditPerBaseline
  BY DEF CreditInv, CreditFacts, PaidIsMerged, BasesAreSpent, OneCreditPerBaseline
<1> QED
  BY <1>1, <1>2, <1>3, PTL DEF Spec

-----------------------------------------------------------------------------
\* One merge for one baseline

\* With --merge only a round moves main, past the base of what it merges.
MergesAreApart ==
    /\ \A p \in PRs : gh[p].merged => receipts[p] # None /\ receipts[p].base < main
    /\ \A p, q \in PRs : p # q /\ gh[p].merged /\ gh[q].merged =>
        receipts[p].base # receipts[q].base

BaseIsMain ==
    /\ pc \in Answering \cup {"sync"} => base = main
    /\ pc \in Answering => \A i \in Paying(results) : receipts[results[i].pr].base = base
    /\ job # None => (Scores(job.kind) => receipts[job.pr].base = base)

MergeInv == PaidInv /\ MergesAreApart /\ BaseIsMain

\* Nobody but the round merges, and requests leave what is merged alone.
LEMMA MergeBetween ==
    ASSUME MergeInv, AutoMerge,
           \/ SyncHold \/ SyncFails \/ SendBack \/ SendBackRaises
           \/ StartRound \/ NothingDue \/ FreezeQueue \/ NobodyWins \/ FinishRound \/ Crash
           \/ Others \/ UNCHANGED vars
    PROVE  MergesAreApart' /\ BaseIsMain'
<1>1. CASE SyncHold \/ SyncFails \/ SendBack \/ SendBackRaises
  <2>1. /\ UNCHANGED <<main, receipts>> /\ job' = None /\ gh \in [PRs -> PRShape]
        /\ (pc' = pc /\ base' = base) \/ pc' = "idle"
        /\ pc \in {"sync", "rebase"}
        /\ \A q \in PRs : gh'[q].merged = gh[q].merged
    BY <1>1, RequestSteps, LabelsGrow
       DEF MergeInv, PaidInv, Typed, TypeOK, SyncHold, SyncFails, SendBack, SendBackRaises,
           EndRound
  <2> QED
    BY <2>1 DEF MergeInv, MergesAreApart, BaseIsMain, Answering
<1>2. CASE \/ StartRound \/ NothingDue \/ FreezeQueue \/ NobodyWins \/ FinishRound \/ Crash
  <2>1. /\ UNCHANGED <<gh, main, receipts>> /\ job' = None
        /\ \/ pc' = "idle"
           \/ pc' = "sync" /\ base' = main
           \/ pc = "sync" /\ pc' = "take" /\ base' = base /\ results' = <<>>
    BY <1>2
       DEF MergeInv, PaidInv, PaidFacts, HandsApart, Typed, TypeOK, StartRound, NothingDue,
           FreezeQueue, NobodyWins, FinishRound, Crash, EndRound, github, disk
  <2>2. MergesAreApart'
    BY <2>1 DEF MergeInv, MergesAreApart
  <2> QED
    BY <2>1, <2>2 DEF MergeInv, BaseIsMain, Answering, Paying
<1>3. CASE Others \/ UNCHANGED vars
  <2>1. UNCHANGED <<main, receipts, pc, base, job, results>>
    BY <1>3, OthersSteps DEF MergeInv, PaidInv, OtherOf, vars, github, disk, round
  <2>2. \A q \in PRs : gh'[q].merged = gh[q].merged
    BY <1>3, OthersSteps DEF MergeInv, PaidInv, OtherOf, vars, github
  <2>3. Paying(results)' = Paying(results)
    BY <2>1 DEF Paying
  <2>4. MergesAreApart'
    BY <2>1, <2>2 DEF MergeInv, MergesAreApart
  <2> QED
    BY <2>1, <2>3, <2>4 DEF MergeInv, BaseIsMain, Scores
<1> QED
  BY <1>1, <1>2, <1>3

\* A receipt is filed against the main of its round.
LEMMA MergeAnswering ==
    ASSUME MergeInv,
           \/ \E kind \in Kinds, gain \in Gain : Take(kind, gain)
           \/ Label \/ LabelRaises \/ Comment \/ CloseFails \/ CommentRaises \/ Record
    PROVE  MergesAreApart' /\ BaseIsMain'
<1>1. PaidInv
  BY DEF MergeInv
<1>2. CASE Label \/ LabelRaises \/ Comment \/ CloseFails \/ CommentRaises
  <2>1. /\ UNCHANGED <<main, receipts, base, results>> /\ pc \in Answering /\ gh \in [PRs -> PRShape]
        /\ job # None /\ job'.pr = job.pr
        /\ Scores(job'.kind) => Scores(job.kind)
        /\ job.pr \in PRs
    BY <1>1, <1>2, JobSteps DEF Answering, JobShape, Scores, PaidInv, Typed, TypeOK
  <2>2. \A q \in PRs : gh'[q].merged = gh[q].merged
    BY <1>1, <1>2, <2>1, JobSteps, LabelsGrow
  <2>3. Paying(results)' = Paying(results)
    BY <2>1 DEF Paying
  <2>4. MergesAreApart'
    BY <2>1, <2>2 DEF MergeInv, MergesAreApart
  <2>5. base = main /\ \A i \in Paying(results) : receipts[results[i].pr].base = base
    BY <2>1 DEF MergeInv, BaseIsMain
  <2>6. Scores(job'.kind) => receipts[job.pr].base = base
    BY <2>1 DEF MergeInv, BaseIsMain
  <2> QED
    BY <2>1, <2>3, <2>4, <2>5, <2>6 DEF BaseIsMain, Scores
<1>3. CASE Record
  <2>1. /\ UNCHANGED <<gh, main, receipts, base>> /\ job # None /\ job' = None
        /\ pc = "record" /\ pc' = "take"
        /\ results' = Append(results, [pr |-> job.pr, payout |-> Payout(job),
                                       measured |-> job.kind \notin NotMeasuredKinds])
    BY <1>3 DEF Record, github, MergeInv, PaidInv, Typed, TypeOK
  <2>2. /\ DOMAIN results' = DOMAIN results \cup {Len(results) + 1}
        /\ \A i \in DOMAIN results : results'[i] = results[i]
        /\ results'[Len(results) + 1].pr = job.pr
        /\ results'[Len(results) + 1].payout = Payout(job)
    BY <1>1, <2>1, ResultFacts DEF PaidInv
  <2>3. Payout(job) > 0 => Scores(job.kind)
    BY DEF Payout, Scores
  <2>4. \A i \in Paying(results)' : receipts[results'[i].pr].base = base
    BY <2>1, <2>2, <2>3 DEF MergeInv, BaseIsMain, Answering, Paying
  <2>5. MergesAreApart'
    BY <2>1 DEF MergeInv, MergesAreApart
  <2> QED
    BY <2>1, <2>4, <2>5 DEF MergeInv, BaseIsMain, Answering
<1>4. ASSUME NEW kind \in Kinds, NEW gain \in Gain, Take(kind, gain)
      PROVE  MergesAreApart' /\ BaseIsMain'
  <2>1. PICK s \in queue : Taken(s, kind, gain)
    BY <1>1, <1>4, TakeCases DEF PaidInv
  <2> PICK p \in PRs : p = s.pr
    BY <2>1 DEF Taken, SnapshotShape
  <2>2. /\ UNCHANGED <<gh, main, base, results>> /\ pc = "take" /\ job'.pr = p
        /\ \A q \in PRs : receipts[q] # None => receipts'[q] = receipts[q]
        /\ Scores(job'.kind) => receipts'[p].base = base
    BY <1>4, <2>1 DEF Take, Taken, github, Scores
  <2>3. \A i \in Paying(results) : results[i].pr \in PRs /\ receipts[results[i].pr] # None
    BY <1>1, ResultFacts DEF PaidInv, PaidFacts, ResultsArePaid, Paying
  <2>4. Paying(results)' = Paying(results)
    BY <2>2 DEF Paying
  <2>5. MergesAreApart'
    BY <2>2 DEF MergeInv, MergesAreApart
  <2>6. pc' \in Answering /\ base = main
    BY <1>4, <2>2 DEF Take, MergeInv, BaseIsMain, Answering
  <2>7. \A i \in Paying(results) : receipts'[results[i].pr].base = base
    BY <2>2, <2>3 DEF MergeInv, BaseIsMain, Answering
  <2> QED
    BY <2>2, <2>4, <2>5, <2>6, <2>7 DEF BaseIsMain
<1> QED
  BY <1>2, <1>3, <1>4

LEMMA MergeWinners ==
    ASSUME MergeInv, AutoMerge, NEW w \in DOMAIN results,
           MergeWinner(w) \/ MergeFails(w) \/ LabelWinner(w)
    PROVE  MergesAreApart' /\ BaseIsMain'
<1>1. PaidInv /\ gh \in [PRs -> PRShape] /\ main \in Nat
  BY DEF MergeInv, PaidInv, Typed, TypeOK
<1> PICK p \in PRs : p = results[w].pr
  BY <1>1, WinnerSteps
<1>2. /\ receipts[p] # None /\ job' = None /\ pc = "take" /\ pc' = "rebase"
      /\ Winner(w, results) /\ UNCHANGED <<receipts, base, results>>
  BY <1>1, WinnerSteps
<1>3. receipts[p].base = main
  BY <1>2 DEF MergeInv, BaseIsMain, Answering, Winner
<1>4. BaseIsMain'
  BY <1>2 DEF BaseIsMain, Answering
<1>5. CASE MergeWinner(w)
  <2>1. main' = main + 1 /\ \A q \in PRs \ {p} : gh'[q] = gh[q]
    BY <1>1, <1>5, MergeShape DEF MergeWinner
  <2>2. \A q \in PRs : receipts[q] # None => receipts[q].base \in Nat
    <3>1. \A q \in PRs : receipts[q] # None => receipts[q] \in ReceiptShape
      BY <1>1 DEF PaidInv, Typed, TypeOK
    <3> QED
      BY <3>1 DEF ReceiptShape
  <2>3. \A q \in PRs \ {p} : gh[q].merged => receipts[q] # None /\ receipts[q].base < main
    BY DEF MergeInv, MergesAreApart
  <2>4. \A q \in PRs : gh'[q].merged => receipts[q] # None /\ receipts[q].base < main + 1
    BY <1>1, <1>2, <1>3, <2>1, <2>2, <2>3
  <2>5. ASSUME NEW q \in PRs, NEW r \in PRs, q # r, gh'[q].merged, gh'[r].merged
        PROVE  receipts[q].base # receipts[r].base
    <3>1. CASE q # p /\ r # p
      BY <2>1, <2>5, <3>1 DEF MergeInv, MergesAreApart
    <3>2. CASE q = p \/ r = p
      BY <1>1, <1>3, <2>1, <2>2, <2>3, <2>5, <3>2
    <3> QED
      BY <3>1, <3>2
  <2> QED
    BY <1>2, <1>4, <2>1, <2>4, <2>5 DEF MergesAreApart
<1>6. CASE MergeFails(w)
  <2>1. UNCHANGED <<gh, main, receipts>>
    BY <1>2, <1>6 DEF MergeFails, github
  <2> QED
    BY <1>4, <2>1 DEF MergeInv, MergesAreApart
<1> QED
  BY <1>5, <1>6 DEF LabelWinner

\* With --merge, whatever fails and whoever closes, pushes or disputes, two merges
\* are never credited against one baseline: a round measures against the main it
\* merges into, and only a round's one merge moves main.
THEOREM MergedOncePerBaseline ==
    ASSUME AutoMerge
    PROVE  Spec => []NoDoublePay
<1>1. Init => MergeInv
  BY TypedInit, PaidInit
     DEF Init, MergeInv, PaidInv, MergesAreApart, BaseIsMain, Answering
<1>2. MergeInv /\ [Next]_vars => MergeInv'
  <2> SUFFICES ASSUME MergeInv, [Next]_vars
               PROVE  MergesAreApart' /\ BaseIsMain'
    BY PaidStep DEF MergeInv
  <2>1. ASSUME NEW w \in DOMAIN results, MergeWinner(w) \/ MergeFails(w) \/ LabelWinner(w)
        PROVE  MergesAreApart' /\ BaseIsMain'
    BY <2>1, MergeWinners
  <2> QED
    BY <2>1, MergeBetween, MergeAnswering DEF Next, RoundStep, Gain
<1>3. MergeInv => NoDoublePay
  BY DEF MergeInv, MergesAreApart, NoDoublePay
<1> QED
  BY <1>1, <1>2, <1>3, PTL DEF Spec

-----------------------------------------------------------------------------
\* How often a pull request is evaluated


\* The last answer of p is of p as it is, its label still says so, and the label
\* makes p due again only for an evaluator error, which the record has counted.
Settled(p) ==
    /\ gh[p].labels \cap Burnish # {}
    /\ record[p] # None /\ record[p].head = gh[p].head /\ record[p].body = gh[p].body
    /\ "eval-error" \in gh[p].labels =>
        record[p].outcome = "EVAL_ERROR" /\ tries[p] <= record[p].attempts
    /\ gh[p].labels \cap {"copycat", "blocked", "copycat-review"} # {} => ~Cleared(p)
    /\ "reregistered" \in gh[p].labels => "reregistration-cleared" \notin gh[p].labels
    /\ tries[p] <= MaxAttempts

\* A snapshot of a pull request that has been answered as it is.
IsRetry(s) ==
    /\ StillAsFrozen(s)
    /\ record[s.pr] # None /\ record[s.pr].head = s.head
    /\ record[s.pr].outcome = "EVAL_ERROR"
    /\ tries[s.pr] <= record[s.pr].attempts /\ record[s.pr].attempts < MaxAttempts

\* An evaluation of a pull request as it is: what is recorded of it counts the
\* earlier ones, what it answers nobody has cleared, and its label is set.
IsCounted(p) ==
    /\ job.head = gh[p].head /\ job.body = gh[p].body
    /\ tries[p] <= MaxAttempts
    /\ tries[p] > 1 =>
        /\ record[p] # None /\ record[p].head = job.head /\ record[p].outcome = "EVAL_ERROR"
        /\ tries[p] <= record[p].attempts + 1
    /\ MayAnswer(job.kind, gh[p].labels)
    /\ job.kind \notin {"raised", "unmeasured"}
    /\ pc \in {"comment", "record"} =>
        gh[p].labels \cap Burnish = {LabelOf(job.kind, job.gain)}

AnswersAreFinal ==
    /\ \A p \in PRs : tries[p] > 0 /\ (job # None => p # job.pr) => Settled(p)
    /\ pc \in Answering => \A s \in queue : tries[s.pr] > 0 => IsRetry(s)
    /\ job # None => (tries[job.pr] > 0 => IsCounted(job.pr))
    /\ \A x \in todo : x[2] \in {"held", "gap", "unpaid", "needs-rebase"}

AttemptsInv == PaidInv /\ (faults = 0 => AnswersAreFinal)

\* A new label that is none of an error, a copy or a re-registration settles.
LEMMA SettledByLabel ==
    ASSUME gh \in [PRs -> PRShape], NEW p \in PRs,
           NEW new \in {"held", "gap", "unpaid", "needs-rebase"},
           Replaces(p, new), UNCHANGED <<record, tries>>, Settled(p)
    PROVE  Settled(p)'
<1>1. /\ new \in Burnish /\ Burnish \cap Clearances = {}
      /\ {"eval-error", "copycat", "blocked", "copycat-review", "reregistered"} \subseteq Burnish
  BY DEF Burnish, Clearances, NotMeasuredKinds
<1>2. /\ gh'[p].labels = (gh[p].labels \ Burnish) \cup {new}
      /\ gh'[p].head = gh[p].head /\ gh'[p].body = gh[p].body
  BY DEF Replaces, Sets, OnlyLabels, Relabelled
<1>3. gh'[p].labels \cap {"eval-error", "copycat", "blocked", "copycat-review", "reregistered"} = {}
  BY <1>1, <1>2
<1> QED
  BY <1>1, <1>2, <1>3 DEF Settled

\* What is settled and untouched stays settled.
LEMMA SettledSame ==
    ASSUME NEW p, Settled(p), gh'[p].labels = gh[p].labels, gh'[p].head = gh[p].head,
           gh'[p].body = gh[p].body, record'[p] = record[p], tries'[p] = tries[p]
    PROVE  Settled(p)'
BY DEF Settled, Cleared

LEMMA AttemptsRequest ==
    ASSUME PaidInv, AnswersAreFinal, \A f : ~Fault(f),
           SyncHold \/ SyncFails \/ SendBack \/ SendBackRaises
    PROVE  AnswersAreFinal'
<1>1. SyncHold \/ SendBack
  BY DEF SyncFails, SendBackRaises, RequestFails, LabelFails
<1>2. /\ gh \in [PRs -> PRShape] /\ kept \in [PRs -> SUBSET Burnish]
      /\ pc \in {"sync", "rebase"} /\ pc' = pc
      /\ job = None /\ job' = None /\ UNCHANGED <<record, tries>>
  BY <1>1, RequestSteps DEF PaidInv, Typed, TypeOK, SyncHold, SendBack
<1>3. PICK x \in todo : SetLabel(x[1], x[2]) /\ todo' = todo \ {x}
  BY <1>1 DEF SyncHold, SendBack
<1>4. x[2] \in {"held", "gap", "unpaid", "needs-rebase"} /\ x[1] \in PRs /\ x[2] \in Burnish
  BY <1>3 DEF AnswersAreFinal, PaidInv, Typed, TypeOK
<1>5. Replaces(x[1], x[2])
  BY <1>2, <1>3, <1>4, Setting
<1>6. \A q \in PRs : tries[q] > 0 => Settled(q)
  BY <1>2 DEF AnswersAreFinal
<1>7. ASSUME NEW q \in PRs, tries[q] > 0
      PROVE  Settled(q)'
  <2>1. CASE q = x[1]
    BY <1>2, <1>4, <1>5, <1>6, <1>7, <2>1, SettledByLabel
  <2>2. CASE q # x[1]
    <3>1. gh'[q] = gh[q]
      BY <1>5, <2>2 DEF Replaces, Sets, OnlyLabels
    <3> QED
      BY <1>2, <1>6, <1>7, <3>1, SettledSame
  <2> QED
    BY <2>1, <2>2
<1> QED
  BY <1>2, <1>3, <1>7 DEF AnswersAreFinal, Answering

\* What is due although it has been answered as it is, is due for an error that
\* may be tried again.
LEMMA DueAgain ==
    ASSUME NEW p \in PRs, Settled(p), NeedsEvaluation(gh[p], record[p])
    PROVE  /\ record[p].outcome = "EVAL_ERROR" /\ tries[p] <= record[p].attempts
           /\ record[p].attempts < MaxAttempts
<1>1. {"copycat", "blocked", "copycat-review", "reregistered"} \subseteq Burnish
  BY DEF Burnish, NotMeasuredKinds
<1>2. RetriesError(gh[p], record[p])
  BY <1>1 DEF Settled, Cleared, NeedsEvaluation
<1> QED
  BY <1>2 DEF RetriesError, Settled

LEMMA AttemptsQuiet ==
    ASSUME PaidInv, AnswersAreFinal, \A f : ~Fault(f),
           \/ StartRound \/ NothingDue \/ FreezeQueue \/ NobodyWins \/ FinishRound \/ Crash
    PROVE  AnswersAreFinal'
<1>1. ~Crash
  BY DEF Crash
<1>2. UNCHANGED <<gh, record, tries>> /\ job' = None /\ job = None
  BY <1>1
     DEF PaidInv, Typed, TypeOK, StartRound, NothingDue, FreezeQueue, NobodyWins, FinishRound,
         RoundOver, EndRound, github, disk
<1>3. \A q \in PRs : tries[q] > 0 => Settled(q)
  BY <1>2 DEF AnswersAreFinal
<1>4. \A q \in PRs : tries[q] > 0 => Settled(q)'
  BY <1>2, <1>3, SettledSame
<1>5. CASE StartRound
  <2>1. pc' = "sync" /\ todo' = HoldChanges
    BY <1>5 DEF StartRound
  <2>2. \A x \in HoldChanges : x[2] \in {"held", "gap", "unpaid", "needs-rebase"}
    BY DEF HoldChanges, ReceiptLabel
  <2> QED
    BY <1>2, <1>4, <2>1, <2>2 DEF AnswersAreFinal, Answering
<1>6. CASE FreezeQueue
  <2>1. queue' = Frozen /\ todo' = todo
    BY <1>6 DEF FreezeQueue
  <2>2. ASSUME NEW s \in Frozen, tries[s.pr] > 0
        PROVE  IsRetry(s)'
    <3>1. PICK p \in PRs : /\ NeedsEvaluation(gh[p], record[p])
                           /\ s = [pr |-> p, head |-> gh[p].head, body |-> gh[p].body,
                                   cleared |-> gh[p].labels \cap Clearances]
      BY DEF Frozen
    <3>2. Settled(p)
      BY <1>3, <2>2, <3>1
    <3>3. /\ record[p].outcome = "EVAL_ERROR" /\ tries[p] <= record[p].attempts
          /\ record[p].attempts < MaxAttempts
      BY <3>1, <3>2, DueAgain
    <3>4. StillAsFrozen(s)'
      BY <1>2, <3>1 DEF StillAsFrozen
    <3> QED
      BY <1>2, <3>1, <3>2, <3>3, <3>4 DEF IsRetry, Settled
  <2> QED
    BY <1>2, <1>4, <2>1, <2>2 DEF AnswersAreFinal
<1>7. CASE NothingDue \/ NobodyWins \/ FinishRound
  <2>1. queue' = {} /\ todo' = {}
    BY <1>7 DEF NothingDue, NobodyWins, FinishRound, EndRound
  <2> QED
    BY <1>2, <1>4, <2>1 DEF AnswersAreFinal
<1> QED
  BY <1>1, <1>5, <1>6, <1>7

LEMMA RetrySame ==
    ASSUME NEW s, IsRetry(s), gh'[s.pr] = gh[s.pr], record'[s.pr] = record[s.pr],
           tries'[s.pr] = tries[s.pr]
    PROVE  IsRetry(s)'
BY DEF IsRetry, StillAsFrozen

\* The count and the record of what is taken.
LEMMA AttemptsTake ==
    ASSUME PaidInv, AnswersAreFinal, Kinds \cap {"raised", "unmeasured"} = {},
           NEW kind \in Kinds, NEW gain \in Gain, Take(kind, gain)
    PROVE  AnswersAreFinal'
<1>1. PICK s \in queue : Taken(s, kind, gain)
  BY TakeCases DEF PaidInv
<1> PICK p \in PRs : p = s.pr
  BY <1>1 DEF Taken, SnapshotShape
<1>2. /\ UNCHANGED <<gh, record, todo>> /\ pc = "take" /\ pc' = "label" /\ job = None
      /\ job' # None /\ job'.pr = p /\ job'.head = s.head /\ job'.body = s.body
      /\ queue' = queue \ {s} /\ MayAnswer(kind, s.cleared)
      /\ tries \in [PRs -> 0 .. MaxAttempts + 1]
  BY <1>1 DEF Take, Taken, github, PaidInv, Typed, TypeOK
<1>3. job'.kind \in {kind, "score error"} /\ job'.kind \notin {"raised", "unmeasured"}
  BY <1>1 DEF Taken
<1>4. /\ \A q \in PRs \ {p} : tries'[q] = tries[q]
      /\ tries'[p] = IF StillAsFrozen(s) /\ tries[p] <= MaxAttempts THEN tries[p] + 1 ELSE tries[p]
  BY <1>1, <1>2 DEF Taken
<1>5. tries[p] > 0 => IsRetry(s)
  BY <1>2 DEF AnswersAreFinal, Answering
<1>6. \A q \in PRs \ {p} : tries'[q] > 0 => Settled(q)'
  BY <1>2, <1>4, SettledSame DEF AnswersAreFinal
<1>7. \A t \in queue' : t.pr \in PRs \ {p}
  <2>1. \A t \in queue : t.pr \in PRs
    BY DEF PaidInv, Typed, TypeOK, SnapshotShape
  <2> QED
    BY <1>2, <2>1 DEF PaidInv, PaidFacts, HandsApart
<1>8. \A t \in queue' : tries'[t.pr] > 0 => IsRetry(t)'
  BY <1>2, <1>4, <1>7, RetrySame DEF AnswersAreFinal, Answering
<1>9. ASSUME tries'[p] > 0
      PROVE  IsCounted(p)'
  <2>1. /\ tries[p] \in Nat /\ MaxAttempts \in Nat /\ 0 < MaxAttempts
        /\ record[p] # None => record[p].attempts \in Nat
    <3>1. record[p] # None => record[p] \in RecordShape
      BY DEF PaidInv, Typed, TypeOK
    <3> QED
      BY <1>2, <3>1, RoundAssumption DEF RecordShape
  <2>2. StillAsFrozen(s)
    BY <1>4, <1>5, <1>9, <2>1 DEF IsRetry
  <2>3. tries'[p] <= tries[p] + 1 /\ tries'[p] \in Nat
    BY <1>4, <2>1
  <2>4. tries'[p] <= MaxAttempts
    BY <1>5, <2>1, <2>3 DEF IsRetry
  <2>5. tries'[p] > 1 =>
            /\ record[p] # None /\ record[p].head = s.head
            /\ record[p].outcome = "EVAL_ERROR"
            /\ tries'[p] <= record[p].attempts + 1
    BY <1>5, <2>1, <2>3 DEF IsRetry
  <2>6. s.head = gh[p].head /\ s.body = gh[p].body /\ s.cleared = gh[p].labels \cap Clearances
    BY <2>2 DEF StillAsFrozen
  <2>7. MayAnswer(job'.kind, gh[p].labels)
    BY <1>2, <1>3, <2>6 DEF MayAnswer, Clearances
  <2> QED
    BY <1>2, <1>3, <2>4, <2>5, <2>6, <2>7 DEF IsCounted, MayAnswer
<1> QED
  BY <1>2, <1>6, <1>8, <1>9 DEF AnswersAreFinal

\* The label, with nothing failing, and the comment.
LEMMA AttemptsJob ==
    ASSUME PaidInv, AnswersAreFinal, \A f : ~Fault(f),
           Label \/ LabelRaises \/ Comment \/ CloseFails \/ CommentRaises
    PROVE  AnswersAreFinal'
<1>1. /\ job' = job /\ job # None /\ (pc = "label" => Label) /\ job \in JobShape
      /\ pc \in {"label", "comment"} /\ pc' \in {"comment", "record"}
      /\ UNCHANGED <<record, todo, queue, tries>> /\ gh \in [PRs -> PRShape]
  <2>1. ~LabelRaises /\ ~CommentRaises
    BY DEF LabelRaises, LabelFails, CommentRaises
  <2> QED
    BY <2>1, JobSteps DEF PaidInv, Typed, TypeOK
<1> PICK p \in PRs : p = job.pr
  BY <1>1 DEF JobShape
<1> DEFINE new == LabelOf(job.kind, job.gain)
<1>2. /\ \A q \in PRs : gh'[q].head = gh[q].head /\ gh'[q].body = gh[q].body
      /\ \A q \in PRs \ {p} : gh'[q].labels = gh[q].labels
      /\ gh'[p].labels \cap Clearances = gh[p].labels \cap Clearances
      /\ pc = "label" => gh'[p].labels \cap Burnish = {new}
      /\ pc = "comment" => gh'[p].labels = gh[p].labels
  <2>1. CASE pc = "label"
    <3>1. new \in Burnish /\ Replaces(p, new)
      BY <1>1, <2>1, JobSteps
    <3>2. Burnish \cap Clearances = {}
      BY DEF Burnish, Clearances, NotMeasuredKinds
    <3> QED
      BY <1>1, <2>1, <3>1, <3>2 DEF Replaces, Sets, OnlyLabels, Relabelled
  <2>2. CASE pc = "comment"
    BY <1>1, <2>2, JobSteps
  <2> QED
    BY <1>1, <2>1, <2>2
<1>3. \A q \in PRs \ {p} : tries'[q] > 0 => Settled(q)'
  BY <1>1, <1>2, SettledSame DEF AnswersAreFinal
<1>4. \A t \in queue : tries[t.pr] > 0 => IsRetry(t)'
  <2>1. \A t \in queue : t.pr \in PRs \ {p}
    <3>1. \A t \in queue : t.pr \in PRs
      BY DEF PaidInv, Typed, TypeOK, SnapshotShape
    <3> QED
      BY <1>1, <3>1 DEF PaidInv, PaidFacts, HandsApart
  <2>2. \A t \in queue : tries[t.pr] > 0 => IsRetry(t)
    BY <1>1 DEF AnswersAreFinal, Answering
  <2> QED
    BY <1>1, <1>2, <2>1, <2>2 DEF IsRetry, StillAsFrozen
<1>5. tries[p] > 0 => IsCounted(p)'
  <2> SUFFICES ASSUME tries[p] > 0
               PROVE  IsCounted(p)'
    OBVIOUS
  <2>1. IsCounted(p)
    BY <1>1 DEF AnswersAreFinal
  <2>2. MayAnswer(job.kind, gh'[p].labels)
    <3>1. Clearances = {"copycat-cleared", "reregistration-cleared"}
      BY DEF Clearances
    <3> QED
      BY <1>2, <2>1, <3>1 DEF IsCounted, MayAnswer
  <2>3. gh'[p].labels \cap Burnish = {new}
    BY <1>1, <1>2, <2>1 DEF IsCounted
  <2> QED
    BY <1>1, <1>2, <2>1, <2>2, <2>3 DEF IsCounted, MayAnswer, LabelOf
<1> QED
  BY <1>1, <1>3, <1>4, <1>5 DEF AnswersAreFinal

\* What is recorded is settled.
LEMMA AttemptsRecord ==
    ASSUME PaidInv, AnswersAreFinal, Record
    PROVE  AnswersAreFinal'
<1>1. /\ UNCHANGED <<gh, queue, todo, tries>> /\ job # None /\ job \in JobShape /\ job' = None
      /\ pc = "record" /\ record \in [PRs -> RecordShape \cup {None}]
      /\ tries \in [PRs -> 0 .. MaxAttempts + 1]
  BY DEF Record, github, PaidInv, Typed, TypeOK
<1> PICK p \in PRs : p = job.pr
  BY <1>1 DEF JobShape
<1> DEFINE new == [head |-> job.head, body |-> job.body, outcome |-> OutcomeOf(job.kind),
                   attempts |-> IF Attempts(job) > MaxAttempts THEN MaxAttempts + 1
                                                               ELSE Attempts(job)]
<1>2. record' = [record EXCEPT ![p] = new]
  BY DEF Record
<1>3. record'[p] = new /\ \A q \in PRs \ {p} : record'[q] = record[q]
  BY <1>1, <1>2
<1>4. record'[p] # None
  <2>1. OutcomeOf(job.kind) \in Outcomes
    BY <1>1 DEF OutcomeOf, Outcomes, JobShape
  <2>2. Attempts(job) \in Nat /\ MaxAttempts \in Nat
    <3>1. record[p] # None => record[p] \in RecordShape
      BY <1>1
    <3>2. record[p] # None => record[p].attempts \in Nat
      BY <3>1, RoundAssumption DEF RecordShape
    <3> QED
      BY <3>2, RoundAssumption DEF Attempts
  <2>3. (IF Attempts(job) > MaxAttempts THEN MaxAttempts + 1 ELSE Attempts(job))
          \in 0 .. MaxAttempts + 1
    BY <2>2
  <2>4. new \in RecordShape
    BY <1>1, <2>1, <2>3 DEF RecordShape, JobShape
  <2> QED
    BY <1>3, <2>4, NoneAssumption
<1>5. \A q \in PRs \ {p} : tries'[q] > 0 => Settled(q)'
  BY <1>1, <1>3, SettledSame DEF AnswersAreFinal
<1>6. ASSUME tries[p] > 0
      PROVE  Settled(p)'
  <2>1. /\ job.head = gh[p].head /\ job.body = gh[p].body /\ tries[p] <= MaxAttempts
        /\ tries[p] > 1 =>
            /\ record[p] # None /\ record[p].head = job.head
            /\ record[p].outcome = "EVAL_ERROR" /\ tries[p] <= record[p].attempts + 1
        /\ MayAnswer(job.kind, gh[p].labels) /\ job.kind \notin {"raised", "unmeasured"}
        /\ gh[p].labels \cap Burnish = {LabelOf(job.kind, job.gain)}
    BY <1>1, <1>6 DEF AnswersAreFinal, IsCounted
  <2>2. job.kind \in Kinds \cup {"score error"} /\ job.kind \in AllKinds \cup {"score error"}
    BY <1>1, <2>1, RoundAssumption DEF JobShape
  <2>3. \A l \in Burnish : l \in gh[p].labels <=> l = LabelOf(job.kind, job.gain)
    BY <2>1
  <2>4. {"eval-error", "copycat", "blocked", "copycat-review", "reregistered"} \subseteq Burnish
    BY DEF Burnish, NotMeasuredKinds
  <2>5. "eval-error" \in gh[p].labels => new.outcome = "EVAL_ERROR" /\ tries[p] <= new.attempts
    <3> SUFFICES ASSUME "eval-error" \in gh[p].labels
                 PROVE  new.outcome = "EVAL_ERROR" /\ tries[p] <= new.attempts
      OBVIOUS
    <3>1. LabelOf(job.kind, job.gain) = "eval-error"
      BY <2>3, <2>4
    <3>2. job.kind \in {"guard error", "score error"}
      BY <2>1, <2>2, <3>1 DEF LabelOf, AllKinds, NotMeasuredKinds
    <3>3. OutcomeOf(job.kind) = "EVAL_ERROR"
      BY <3>2 DEF OutcomeOf
    <3>4. /\ tries[p] \in Nat /\ MaxAttempts \in Nat
          /\ record[p] # None => record[p].attempts \in Nat
      <4>1. record[p] # None => record[p] \in RecordShape
        BY <1>1
      <4> QED
        BY <1>1, <4>1, RoundAssumption DEF RecordShape
    <3>5. Attempts(job) \in Nat /\ tries[p] <= Attempts(job)
      BY <2>1, <3>3, <3>4 DEF Attempts
    <3> QED
      BY <2>1, <3>3, <3>4, <3>5
  <2>6. gh[p].labels \cap {"copycat", "blocked", "copycat-review"} # {} => ~Cleared(p)
    <3>1. gh[p].labels \cap {"copycat", "blocked", "copycat-review"} # {} =>
            LabelOf(job.kind, job.gain) \in {"copycat", "blocked", "copycat-review"}
      BY <2>3, <2>4
    <3>2. LabelOf(job.kind, job.gain) \in {"copycat", "blocked", "copycat-review"} =>
            job.kind \in {"copycat", "blocked", "review"}
      BY <2>2 DEF LabelOf, AllKinds, NotMeasuredKinds
    <3> QED
      BY <2>1, <3>1, <3>2 DEF MayAnswer, Cleared
  <2>7. "reregistered" \in gh[p].labels => "reregistration-cleared" \notin gh[p].labels
    <3>1. "reregistered" \in gh[p].labels => LabelOf(job.kind, job.gain) = "reregistered"
      BY <2>3, <2>4
    <3>2. LabelOf(job.kind, job.gain) = "reregistered" => job.kind = "reregistered"
      BY <2>2 DEF LabelOf, AllKinds, NotMeasuredKinds
    <3> QED
      BY <2>1, <3>1, <3>2 DEF MayAnswer
  <2> QED
    BY <1>1, <1>3, <1>4, <2>1, <2>5, <2>6, <2>7 DEF Settled, Cleared
<1>7. pc' \in Answering => \A t \in queue : tries[t.pr] > 0 => IsRetry(t)'
  <2>1. \A t \in queue : t.pr \in PRs \ {p}
    <3>1. \A t \in queue : t.pr \in PRs
      BY DEF PaidInv, Typed, TypeOK, SnapshotShape
    <3> QED
      BY <1>1, <3>1 DEF PaidInv, PaidFacts, HandsApart
  <2> QED
    BY <1>1, <1>3, <2>1, RetrySame DEF AnswersAreFinal, Answering
<1> QED
  BY <1>1, <1>5, <1>6, <1>7 DEF AnswersAreFinal

\* The winner's labels can only gain merge-first.
LEMMA AttemptsWinner ==
    ASSUME PaidInv, AnswersAreFinal, NEW w \in DOMAIN results,
           MergeWinner(w) \/ MergeFails(w) \/ LabelWinner(w)
    PROVE  AnswersAreFinal'
<1>1. /\ job = None /\ job' = None /\ pc' = "rebase" /\ todo' = Losers(results, w)
      /\ UNCHANGED <<record, tries>>
      /\ \A q \in PRs : /\ gh'[q].head = gh[q].head /\ gh'[q].body = gh[q].body
                        /\ q # results[w].pr => gh'[q] = gh[q]
                        /\ gh'[q].labels \subseteq gh[q].labels \cup {"merge-first"}
                        /\ gh[q].labels \subseteq gh'[q].labels
  BY WinnerSteps
<1>2. ASSUME NEW q \in PRs, tries[q] > 0
      PROVE  Settled(q)'
  <2>1. Settled(q)
    BY <1>1, <1>2 DEF AnswersAreFinal
  <2>2. \A l \in {"eval-error", "copycat", "blocked", "copycat-review", "reregistered",
                  "copycat-cleared", "reregistration-cleared"} :
            l \in gh'[q].labels <=> l \in gh[q].labels
    BY <1>1
  <2>3. gh'[q].labels \cap Burnish # {}
    BY <1>1, <2>1 DEF Settled
  <2> QED
    BY <1>1, <2>1, <2>2, <2>3 DEF Settled, Cleared
<1> QED
  BY <1>1, <1>2 DEF AnswersAreFinal, Answering, Losers

\* Who changes a pull request starts its count anew.
LEMMA AttemptsOthers ==
    ASSUME PaidInv, AnswersAreFinal, Others
    PROVE  AnswersAreFinal'
<1>1. PICK p \in PRs : OtherOf(p)
  BY OthersSteps DEF PaidInv
<1>2. /\ UNCHANGED <<record, pc, todo, queue, job>>
      /\ \A q \in PRs : tries'[q] > 0 =>
            /\ gh'[q].head = gh[q].head /\ gh'[q].body = gh[q].body
            /\ gh'[q].labels = gh[q].labels /\ tries'[q] = tries[q]
  BY <1>1 DEF OtherOf
<1>3. /\ job # None => job.pr \in PRs
      /\ \A s \in queue : s.pr \in PRs
  BY DEF PaidInv, Typed, TypeOK, JobShape, SnapshotShape
<1>4. \A q \in PRs : tries'[q] > 0 /\ (job # None => q # job.pr) => Settled(q)'
  BY <1>2, SettledSame DEF AnswersAreFinal
<1>5. pc \in Answering => \A s \in queue : tries'[s.pr] > 0 => IsRetry(s)'
  BY <1>2, <1>3 DEF AnswersAreFinal, IsRetry, StillAsFrozen
<1>6. ASSUME job # None, NEW q \in PRs, q = job.pr, tries'[q] > 0
      PROVE  IsCounted(q)'
  <2>1. IsCounted(q)
    BY <1>2, <1>6 DEF AnswersAreFinal
  <2> QED
    BY <1>2, <1>6, <2>1 DEF IsCounted, MayAnswer, LabelOf
<1> QED
  BY <1>2, <1>3, <1>4, <1>5, <1>6 DEF AnswersAreFinal

LEMMA AttemptsStep ==
    ASSUME AttemptsInv, [Next]_vars, Kinds \cap {"raised", "unmeasured"} = {}
    PROVE  AttemptsInv'
<1>1. PaidInv /\ PaidInv'
  BY PaidStep DEF AttemptsInv
<1> SUFFICES ASSUME faults' = 0
             PROVE  AnswersAreFinal'
  BY <1>1 DEF AttemptsInv
<1>2. AnswersAreFinal /\ \A f : ~Fault(f)
  BY <1>1, FaultsGrow DEF AttemptsInv, PaidInv
<1>3. CASE UNCHANGED vars
  <2>1. UNCHANGED <<gh, record, pc, todo, queue, job, tries>>
    BY <1>3 DEF vars, github, disk, round
  <2>2. \A q \in PRs : tries[q] > 0 /\ (job # None => q # job.pr) => Settled(q)'
    BY <1>2, <2>1, SettledSame DEF AnswersAreFinal
  <2>3. pc \in Answering => \A s \in queue : tries[s.pr] > 0 => IsRetry(s)'
    BY <1>2, <2>1, RetrySame DEF AnswersAreFinal
  <2>4. job # None => (tries[job.pr] > 0 => IsCounted(job.pr)')
    BY <1>2, <2>1 DEF AnswersAreFinal, IsCounted, MayAnswer, LabelOf
  <2> QED
    BY <1>2, <2>1, <2>2, <2>3, <2>4 DEF AnswersAreFinal
<1>4. ASSUME NEW kind \in Kinds, NEW gain \in Gain, Take(kind, gain)
      PROVE  AnswersAreFinal'
  BY <1>1, <1>2, <1>4, AttemptsTake
<1>5. ASSUME NEW w \in DOMAIN results, MergeWinner(w) \/ MergeFails(w) \/ LabelWinner(w)
      PROVE  AnswersAreFinal'
  BY <1>1, <1>2, <1>5, AttemptsWinner
<1> QED
  BY <1>1, <1>2, <1>3, <1>4, <1>5, AttemptsRequest, AttemptsQuiet, AttemptsJob, AttemptsRecord,
     AttemptsOthers
     DEF Next, RoundStep, Gain

\* As long as nothing has failed, a pull request nobody changes or clears is
\* evaluated at most MAX_ATTEMPTS times, through holds, releases, rebases and
\* merges.  An answer that raises sets no label and one that is unmeasured is not
\* counted, and both are repeated in every round (MCRound_timeouts,
\* MCRound_unmeasured).
THEOREM AttemptsAreBounded ==
    ASSUME Kinds \cap {"raised", "unmeasured"} = {}
    PROVE  Spec => [](faults = 0 => EvaluationsAreBounded)
<1>1. Init => AttemptsInv
  BY TypedInit, PaidInit DEF Init, AttemptsInv, PaidInv, AnswersAreFinal, Answering
<1>2. AttemptsInv /\ [Next]_vars => AttemptsInv'
  BY AttemptsStep
<1>3. AttemptsInv => (faults = 0 => EvaluationsAreBounded)
  <2> SUFFICES ASSUME PaidInv, AnswersAreFinal, NEW p \in PRs, tries[p] > 0
               PROVE  tries[p] <= MaxAttempts
    <3>1. ASSUME PaidInv, NEW p \in PRs, ~(tries[p] > 0)
          PROVE  tries[p] <= MaxAttempts
      <4>1. tries[p] \in 0 .. MaxAttempts + 1
        BY <3>1 DEF PaidInv, Typed, TypeOK
      <4> QED
        BY <3>1, <4>1, RoundAssumption
    <3> QED
      BY <3>1 DEF AttemptsInv, EvaluationsAreBounded
  <2> QED
    BY DEF AnswersAreFinal, Settled, IsCounted
<1> QED
  BY <1>1, <1>2, <1>3, PTL DEF Spec

=============================================================================
