-------------------------------- MODULE Round --------------------------------
(***************************************************************************)
(* One evaluator running rounds over the pull requests of a repository      *)
(* (eval/round.py and eval/pr_bot.py): it puts the ledger's holds on the    *)
(* labels, freezes the heads of the pull requests that are due, answers     *)
(* them oldest first until its slots are spent, merges at most one, and     *)
(* sends the other gains back for a rebase.  Meanwhile contributors push    *)
(* and edit, maintainers clear and merge, and other cards dispute receipts. *)
(*                                                                          *)
(* A pull request's number is its place in the queue (createdAt).  A        *)
(* commit is a number too, the description likewise.  What the guards, the  *)
(* build and the benchmark answer is chosen from Kinds.  A call to GitHub   *)
(* is one step; what set_label leaves behind when one of its requests fails *)
(* is among the outcomes of SetLabel and LabelFails.                        *)
(***************************************************************************)
EXTENDS Integers, Sequences, FiniteSets

CONSTANTS
    NPRs,           \* pull requests
    MaxHeads,       \* bound: commits pushed to one pull request
    MaxBodies,      \* bound: descriptions of one pull request
    Slots,          \* --slots
    AutoMerge,      \* --merge
    MaxAttempts,    \* MAX_ATTEMPTS of pr_bot.py
    Gains,          \* what a run may be found to pay, in units of gap closed
    Kinds,          \* the answers an evaluation may come to, a subset of AllKinds
    World,          \* what others do meanwhile, a subset of AllWorld
    Faults,         \* what may go wrong, a subset of AllFaults
    MaxFaults,      \* bound: how often it does, over a behaviour
    MaxDisputes,    \* bound: counter-receipts that change a receipt's standing
    None            \* no record, no receipt, no evaluation under way

PRs == 1 .. NPRs

NotMeasuredKinds == {"blocked", "copycat", "skipped-instrument", "reregistered",
                     "no-candidate"}
AllKinds == NotMeasuredKinds \cup
            {"guard error", "build-fail", "cell-opened", "unmeasured", "partial",
             "score error", "scored", "review", "raised"}
AllWorld == {"push", "edit", "close", "clear", "dispute", "merge"}
\* "delete" is a DELETE of a label that GitHub refuses, "api" another request
\* that fails or any that times out, "conflict" a merge that does not go through,
\* "crash" the death of the round, as after an exception nobody catches.
AllFaults == {"api", "delete", "conflict", "crash"}

ASSUME RoundAssumption ==
    /\ NPRs \in Nat \ {0} /\ MaxHeads \in Nat \ {0} /\ MaxBodies \in Nat \ {0}
    /\ Slots \in Nat \ {0} /\ MaxAttempts \in Nat \ {0}
    /\ MaxFaults \in Nat /\ MaxDisputes \in Nat
    /\ AutoMerge \in BOOLEAN
    /\ Gains \subseteq Nat
    /\ Kinds \subseteq AllKinds /\ World \subseteq AllWorld /\ Faults \subseteq AllFaults

\* The labels of the burnish: namespace; "gap" is burnish:gap+N.NNNN and
\* "unpaid" any label of a measured status that pays nothing.
Burnish == NotMeasuredKinds \cup
           {"eval-error", "build-fail", "cell-opened", "partial", "gap", "unpaid",
            "copycat-review", "needs-rebase", "merge-first", "held"}
Clearances == {"copycat-cleared", "reregistration-cleared"}

VARIABLES
    gh,             \* GitHub: open, merged, head, body and labels of each PR
    record,         \* evaluations/pr-N.json, or None
    receipts,       \* receipts/pr-N.json: head, base and gain, or None
    disputed,       \* the receipts the ledger holds
    main,           \* how many merges main has seen
    pc,             \* where the round is
    base,           \* the main this round measures against
    todo,           \* the labels still to set, <<PR, label>>: holds, later rebases
    queue,          \* the frozen pull requests still to be answered
    job,            \* the evaluation under way
    results,        \* what this round has answered
    kept,           \* the old labels the last set_label failed to delete (history)
    faults, disputes,
    tries           \* evaluations of the PR as it is now (history)

github == <<gh, main>>
disk == <<record, receipts>>
round == <<pc, base, todo, queue, job, results>>
world == <<disputed, kept, faults, disputes>>
vars == <<github, disk, round, world, tries>>

Init ==
    /\ gh = [p \in PRs |-> [open |-> TRUE, merged |-> FALSE, head |-> 1, body |-> 1,
                            labels |-> {}]]
    /\ record = [p \in PRs |-> None]
    /\ receipts = [p \in PRs |-> None]
    /\ disputed = {}
    /\ main = 0
    /\ pc = "idle" /\ base = 0 /\ todo = {} /\ queue = {}
    /\ job = None /\ results = <<>>
    /\ kept = [p \in PRs |-> {}]
    /\ faults = 0 /\ disputes = 0
    /\ tries = [p \in PRs |-> 0]

-----------------------------------------------------------------------------
\* Labels

\* Mutant: merge-first is not an outcome, so it stays.
KeepsMergeFirst(labels, new) == (labels \ (Burnish \ {"merge-first"})) \cup {new}

\* set_label: every other burnish: label goes, the new one comes.
Relabelled(labels, new) == (labels \ Burnish) \cup {new}

Fault(f) == f \in Faults /\ faults < MaxFaults /\ faults' = faults + 1

\* The labels set_label finds and is to delete.
Old(p, new) == (gh[p].labels \cap Burnish) \ {new}

\* set_label has found these among them, which its DELETEs have not removed.
Leaves(p, left) == kept' = [kept EXCEPT ![p] = left]

\* Its DELETEs run with check=False: it does not look whether they succeed, and
\* adds the new label beside whatever is left.
Refused(p, new) == IF "delete" \in Faults THEN SUBSET Old(p, new) ELSE {{}}

Relabels(p, new, left) ==
    /\ gh' = [gh EXCEPT ![p].labels = Relabelled(@, new) \cup left]
    /\ Leaves(p, left)

SetLabel(p, new) ==
    \E left \in Refused(p, new) :
        Relabels(p, new, left) /\ (IF left = {} THEN UNCHANGED faults ELSE Fault("delete"))

\* set_label raises: at its GET, when nothing has changed, at a DELETE that times
\* out, when some old labels are gone, or at its POST, after every DELETE.
LabelFails(p, new) ==
    /\ Fault("api")
    /\ \/ UNCHANGED <<gh, kept>>
       \/ \E left \in SUBSET Old(p, new) :
            /\ gh' = [gh EXCEPT ![p].labels = (@ \ Old(p, new)) \cup left]
            /\ Leaves(p, left)

\* The label or its comment raises.
RequestFails(p, new) ==
    \/ LabelFails(p, new)
    \/ Fault("api") /\ \E left \in Refused(p, new) : Relabels(p, new, left)

-----------------------------------------------------------------------------
\* Which pull requests are due

\* Mutant: an evaluator error is retried for as long as it lasts.
RetriesForever(pr, rec) == "eval-error" \in pr.labels

RetriesError(pr, rec) == "eval-error" \in pr.labels /\ rec.attempts < MaxAttempts

\* needs_evaluation
NeedsEvaluation(pr, rec) ==
    LET outcome == pr.labels \cap Burnish IN
    \/ outcome = {}
    \/ /\ outcome \cap {"copycat", "blocked"} # {}
       /\ "copycat-cleared" \in pr.labels
    \/ /\ outcome # {} /\ outcome \cap {"copycat", "blocked"} = {}
       /\ \/ "copycat-review" \in outcome /\ "copycat-cleared" \in pr.labels
          \/ "reregistered" \in outcome /\ "reregistration-cleared" \in pr.labels
          \/ /\ rec # None
             /\ \/ rec.head # pr.head
                \/ "no-candidate" \in outcome /\ rec.body # pr.body
                \/ RetriesError(pr, rec)

\* open_prs_fifo and select: the due ones, as they are now.
Frozen ==
    {[pr |-> p, head |-> gh[p].head, body |-> gh[p].body,
      cleared |-> gh[p].labels \cap Clearances] :
        p \in {q \in PRs : gh[q].open /\ NeedsEvaluation(gh[q], record[q])}}

\* The round answers them in the order of their numbers.
Oldest(s) == s \in queue /\ \A t \in queue : s.pr <= t.pr

-----------------------------------------------------------------------------
\* The round begins: holds, then the frozen queue

\* Mutant: a released hold always gets its gap label back.
AlwaysGap(p) == "gap"

ReceiptLabel(p) == IF receipts[p].gain > 0 THEN "gap" ELSE "unpaid"

\* Mutant: `gh pr list` without --state all.
OpenHeldLabelled == {p \in PRs : gh[p].open /\ "held" \in gh[p].labels}

\* The pull requests labelled held, merged or not.
HeldLabelled == {p \in PRs : "held" \in gh[p].labels}

\* hold_changes: hold what the ledger holds and the label does not say, release
\* what the label says and the ledger does not hold.
HoldChanges ==
    LET known == {p \in PRs : receipts[p] # None}
        hold == (disputed \cap known) \ HeldLabelled
        release == (HeldLabelled \cap known) \ disputed
    IN  {<<p, "held">> : p \in hold} \cup {<<p, ReceiptLabel(p)>> : p \in release}

\* Holds are set before releases, either in the order of their numbers; so are
\* the rebases of a round.
Before(x, y) == IF (x[2] = "held") = (y[2] = "held") THEN x[1] <= y[1] ELSE x[2] = "held"
First(x) == x \in todo /\ \A y \in todo : Before(x, y)

\* Mutant: main is not brought up to date.
StaleStart ==
    /\ pc = "idle"
    /\ base' = 0
    /\ todo' = HoldChanges
    /\ pc' = "sync"
    /\ UNCHANGED <<github, disk, queue, job, results, world, tries>>

\* run_round_cron.sh brings main up to date, the lock is free, sync_holds reads
\* the ledger and the labels.
StartRound ==
    /\ pc = "idle"
    /\ base' = main
    /\ todo' = HoldChanges
    /\ pc' = "sync"
    /\ UNCHANGED <<github, disk, queue, job, results, world, tries>>

\* One hold or release: its label, then its comment.
SyncHold ==
    /\ pc = "sync"
    /\ \E x \in todo : First(x) /\ SetLabel(x[1], x[2]) /\ todo' = todo \ {x}
    /\ UNCHANGED <<main, disk, pc, base, queue, job, results, disputed, disputes, tries>>

\* A request fails; run() reports it and goes on without the other holds.
SyncFails ==
    /\ pc = "sync"
    /\ \E x \in todo : First(x) /\ RequestFails(x[1], x[2])
    /\ todo' = {}
    /\ UNCHANGED <<main, disk, pc, base, queue, job, results, disputed, disputes, tries>>

EndRound ==
    /\ pc' = "idle" /\ base' = 0 /\ todo' = {} /\ queue' = {}
    /\ job' = None /\ results' = <<>>

NothingDue ==
    /\ pc = "sync" /\ todo = {} /\ Frozen = {}
    /\ EndRound
    /\ UNCHANGED <<github, disk, world, tries>>

FreezeQueue ==
    /\ pc = "sync" /\ todo = {} /\ Frozen # {}
    /\ queue' = Frozen
    /\ pc' = "take"
    /\ UNCHANGED <<github, disk, base, todo, job, results, world, tries>>

-----------------------------------------------------------------------------
\* One evaluation

Measured == Cardinality({i \in DOMAIN results : results[i].measured})

\* What a maintainer has cleared the guards do not answer again.
MayAnswer(kind, cleared) ==
    /\ kind \in {"copycat", "blocked", "review"} => "copycat-cleared" \notin cleared
    /\ kind = "reregistered" => "reregistration-cleared" \notin cleared

\* Nobody has touched the pull request since the round froze it (history only).
StillAsFrozen(s) ==
    /\ s.head = gh[s.pr].head /\ s.body = gh[s.pr].body
    /\ s.cleared = gh[s.pr].labels \cap Clearances

Scores(kind) == kind \in {"scored", "review"}

\* A result reaches the ledger only under a new id, and the id is the PR's:
\* append_receipt raises when a receipt is there, and the script fails.
Take(kind, gain) ==
    /\ pc = "take" /\ Measured < Slots
    /\ kind = "review" => gain > 0
    /\ ~Scores(kind) => gain = 0
    /\ \E s \in queue :
        LET refused == Scores(kind) /\ receipts[s.pr] # None
            answer == IF refused THEN "score error" ELSE kind
        IN
        /\ Oldest(s)
        /\ MayAnswer(kind, s.cleared)
        /\ receipts' = IF Scores(answer)
                       THEN [receipts EXCEPT ![s.pr] = [head |-> s.head, base |-> base,
                                                        gain |-> gain]]
                       ELSE receipts
        /\ job' = [pr |-> s.pr, head |-> s.head, body |-> s.body, kind |-> answer,
                    gain |-> IF refused THEN 0 ELSE gain]
        /\ queue' = queue \ {s}
        /\ tries' = [tries EXCEPT ![s.pr] =
                        IF StillAsFrozen(s) /\ @ <= MaxAttempts THEN @ + 1 ELSE @]
    /\ pc' = IF kind = "raised" THEN "record" ELSE "label"
    /\ UNCHANGED <<github, record, base, todo, results, world>>

\* The label _evaluate sets for an answer.
LabelOf(kind, gain) ==
    CASE kind \in {"guard error", "score error", "unmeasured"} -> "eval-error"
      [] kind = "review" -> "copycat-review"
      [] kind = "scored" -> IF gain > 0 THEN "gap" ELSE "unpaid"
      [] OTHER -> kind

Label ==
    /\ pc = "label"
    /\ SetLabel(job.pr, LabelOf(job.kind, job.gain))
    /\ pc' = "comment"
    /\ UNCHANGED <<main, disk, base, todo, queue, job, results, disputed, disputes, tries>>

\* evaluate() catches what _evaluate raises: the outcome is EVAL_ERROR.
LabelRaises ==
    /\ pc = "label"
    /\ LabelFails(job.pr, LabelOf(job.kind, job.gain))
    /\ job' = [job EXCEPT !.kind = "raised"]
    /\ pc' = "record"
    /\ UNCHANGED <<main, disk, base, todo, queue, results, disputed, disputes, tries>>

\* The comment, and for a copy or a blocked account the closing.
Comment ==
    /\ pc = "comment"
    /\ gh' = IF job.kind \in {"copycat", "blocked"}
             THEN [gh EXCEPT ![job.pr].open = FALSE] ELSE gh
    /\ pc' = "record"
    /\ UNCHANGED <<main, disk, base, todo, queue, job, results, world, tries>>

\* close_pr does not raise.
CloseFails ==
    /\ pc = "comment" /\ job.kind \in {"copycat", "blocked"}
    /\ Fault("api")
    /\ pc' = "record"
    /\ UNCHANGED <<github, disk, base, todo, queue, job, results, disputed, kept, disputes,
                   tries>>

CommentRaises ==
    /\ pc = "comment"
    /\ Fault("api")
    /\ job' = [job EXCEPT !.kind = "raised"]
    /\ pc' = "record"
    /\ UNCHANGED <<github, disk, base, todo, queue, results, disputed, kept, disputes,
                   tries>>

\* Mutant: an error is recorded under the name of its cause.
CauseOf(kind) == kind

OutcomeOf(kind) ==
    IF kind \in {"guard error", "score error", "raised"} THEN "EVAL_ERROR" ELSE kind

\* Mutant: every error is the first of its commit.
CountsNothing(j) == IF OutcomeOf(j.kind) = "EVAL_ERROR" THEN 1 ELSE 0

\* Attempts in a row that ended in an evaluator error, for one commit.
Attempts(j) ==
    IF OutcomeOf(j.kind) # "EVAL_ERROR" THEN 0
    ELSE IF record[j.pr] # None /\ record[j.pr].head = j.head
            /\ record[j.pr].outcome = "EVAL_ERROR"
         THEN record[j.pr].attempts + 1
         ELSE 1

\* Mutant: a withheld gain competes for the merge.
PayoutOfAll(j) == j.gain

\* What the round keeps of an answer: a payout only if it was scored.
Payout(j) == IF j.kind = "scored" THEN j.gain ELSE 0

\* record_evaluation, and the end of this evaluation.  The cap on attempts
\* bounds the model: nothing reads them but a comparison with MaxAttempts.
Record ==
    /\ pc = "record"
    /\ record' = [record EXCEPT ![job.pr] =
            [head |-> job.head, body |-> job.body, outcome |-> OutcomeOf(job.kind),
             attempts |-> IF Attempts(job) > MaxAttempts THEN MaxAttempts + 1
                                                         ELSE Attempts(job)]]
    /\ results' = Append(results, [pr |-> job.pr, payout |-> Payout(job),
                                   measured |-> job.kind \notin NotMeasuredKinds])
    /\ job' = None
    /\ pc' = "take"
    /\ UNCHANGED <<github, receipts, base, todo, queue, world, tries>>

-----------------------------------------------------------------------------
\* The winner

Paying(rs) == {i \in DOMAIN rs : rs[i].payout > 0}

\* Mutant: the first that pays wins.
FirstPaying(i, rs) == i \in Paying(rs) /\ \A j \in Paying(rs) : i <= j

\* decide_winner: max() keeps the first of equals.
Winner(i, rs) ==
    /\ i \in Paying(rs)
    /\ \A j \in Paying(rs) :
        rs[j].payout < rs[i].payout \/ (rs[j].payout = rs[i].payout /\ i <= j)

\* Mutant: nobody is sent back.
NoLosers(rs, w) == {}

Losers(rs, w) == {<<rs[i].pr, "needs-rebase">> : i \in Paying(rs) \ {w}}

RoundOver == pc = "take" /\ (queue = {} \/ Measured >= Slots)

NobodyWins ==
    /\ RoundOver /\ Paying(results) = {}
    /\ EndRound
    /\ UNCHANGED <<github, disk, world, tries>>

\* `gh pr merge N`: whatever the head of N is now.
MergePR(p) ==
    /\ gh[p].open
    /\ gh' = [gh EXCEPT ![p].open = FALSE, ![p].merged = TRUE]
    /\ main' = main + 1

ToRebase(w) ==
    /\ todo' = Losers(results, w)
    /\ pc' = "rebase"
    /\ UNCHANGED <<disk, base, queue, job, results, disputed, kept, disputes, tries>>

MergeWinner(w) ==
    /\ RoundOver /\ Winner(w, results) /\ AutoMerge
    /\ MergePR(results[w].pr)
    /\ ToRebase(w)
    /\ UNCHANGED faults

\* The pull request is closed by now, or does not merge cleanly.
MergeFails(w) ==
    /\ RoundOver /\ Winner(w, results) /\ AutoMerge
    /\ (~gh[results[w].pr].open /\ UNCHANGED faults) \/ Fault("conflict")
    /\ ToRebase(w)
    /\ UNCHANGED github

\* Without --merge; add_label does not raise.
LabelWinner(w) ==
    /\ RoundOver /\ Winner(w, results) /\ ~AutoMerge
    /\ \/ /\ gh' = [gh EXCEPT ![results[w].pr].labels = @ \cup {"merge-first"}]
          /\ UNCHANGED faults
       \/ Fault("api") /\ UNCHANGED gh
    /\ ToRebase(w)
    /\ UNCHANGED main

SendBack ==
    /\ pc = "rebase"
    /\ \E x \in todo : First(x) /\ SetLabel(x[1], x[2]) /\ todo' = todo \ {x}
    /\ UNCHANGED <<main, disk, pc, base, queue, job, results, disputed, disputes, tries>>

\* Nothing catches what the label or the comment raises here: the round is over.
SendBackRaises ==
    /\ pc = "rebase"
    /\ \E x \in todo : First(x) /\ RequestFails(x[1], x[2])
    /\ EndRound
    /\ UNCHANGED <<main, disk, disputed, disputes, tries>>

FinishRound ==
    /\ pc = "rebase" /\ todo = {}
    /\ EndRound
    /\ UNCHANGED <<github, disk, world, tries>>

\* The process dies, or a request times out that nothing catches: the merge,
\* the label merge-first.
Crash ==
    /\ pc # "idle"
    /\ Fault("crash")
    /\ EndRound
    /\ UNCHANGED <<github, disk, disputed, kept, disputes, tries>>

-----------------------------------------------------------------------------
\* Everybody else

Changed(p) == tries' = [tries EXCEPT ![p] = 0]

Push(p) ==
    /\ "push" \in World /\ gh[p].open /\ gh[p].head < MaxHeads
    /\ gh' = [gh EXCEPT ![p].head = @ + 1]
    /\ Changed(p)
    /\ UNCHANGED <<main, disk, round, world>>

Edit(p) ==
    /\ "edit" \in World /\ gh[p].open /\ gh[p].body < MaxBodies
    /\ gh' = [gh EXCEPT ![p].body = @ + 1]
    /\ Changed(p)
    /\ UNCHANGED <<main, disk, round, world>>

\* An author, or a maintainer, closes the pull request unmerged.
Close(p) ==
    /\ "close" \in World /\ gh[p].open
    /\ gh' = [gh EXCEPT ![p].open = FALSE]
    /\ UNCHANGED <<main, disk, round, world, tries>>

\* A maintainer clears a copy (reopening it), a review or a re-registration.
Clear(p, clearance) ==
    /\ "clear" \in World /\ ~gh[p].merged /\ clearance \notin gh[p].labels
    /\ gh[p].labels \cap (IF clearance = "copycat-cleared"
                          THEN {"copycat", "blocked", "copycat-review"}
                          ELSE {"reregistered"}) # {}
    /\ gh' = [gh EXCEPT ![p].labels = @ \cup {clearance}, ![p].open = TRUE]
    /\ Changed(p)
    /\ UNCHANGED <<main, disk, round, world>>

\* The challenges against a receipt come to outnumber its confirmations, or
\* cease to (Held of LedgerRules).
Challenge(p) ==
    /\ "dispute" \in World /\ receipts[p] # None /\ disputes < MaxDisputes
    /\ disputed' = IF p \in disputed THEN disputed \ {p} ELSE disputed \cup {p}
    /\ disputes' = disputes + 1
    /\ UNCHANGED <<github, disk, round, kept, faults, tries>>

\* Without --merge a person merges the winner.
PersonMerges(p) ==
    /\ "merge" \in World /\ ~AutoMerge /\ "merge-first" \in gh[p].labels
    /\ MergePR(p)
    /\ UNCHANGED <<disk, round, world, tries>>

-----------------------------------------------------------------------------

RoundStep ==
    \/ StartRound \/ SyncHold \/ SyncFails \/ NothingDue \/ FreezeQueue
    \/ \E kind \in Kinds, gain \in Gains \cup {0} : Take(kind, gain)
    \/ Label \/ LabelRaises \/ Comment \/ CloseFails \/ CommentRaises \/ Record
    \/ NobodyWins \/ \E w \in DOMAIN results : MergeWinner(w) \/ MergeFails(w) \/ LabelWinner(w)
    \/ SendBack \/ SendBackRaises \/ FinishRound

Others ==
    \E p \in PRs :
        \/ Push(p) \/ Edit(p) \/ Close(p) \/ Challenge(p) \/ PersonMerges(p)
        \/ \E c \in Clearances : Clear(p, c)

Next == RoundStep \/ Crash \/ Others

Spec == Init /\ [][Next]_vars

\* Cron starts a round every two hours and a round that runs goes on.  Nothing
\* is asked of contributors, maintainers and challengers.
FairSpec == Spec /\ WF_vars(RoundStep)

-----------------------------------------------------------------------------
\* Properties

Labels == Burnish \cup Clearances
Outcomes == (Kinds \ {"guard error", "score error", "raised"}) \cup {"EVAL_ERROR"}
Gain == Gains \cup {0}

Heads == 1 .. MaxHeads
Bodies == 1 .. MaxBodies

PRShape == [open : BOOLEAN, merged : BOOLEAN, head : Heads, body : Bodies,
            labels : SUBSET Labels]
RecordShape == [head : Heads, body : Bodies, outcome : Outcomes,
                attempts : 0 .. MaxAttempts + 1]
ReceiptShape == [head : Heads, base : Nat, gain : Gain]
SnapshotShape == [pr : PRs, head : Heads, body : Bodies, cleared : SUBSET Clearances]
JobShape == [pr : PRs, head : Heads, body : Bodies,
             kind : Kinds \cup {"score error", "raised"}, gain : Gain]
ResultShape == [pr : PRs, measured : BOOLEAN, payout : Gain]

ASSUME NoneAssumption == None \notin RecordShape \cup ReceiptShape \cup JobShape

\* The state of GitHub, of the disk and of the round has the shape above, and
\* an evaluation is under way exactly where the round needs one.
TypeOK ==
    /\ gh \in [PRs -> PRShape]
    /\ record \in [PRs -> RecordShape \cup {None}]
    /\ receipts \in [PRs -> ReceiptShape \cup {None}]
    /\ disputed \subseteq PRs
    /\ kept \in [PRs -> SUBSET Burnish]
    /\ main \in Nat /\ base \in Nat
    /\ pc \in {"idle", "sync", "take", "label", "comment", "record", "rebase"}
    /\ todo \subseteq PRs \X Burnish
    /\ queue \subseteq SnapshotShape
    /\ job \in JobShape \cup {None}
    /\ results \in Seq(ResultShape)
    /\ faults \in 0 .. MaxFaults /\ disputes \in 0 .. MaxDisputes
    /\ tries \in [PRs -> 0 .. MaxAttempts + 1]
    /\ job # None <=> pc \in {"label", "comment", "record"}

Paid(p) == "gap" \in gh[p].labels
Cleared(p) == "copycat-cleared" \in gh[p].labels

\* "At most one submission per round can be credited against a known baseline"
\* (round.py): with --merge and nothing failing, the paid labels of two pull
\* requests are always against different baselines once the round is over.
OneCreditPerBaseline ==
    pc = "idle" /\ faults = 0 =>
        \A p, q \in PRs : p # q /\ Paid(p) /\ Paid(q) => receipts[p].base # receipts[q].base

\* The same for merges alone, whatever fails, is closed or disputed: two merged pull
\* requests that carry paid labels were measured against different baselines.
NoDoublePay ==
    \A p, q \in PRs : p # q /\ gh[p].merged /\ gh[q].merged /\ Paid(p) /\ Paid(q) =>
        receipts[p].base # receipts[q].base

\* What a round merges carries a paid label, and no pull request the round
\* answered carries a larger one ("the largest credited gain", docs/EVAL.md).
MergesTheBest ==
    [][\A p \in PRs : ~gh[p].merged /\ gh'[p].merged =>
        /\ Paid(p)
        /\ \A i \in DOMAIN results :
            Paid(results[i].pr) => receipts[results[i].pr].gain <= receipts[p].gain]_vars

\* A pull request nobody changes or clears is evaluated at most MAX_ATTEMPTS
\* times: an answer is final, an evaluator error is retried twice.
EvaluationsAreBounded == \A p \in PRs : tries[p] <= MaxAttempts

\* A gain under copycat review is neither paid nor merged until a maintainer
\* clears it (docs/EVAL.md, verdict.py).
ReviewIsWithheld ==
    \A p \in PRs : record[p] # None /\ record[p].outcome = "review" /\ ~Cleared(p) =>
        ~Paid(p) /\ ~gh[p].merged

\* A paid label always has a receipt in the ledger that pays, whatever fails.
PaidHasReceipt == \A p \in PRs : Paid(p) => receipts[p] # None /\ receipts[p].gain > 0

\* merge-first stands beside the paid label and goes with it (verdict.py), so
\* a person who merges by it merges a paid result, whatever fails: it stands
\* alone only where set_label was to delete it and its DELETE failed.
MergeFirstIsPaid == \A p \in PRs : "merge-first" \in gh[p].labels \ kept[p] => Paid(p)

\* "Measured again after a new commit, whatever the label": once contributors
\* stop pushing, every open pull request gets an answer for its last commit, or
\* waits for a maintainer as a copy.  No pull request starves the others.
EveryHeadIsAnswered ==
    <>[](\A p \in PRs : gh[p].open =>
            \/ record[p] # None /\ record[p].head = gh[p].head
            \/ gh[p].labels \cap {"copycat", "blocked"} # {})

\* "Holds reach the label" (docs/EVAL.md), of open and merged pull requests
\* alike, and so do releases: whatever fails, a disputed credit ends up labelled
\* held, and its paid label stands beside it only where the DELETE of that label
\* failed.  A credit no longer disputed does not stay held.
HoldsReachLabels ==
    \A p \in PRs :
        /\ <>[](p \in disputed) => <>[]("held" \in gh[p].labels
                                        /\ (Paid(p) => "gap" \in kept[p]))
        /\ <>[](p \notin disputed) => <>[]("held" \notin gh[p].labels)

\* The merge takes the commit that was measured: "later pushes cannot reach
\* the measurement", and "merged means scored".
MergedHeadWasMeasured ==
    \A p \in PRs : gh[p].merged => receipts[p] # None /\ receipts[p].head = gh[p].head

\* "A held credit REPLACES the paid label with `burnish:held`" (round.py,
\* sync_holds).
HeldReplacesPaid == \A p \in PRs : "held" \in gh[p].labels => ~Paid(p)

\* When every benchmark succeeds, every answer is a score.
EveryAnswerIsAScore == \A p \in PRs : record[p] # None => record[p].outcome = "scored"

\* "Clearing it has the submission measured again and paid like any other"
\* (verdict.py): it does not end in an evaluator error.
ClearanceIsHonoured == \A p \in PRs : Cleared(p) => "eval-error" \notin gh[p].labels

=============================================================================
