---------------------------- MODULE ReceiptPromise ----------------------------
(***************************************************************************)
(* What the measuring of pull requests promises, with guards, stages,       *)
(* processes, caches, locks and faults left out (eval/pr_bot.py,            *)
(* eval/score_submission.sh, eval/publish_ledger.py): a pull request that   *)
(* deserves one gets one whole receipt, which never changes; what was       *)
(* published is never taken back; and a box that is lost takes with it the  *)
(* receipts nobody else has seen and no other.                              *)
(***************************************************************************)
EXTENDS Integers

CONSTANTS
    PRs,
    Pairs               \* pairs of runs, base and candidate, behind a receipt

VARIABLES
    worthy,             \* the pull requests that deserve a receipt
    record,             \* the runs behind each receipt, <<>> where there is none
    published           \* the pull requests whose receipt everybody can see

vars == <<worthy, record, published>>

Init ==
    /\ worthy \in SUBSET PRs
    /\ record = [pr \in PRs |-> <<>>]
    /\ published = {}

Filed == {pr \in PRs : record[pr] # <<>>}
Whole == [k \in 1 .. 2 * Pairs |-> IF k % 2 = 1 THEN "base" ELSE "candidate"]

Measure(pr) ==
    /\ pr \in worthy \ Filed
    /\ record' = [record EXCEPT ![pr] = Whole]
    /\ UNCHANGED <<worthy, published>>

Publish ==
    /\ published' \in SUBSET Filed /\ published \subseteq published'
    /\ UNCHANGED <<worthy, record>>

LoseBox ==
    /\ record' = [pr \in PRs |-> IF pr \in published THEN record[pr] ELSE <<>>]
    /\ UNCHANGED <<worthy, published>>

Next == (\E pr \in PRs : Measure(pr)) \/ Publish \/ LoseBox

Spec == Init /\ [][Next]_vars

=============================================================================
