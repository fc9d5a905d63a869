------------------------------ MODULE Publishing ------------------------------
(***************************************************************************)
(* The ledger as a git repository (eval/publish_ledger.py): a round commits *)
(* what the ledger's directory holds and pushes it, without force, to a     *)
(* repository that outlives the rented box; a new box starts from a clone   *)
(* of it (eval/provision_box.sh).  A commit is the set of receipts it has,  *)
(* a history the sequence of its commits.                                   *)
(***************************************************************************)
EXTENDS Integers, Sequences, SequencesExt

CONSTANT PRs            \* the pull requests whose receipts the ledger may hold

VARIABLES
    ledger,             \* the receipts in the ledger's directory
    local,              \* the history of its git repository
    remote              \* the published history

publishing == <<ledger, local, remote>>

PublishingInit == ledger = {} /\ local = <<>> /\ remote = <<>>

Committed(history) == IF history = <<>> THEN {} ELSE Last(history)

\* git add -A; git commit, unless nothing is staged.
Commit ==
    /\ local' = IF Committed(local) = ledger THEN local ELSE Append(local, ledger)
    /\ UNCHANGED <<ledger, remote>>

\* git push, whether or not there was something to commit; refused unless the
\* published history is a beginning of this one.
Push ==
    /\ IsPrefix(remote, local)
    /\ remote' = local
    /\ UNCHANGED <<ledger, local>>

\* Mutant: the ledger starts empty on a new box.
StartOver ==
    /\ ledger' = {}
    /\ local' = <<>>
    /\ UNCHANGED remote

\* provision_box.sh: git clone on a box that has no ledger.
Clone ==
    /\ ledger' = Committed(remote)
    /\ local' = remote
    /\ UNCHANGED remote

-----------------------------------------------------------------------------
\* Everything that was ever published is on the box: a receipt others can see is
\* one its own evaluator knows of and cannot file a second time.
PublishedIsKnown == \A i \in DOMAIN remote : remote[i] \subseteq ledger

=============================================================================
