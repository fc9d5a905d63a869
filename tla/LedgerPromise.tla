---------------------------- MODULE LedgerPromise ----------------------------
(***************************************************************************)
(* What the ledger promises a reader, with files, processes and crashes     *)
(* left out (eval/burnscore/ledger.py, module docstring): a finalized       *)
(* receipt and a filed challenge stay as they are for ever, a challenge is  *)
(* independent evidence about a receipt that is there, and the published    *)
(* totals, whenever they can be read, are the totals of records the ledger  *)
(* really holds, possibly of fewer than it holds by now.                    *)
(***************************************************************************)
EXTENDS LedgerRules

VARIABLES record, evidence, totals

vars == <<record, evidence, totals>>

Init ==
    /\ record = NoReceipts
    /\ evidence = NoChallenges
    /\ totals = Absent

Finalize(r) ==
    /\ Verified(r)
    /\ record[r.id] = Absent
    /\ record' = [record EXCEPT ![r.id] = r]
    /\ UNCHANGED <<evidence, totals>>

Challenge(c) ==
    /\ c.id \in Filed(record)
    /\ MayChallenge(record[c.id], c)
    /\ evidence[c.id][c.box] = Absent
    /\ evidence' = [evidence EXCEPT ![c.id][c.box] = c]
    /\ UNCHANGED <<record, totals>>


KnownRecords == {[i \in Ids |-> IF i \in K THEN record[i] ELSE Absent] :
                    K \in SUBSET Filed(record)}
KnownEvidence == {[i \in Ids |-> [b \in Boxes |-> IF <<i, b>> \in K THEN evidence[i][b]
                                                                  ELSE Absent]] :
                    K \in SUBSET {p \in Ids \X Boxes : evidence[p[1]][p[2]] # Absent}}

Publish ==
    /\ \E rs \in KnownRecords, cs \in KnownEvidence : totals' = Totals(rs, cs)
    /\ UNCHANGED <<record, evidence>>

Unreadable ==
    /\ totals' = Torn
    /\ UNCHANGED <<record, evidence>>

Next ==
    \/ \E r \in Receipts : Finalize(r)
    \/ \E c \in Counters : Challenge(c)
    \/ Publish
    \/ Unreadable

Spec == Init /\ [][Next]_vars

=============================================================================
