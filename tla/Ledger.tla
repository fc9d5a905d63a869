------------------------------- MODULE Ledger --------------------------------
(***************************************************************************)
(* The Burnisher Ledger on disk: receipts/<id>.json, challenges/<id>--<box> *)
(* .json and the derived current.json, written by processes that share      *)
(* nothing but the directory (eval/burnscore/ledger.py, challenge.py, and   *)
(* the commands of tools/burnish that call them).                           *)
(*                                                                          *)
(* Path.write_text is two steps, the truncation and the content, and a      *)
(* process may die before either: a file can be read, and can be left, in   *)
(* the state Torn.  A Scorer runs cmd_score's append_receipt and a round's  *)
(* sync_holds, a Filer runs cmd_challenge and `burnish ledger show`.  One   *)
(* process may be both, which is how the model says "never at once".        *)
(***************************************************************************)
EXTENDS LedgerRules

CONSTANTS
    Scorers,        \* the evaluators that write to this ledger
    Filers,         \* the operators that file challenges in it
    MaxCrashes,     \* bound on how many processes die, over a behaviour
    None            \* no receipt in hand, no document computed

Procs == Scorers \cup Filers

ASSUME ProcsAssumption ==
    /\ MaxCrashes \in Nat
    /\ None \notin Receipts \cup Counters

VARIABLES
    receipts,       \* [Ids -> a receipt, Absent or Torn]
    challenges,     \* [Ids -> [Boxes -> a counter-receipt, Absent or Torn]]
    current,        \* current.json: a document, Absent or Torn
    pc,             \* where each process is
    hand,           \* the receipt or counter-receipt it is filing
    doc,            \* the document it has computed and not written
    crashes

vars == <<receipts, challenges, current, pc, hand, doc, crashes>>
files == <<receipts, challenges, current>>

Init ==
    /\ receipts = NoReceipts
    /\ challenges = NoChallenges
    /\ current = Absent
    /\ pc = [p \in Procs |-> "idle"]
    /\ hand = [p \in Procs |-> None]
    /\ doc = [p \in Procs |-> None]
    /\ crashes = 0

Goto(p, label) == pc' = [pc EXCEPT ![p] = label]
Hold(p, r) == hand' = [hand EXCEPT ![p] = r]

\* The process ends, normally or with an exception.
Return(p) ==
    /\ Goto(p, "idle")
    /\ Hold(p, None)
    /\ doc' = [doc EXCEPT ![p] = None]

-----------------------------------------------------------------------------
\* append_receipt

\* Mutant: the existing file is not looked for.
OverwritingAppend(p, r) ==
    /\ pc[p] = "idle"
    /\ Verified(r)
    /\ Goto(p, "open receipt") /\ Hold(p, r)
    /\ UNCHANGED <<files, doc, crashes>>

\* verify_receipt and `if path.exists()`.  When the file is there the call
\* returns it (same digest) or raises (another, or one that cannot be parsed):
\* nothing changes in either case.
AppendReceipt(p, r) ==
    /\ pc[p] = "idle"
    /\ Verified(r)
    /\ receipts[r.id] = Absent
    /\ Goto(p, "open receipt") /\ Hold(p, r)
    /\ UNCHANGED <<files, doc, crashes>>

OpenReceipt(p) ==
    /\ pc[p] = "open receipt"
    /\ receipts' = [receipts EXCEPT ![hand[p].id] = Torn]
    /\ Goto(p, "write receipt")
    /\ UNCHANGED <<challenges, current, hand, doc, crashes>>

WriteReceipt(p) ==
    /\ pc[p] = "write receipt"
    /\ receipts' = [receipts EXCEPT ![hand[p].id] = hand[p]]
    /\ Goto(p, "update")
    /\ UNCHANGED <<challenges, current, hand, doc, crashes>>

-----------------------------------------------------------------------------
\* cmd_challenge: attach, then update_current

\* Mutant: the challenge already filed from this box is not looked for.
OverwritingChallenge(p, c) ==
    /\ pc[p] = "idle"
    /\ c.id \in Filed(receipts)
    /\ MayChallenge(receipts[c.id], c)
    /\ Goto(p, "open challenge") /\ Hold(p, c)
    /\ UNCHANGED <<files, doc, crashes>>

FileChallenge(p, c) ==
    /\ pc[p] = "idle"
    /\ c.id \in Filed(receipts)
    /\ MayChallenge(receipts[c.id], c)
    /\ challenges[c.id][c.box] = Absent
    /\ Goto(p, "open challenge") /\ Hold(p, c)
    /\ UNCHANGED <<files, doc, crashes>>

OpenChallenge(p) ==
    /\ pc[p] = "open challenge"
    /\ challenges' = [challenges EXCEPT ![hand[p].id][hand[p].box] = Torn]
    /\ Goto(p, "write challenge")
    /\ UNCHANGED <<receipts, current, hand, doc, crashes>>

WriteChallenge(p) ==
    /\ pc[p] = "write challenge"
    /\ challenges' = [challenges EXCEPT ![hand[p].id][hand[p].box] = hand[p]]
    /\ Goto(p, "update")
    /\ UNCHANGED <<receipts, current, hand, doc, crashes>>

-----------------------------------------------------------------------------
\* update_current

\* load_receipts raises on a file that does not parse; a challenge is read
\* only for a canonical receipt, and raises too.
TornReceipt == \E i \in Ids : receipts[i] = Torn
TornChallenge == \E i \in Canonical(receipts), b \in Boxes : challenges[i][b] = Torn

UpdateFails(p) ==
    /\ pc[p] = "update"
    /\ TornReceipt \/ TornChallenge
    /\ Return(p)
    /\ UNCHANGED <<files, crashes>>

\* Mutant: the file is opened before the document is computed.
UncomputedCurrent(p) ==
    /\ pc[p] = "update"
    /\ Goto(p, "open current")
    /\ UNCHANGED <<files, hand, doc, crashes>>

ComputeCurrent(p) ==
    /\ pc[p] = "update"
    /\ ~TornReceipt /\ ~TornChallenge
    /\ doc' = [doc EXCEPT ![p] = Totals(receipts, challenges)]
    /\ Goto(p, "open current")
    /\ UNCHANGED <<files, hand, crashes>>

OpenCurrent(p) ==
    /\ pc[p] = "open current"
    /\ current' = Torn
    /\ Goto(p, "write current")
    /\ UNCHANGED <<receipts, challenges, hand, doc, crashes>>

WriteCurrent(p) ==
    /\ pc[p] = "write current"
    /\ current' = doc[p]
    /\ Return(p)
    /\ UNCHANGED <<receipts, challenges, crashes>>

\* Mutant: sync_holds reads what `show` reads, and computes only a missing file.
SyncMissingOnly(p) ==
    /\ pc[p] = "idle"
    /\ current = Absent
    /\ Goto(p, "update")
    /\ UNCHANGED <<files, hand, doc, crashes>>

\* A round begins with sync_holds, which recomputes the totals.
SyncHolds(p) ==
    /\ pc[p] = "idle"
    /\ Goto(p, "update")
    /\ UNCHANGED <<files, hand, doc, crashes>>

\* `burnish ledger show` computes the file when there is none.  It passes no
\* generation, so no challenge is looked at and no credit is held.
Show(p) ==
    /\ pc[p] = "idle"
    /\ current = Absent
    /\ ~TornReceipt
    /\ doc' = [doc EXCEPT ![p] = Totals(receipts, NoChallenges)]
    /\ Goto(p, "open current")
    /\ UNCHANGED <<files, hand, crashes>>

-----------------------------------------------------------------------------

\* The process dies: killed, or the rented box is reclaimed.
Crash(p) ==
    /\ pc[p] # "idle"
    /\ crashes < MaxCrashes
    /\ crashes' = crashes + 1
    /\ Return(p)
    /\ UNCHANGED files

Step(p) ==
    \/ OpenReceipt(p) \/ WriteReceipt(p)
    \/ OpenChallenge(p) \/ WriteChallenge(p)
    \/ UpdateFails(p) \/ ComputeCurrent(p)
    \/ OpenCurrent(p) \/ WriteCurrent(p)

Next ==
    \/ \E p \in Scorers : SyncHolds(p) \/ (\E r \in Receipts : AppendReceipt(p, r))
    \/ \E p \in Filers : Show(p) \/ (\E c \in Counters : FileChallenge(p, c))
    \/ \E p \in Procs : Step(p) \/ Crash(p)

Spec == Init /\ [][Next]_vars

\* A process that has begun goes on (it is one Python call), and cron starts a
\* round, hence a sync_holds, for ever.  Nobody has to file anything.
FairSpec ==
    /\ Spec
    /\ \A p \in Procs : WF_vars(Step(p))
    /\ \A p \in Scorers : WF_vars(SyncHolds(p))

-----------------------------------------------------------------------------
\* Properties

Labels == {"idle", "open receipt", "write receipt", "open challenge",
           "write challenge", "update", "open current", "write current"}

\* Every file is absent, torn or whole, and a process holds what its step needs.
TypeOK ==
    /\ receipts \in [Ids -> Receipts \cup {Absent, Torn}]
    /\ challenges \in [Ids -> [Boxes -> Counters \cup {Absent, Torn}]]
    /\ current \in Docs \cup {Absent, Torn}
    /\ pc \in [Procs -> Labels]
    /\ hand \in [Procs -> Receipts \cup Counters \cup {None}]
    /\ doc \in [Procs -> Docs \cup {None}]
    /\ crashes \in 0 .. MaxCrashes
    /\ \A p \in Procs :
        /\ pc[p] \in {"open receipt", "write receipt"} => hand[p] \in Receipts
        /\ pc[p] \in {"open challenge", "write challenge"} => hand[p] \in Counters
        /\ pc[p] \in {"open current", "write current"} => doc[p] \in Docs

\* "A finalized receipt is never silently rewritten" (ledger.py), and a filed
\* challenge is not either, whoever writes, stops or dies in between.
AppendOnly ==
    [][/\ \A i \in Filed(receipts) : receipts'[i] = receipts[i]
       /\ \A i \in Ids : \A b \in Challengers(challenges, i) :
            challenges'[i][b] = challenges[i][b]]_vars

\* What counts for or against a credit is a measurement of the same experiment
\* on another card than the receipt's, each card counted once (attach), and
\* stays so although the check and the write are steps apart.
EvidenceIsIndependent ==
    \A i \in Ids : \A b \in Challengers(challenges, i) :
        /\ i \in Filed(receipts)
        /\ challenges[i][b].id = i
        /\ challenges[i][b].box = b
        /\ b # receipts[i].box
        /\ challenges[i][b].subject = receipts[i].subject

HeldCredit(i) == i \in Filed(receipts) /\ Held(receipts, challenges, i)

\* A credit once held is released only by a re-measurement that agrees, filed
\* in that step: not by the loss of a dispute or a change of the receipt.
ReleaseNeedsAgreement ==
    [][\A i \in Ids :
        HeldCredit(i) /\ ~HeldCredit(i)' =>
            \E b \in Boxes : /\ challenges[i][b] = Torn
                             /\ challenges'[i][b] \in Counters
                             /\ Agrees(receipts[i], challenges'[i][b])]_vars

\* The stronger reading: the re-measurement that releases a hold has measured
\* at least one cell of the receipt ("A further measurement on another card
\* that agrees with the canonical receipt releases it", challenge.py).
ReleaseIsMeasured ==
    [][\A i \in Ids :
        HeldCredit(i) /\ ~HeldCredit(i)' =>
            \E b \in Boxes : /\ challenges[i][b] = Torn
                             /\ challenges'[i][b] \in Counters
                             /\ Compared(receipts[i], challenges'[i][b]) # {}]_vars

Idle == \A p \in Procs : pc[p] = "idle"
Fresh == IF current = Absent THEN receipts = NoReceipts
                             ELSE current = Totals(receipts, challenges)

\* current.json is "the running totals and every receipt that moved them"
\* (ledger.py): as long as no process died, nothing that was filed is missing
\* from it once everybody is done.
FreshWhenIdle == Idle /\ crashes = 0 => Fresh

\* The rounds' sync_holds repairs current.json after lost updates and crashes
\* (it is Torn again only while it is being rewritten), unless a receipt or a
\* challenge itself was left torn.
EventuallyFresh ==
    <>[](TornReceipt \/ TornChallenge \/ current \in {Torn, Totals(receipts, challenges)})

\* The directory, read file by file, keeps the promise of LedgerPromise.
Readable(f) == IF f = Torn THEN Absent ELSE f

Promise == INSTANCE LedgerPromise WITH
    record   <- [i \in Ids |-> Readable(receipts[i])],
    evidence <- [i \in Ids |-> [b \in Boxes |-> Readable(challenges[i][b])]],
    totals   <- current

PromiseKept == Promise!Spec

=============================================================================
