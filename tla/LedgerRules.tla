----------------------------- MODULE LedgerRules -----------------------------
(***************************************************************************)
(* The pure part of the Burnisher Ledger: what a receipt must satisfy to    *)
(* be filed, when two measurements agree, when a credit is held, and the    *)
(* running totals that current.json holds (eval/burnscore/ledger.py,        *)
(* challenge.py and receipt.py).                                            *)
(*                                                                          *)
(* A receipt is [id, stamp, box, subject, status, credited, gap,            *)
(* supersedes].  `stamp` stands for the timestamp and for whatever else of  *)
(* the body the content digest covers, so two receipts are equal exactly    *)
(* when their digests are.  A counter-receipt has the same shape; its `id`  *)
(* names the receipt it disputes.                                           *)
(***************************************************************************)
EXTENDS Integers, FiniteSets

CONSTANTS
    Ids,            \* receipt ids: "pr-000184", or the id a correction is filed under
    Boxes,          \* physical devices, as box_id() shortens their UUID
    Cells,          \* the cells of the generation that are calibrated
    Floor,          \* [Cells -> Nat]: each cell's measured floor, as gap closed
    MaxGap,         \* the bound of a gap, in units of gap closed
    Receipts,       \* the receipts the evaluator or an operator may try to file
    Counters,       \* the counter-receipts somebody may try to file
    Absent,         \* no such file
    Torn            \* a file that was truncated by open("w") and not written yet

NotMeasured == -1   \* `per_cell` has no gap for the cell

Statuses == {"FRONTIER_EXPANDED", "MOVED_ALONG_FRONTIER", "NO_GAIN", "PARTIAL"}
Crediting == {"FRONTIER_EXPANDED"}

Gaps == [Cells -> {NotMeasured} \cup (0 .. MaxGap)]

ReceiptShape ==
    [id : Ids, stamp : Nat, box : Boxes, subject : Nat, status : Statuses,
     credited : 0 .. MaxGap, gap : Gaps, supersedes : SUBSET Ids]

ASSUME InputsAssumption ==
    /\ IsFiniteSet(Boxes)
    /\ Floor \in [Cells -> Nat]
    /\ Receipts \subseteq ReceiptShape
    /\ Counters \subseteq ReceiptShape

ASSUME FilesAssumption ==
    /\ Absent # Torn
    /\ {Absent, Torn} \cap (Receipts \cup Counters) = {}

-----------------------------------------------------------------------------
\* What may be filed

\* verify_receipt, as far as it decides credit: a status outside CREDITING
\* credits nothing.  The shape checks and the digest hold by construction here.
Verified(r) == r.status \notin Crediting => r.credited = 0

\* Mutant: a repeat on the same card is evidence too.
SameSubjectOnly(canonical, counter) == canonical.subject = counter.subject

\* The two refusals of attach: another experiment, or the same physical card.
MayChallenge(canonical, counter) ==
    /\ canonical.subject = counter.subject
    /\ canonical.box # counter.box

-----------------------------------------------------------------------------
\* Agreement and holds

Abs(n) == IF n < 0 THEN -n ELSE n

Compared(a, b) == {c \in Cells : a.gap[c] # NotMeasured /\ b.gap[c] # NotMeasured}

\* disagreement(): every cell both sides measured is within its own floor.
Agrees(a, b) == \A c \in Compared(a, b) : Abs(a.gap[c] - b.gap[c]) <= Floor[c]

Filed(rs) == {i \in Ids : rs[i] \notin {Absent, Torn}}
Challengers(cs, i) == {b \in Boxes : cs[i][b] \notin {Absent, Torn}}
Confirming(rs, cs, i) == {b \in Challengers(cs, i) : Agrees(rs[i], cs[i][b])}
Disputing(rs, cs, i)  == {b \in Challengers(cs, i) : ~Agrees(rs[i], cs[i][b])}

\* status_for(): the canonical receipt counts as one measurement that agrees.
Held(rs, cs, i) ==
    Cardinality(Disputing(rs, cs, i)) >= 1 + Cardinality(Confirming(rs, cs, i))

-----------------------------------------------------------------------------
\* The running totals

Superseded(rs) == UNION {rs[i].supersedes : i \in Filed(rs)}
Canonical(rs)  == Filed(rs) \ Superseded(rs)

HeldReceipts(rs, cs) == {i \in Canonical(rs) : Held(rs, cs, i)}

\* The receipts that move gap_remaining_fraction, the product of 1 - credited
\* over exactly these.
Paid(rs, cs) ==
    {i \in Canonical(rs) : /\ rs[i].status \in Crediting
                           /\ rs[i].credited > 0
                           /\ ~Held(rs, cs, i)}

\* The document update_current computes from what it read.
Totals(rs, cs) ==
    [canonical |-> Canonical(rs), superseded |-> Superseded(rs),
     held |-> HeldReceipts(rs, cs), paid |-> Paid(rs, cs)]

Docs == [canonical : SUBSET Ids, superseded : SUBSET Ids,
         held : SUBSET Ids, paid : SUBSET Ids]

NoReceipts == [i \in Ids |-> Absent]
NoChallenges == [i \in Ids |-> [b \in Boxes |-> Absent]]

=============================================================================
