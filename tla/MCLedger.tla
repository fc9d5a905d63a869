------------------------------ MODULE MCLedger -------------------------------
(***************************************************************************)
(* Small ledgers: two submissions, the first scored a second time after a   *)
(* new commit (r1b) and corrected by an operator (fix); counter-receipts of *)
(* the first from other cards that dispute it, confirm it and measure none  *)
(* of its cells, one from its own card and one of another experiment.       *)
(***************************************************************************)
EXTENDS Ledger

CONSTANTS p1, p2, k1, b0, b1, b2, cell

Receipt(id, stamp, box, subject, status, credited, gap, supersedes) ==
    [id |-> id, stamp |-> stamp, box |-> box, subject |-> subject,
     status |-> status, credited |-> credited, gap |-> [c \in Cells |-> gap],
     supersedes |-> supersedes]

r1  == Receipt(p1, 1, b0, 1, "FRONTIER_EXPANDED", 3, 3, {})
r1b == Receipt(p1, 2, b0, 2, "NO_GAIN", 0, 0, {})
r2  == Receipt(p2, 1, b0, 3, "FRONTIER_EXPANDED", 1, 1, {})
bad == Receipt(p2, 1, b0, 3, "NO_GAIN", 1, 1, {})
fix == Receipt(k1, 3, b0, 1, "NO_GAIN", 0, 0, {p1})

disputes(b) == Receipt(p1, 2, b, 1, "NO_GAIN", 0, 0, {})
confirms(b) == Receipt(p1, 2, b, 1, "FRONTIER_EXPANDED", 2, 2, {})
empty(b)    == Receipt(p1, 2, b, 1, "PARTIAL", 0, NotMeasured, {})
other(b)    == Receipt(p1, 2, b, 3, "NO_GAIN", 0, 0, {})

MCFloor == [c \in Cells |-> 1]
MCReceipts == {r1, r1b, r2, bad, fix}
MCCounters == {disputes(b0), disputes(b1), confirms(b2), other(b2)}

RaceReceipts == {r1, r1b}
RaceCounters == {disputes(b1), empty(b2)}

=============================================================================
