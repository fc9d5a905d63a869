---------------------------- MODULE LedgerProofs -----------------------------
(***************************************************************************)
(* Proofs about Ledger, for every set of ids, cards, receipts and processes *)
(* and any number of crashes.  Type correctness needs nothing else.  That   *)
(* the ledger is append-only needs OneOfEach: the check for an existing     *)
(* file and the write are separate steps, and two scorers of one pull       *)
(* request overwrite each other (the run MCLedger_two_scorers).             *)
(***************************************************************************)
EXTENDS Ledger, FiniteSetTheorems, TLAPS

\* Rounds are exclusive (round.py's Lock) and challenges are filed one by one.
OneOfEach ==
    /\ \A p, q \in Scorers : p = q
    /\ \A p, q \in Filers : p = q

-----------------------------------------------------------------------------
\* Type correctness

\* A document of totals is one, whatever files it is computed from.
LEMMA TotalsType ==
    ASSUME NEW rs, NEW cs, \A i \in Filed(rs) : rs[i] \in Receipts
    PROVE  Totals(rs, cs) \in Docs
<1>1. Filed(rs) \subseteq Ids
  BY DEF Filed
<1>2. \A i \in Filed(rs) : rs[i].supersedes \subseteq Ids
  BY InputsAssumption DEF ReceiptShape
<1>3. Superseded(rs) \subseteq Ids
  BY <1>2 DEF Superseded
<1>4. Canonical(rs) \subseteq Ids
  BY <1>1 DEF Canonical
<1>5. HeldReceipts(rs, cs) \subseteq Ids /\ Paid(rs, cs) \subseteq Ids
  BY <1>4 DEF HeldReceipts, Paid
<1> QED
  BY <1>3, <1>4, <1>5 DEF Totals, Docs

\* A receipt or a counter-receipt names an id and a card.
LEMMA InputShape ==
    \A r \in Receipts \cup Counters : r.id \in Ids /\ r.box \in Boxes
BY InputsAssumption DEF ReceiptShape

\* Only files that can be read are taken for receipts.
LEMMA FiledReceipts ==
    ASSUME TypeOK
    PROVE  /\ \A i \in Filed(receipts) : i \in Ids /\ receipts[i] \in Receipts
           /\ \A i \in Ids : \A b \in Challengers(challenges, i) :
                b \in Boxes /\ challenges[i][b] \in Counters
BY DEF TypeOK, Filed, Challengers

LEMMA InitType == Init => TypeOK
BY ProcsAssumption DEF Init, TypeOK, NoReceipts, NoChallenges, Labels

LEMMA TypeStep == TypeOK /\ [Next]_vars => TypeOK'
<1> SUFFICES ASSUME TypeOK, [Next]_vars
             PROVE  TypeOK'
  OBVIOUS
<1> USE DEF Labels, Procs
<1>1. CASE UNCHANGED vars
  BY <1>1 DEF vars, TypeOK
<1>2. ASSUME NEW p \in Scorers, SyncHolds(p)
      PROVE  TypeOK'
  BY <1>2 DEF SyncHolds, TypeOK, files, Goto
<1>3. ASSUME NEW p \in Scorers, NEW r \in Receipts, AppendReceipt(p, r)
      PROVE  TypeOK'
  BY <1>3 DEF AppendReceipt, TypeOK, files, Goto, Hold
<1>4. ASSUME NEW p \in Filers, Show(p)
      PROVE  TypeOK'
  <2>1. Totals(receipts, NoChallenges) \in Docs
    BY TotalsType, FiledReceipts
  <2> QED
    BY <1>4, <2>1 DEF Show, TypeOK, files, Goto
<1>5. ASSUME NEW p \in Filers, NEW c \in Counters, FileChallenge(p, c)
      PROVE  TypeOK'
  BY <1>5 DEF FileChallenge, TypeOK, files, Goto, Hold
<1>6. ASSUME NEW p \in Procs, OpenReceipt(p)
      PROVE  TypeOK'
  BY <1>6, InputShape DEF OpenReceipt, TypeOK, Goto
<1>7. ASSUME NEW p \in Procs, WriteReceipt(p)
      PROVE  TypeOK'
  BY <1>7, InputShape DEF WriteReceipt, TypeOK, Goto
<1>8. ASSUME NEW p \in Procs, OpenChallenge(p)
      PROVE  TypeOK'
  BY <1>8, InputShape DEF OpenChallenge, TypeOK, Goto
<1>9. ASSUME NEW p \in Procs, WriteChallenge(p)
      PROVE  TypeOK'
  BY <1>9, InputShape DEF WriteChallenge, TypeOK, Goto
<1>10. ASSUME NEW p \in Procs, UpdateFails(p)
       PROVE  TypeOK'
  BY <1>10 DEF UpdateFails, TypeOK, files, Return, Goto, Hold
<1>11. ASSUME NEW p \in Procs, ComputeCurrent(p)
       PROVE  TypeOK'
  <2>1. Totals(receipts, challenges) \in Docs
    BY TotalsType, FiledReceipts
  <2> QED
    BY <1>11, <2>1 DEF ComputeCurrent, TypeOK, files, Goto
<1>12. ASSUME NEW p \in Procs, OpenCurrent(p)
       PROVE  TypeOK'
  BY <1>12 DEF OpenCurrent, TypeOK, Goto
<1>13. ASSUME NEW p \in Procs, WriteCurrent(p)
       PROVE  TypeOK'
  BY <1>13 DEF WriteCurrent, TypeOK, Return, Goto, Hold
<1>14. ASSUME NEW p \in Procs, Crash(p)
       PROVE  TypeOK'
  <2>1. crashes \in 0 .. MaxCrashes /\ MaxCrashes \in Nat
    BY ProcsAssumption DEF TypeOK
  <2>2. crashes < MaxCrashes /\ crashes' = crashes + 1
    BY <1>14 DEF Crash
  <2>3. crashes' \in 0 .. MaxCrashes
    BY <2>1, <2>2
  <2> QED
    BY <1>14, <2>3 DEF Crash, TypeOK, files, Return, Goto, Hold
<1> QED
  BY <1>1, <1>2, <1>3, <1>4, <1>5, <1>6, <1>7, <1>8, <1>9, <1>10, <1>11, <1>12,
     <1>13, <1>14 DEF Next, Step

\* Every file is absent, torn or whole, and a process that is about to write
\* holds what it writes, whatever dies when.
THEOREM TypeCorrect == Spec => []TypeOK
BY InitType, TypeStep, PTL DEF Spec

-----------------------------------------------------------------------------
\* The ledger is append-only

Finishing == {"open receipt", "write receipt"}
Filing == {"open challenge", "write challenge"}

\* Who writes what.
RolesKept ==
    \A p \in Procs : /\ pc[p] \in Finishing => p \in Scorers
                     /\ pc[p] \in Filing => p \in Filers

\* The file a scorer is about to open is still absent, and the one it has
\* opened is still as it left it.
ReceiptPending ==
    \A p \in Procs :
        /\ pc[p] = "open receipt" => receipts[hand[p].id] = Absent
        /\ pc[p] = "write receipt" => receipts[hand[p].id] = Torn

\* The same for a challenge, whose receipt is there and fits it.
ChallengePending ==
    \A p \in Procs :
        /\ pc[p] = "open challenge" => challenges[hand[p].id][hand[p].box] = Absent
        /\ pc[p] = "write challenge" => challenges[hand[p].id][hand[p].box] = Torn
        /\ pc[p] \in Filing => /\ hand[p].id \in Filed(receipts)
                               /\ MayChallenge(receipts[hand[p].id], hand[p])

WriterInv == TypeOK /\ RolesKept /\ ReceiptPending /\ ChallengePending /\ EvidenceIsIndependent

LEMMA InitWriter == Init => WriterInv
<1> SUFFICES ASSUME Init PROVE WriterInv
  OBVIOUS
<1>1. TypeOK
  BY InitType
<1>2. RolesKept /\ ReceiptPending /\ ChallengePending
  BY DEF Init, RolesKept, ReceiptPending, ChallengePending, Finishing, Filing, Procs
<1>3. EvidenceIsIndependent
  BY DEF Init, EvidenceIsIndependent, Challengers, NoChallenges
<1> QED
  BY <1>1, <1>2, <1>3 DEF WriterInv

\* A step that leaves every finalized receipt and every challenge alone leaves
\* the evidence independent.
LEMMA EvidenceStays ==
    ASSUME TypeOK, EvidenceIsIndependent, challenges' = challenges,
           \A i \in Filed(receipts) : i \in Filed(receipts)' /\ receipts'[i] = receipts[i]
    PROVE  EvidenceIsIndependent'
BY DEF EvidenceIsIndependent, Challengers

\* A step that touches no receipt and no challenge, and moves process p to a label at which no
\* file is being written, keeps what the writers rely on.
LEMMA QuietStep ==
    ASSUME WriterInv, TypeOK', UNCHANGED <<receipts, challenges>>, NEW p \in Procs,
           \A q \in Procs \ {p} : pc'[q] = pc[q] /\ hand'[q] = hand[q],
           pc'[p] \notin Finishing \cup Filing
    PROVE  WriterInv'
<1>1. receipts' = receipts /\ challenges' = challenges
  OBVIOUS
<1>2. \A q \in Procs : pc'[q] \in Finishing \cup Filing => pc'[q] = pc[q] /\ hand'[q] = hand[q]
  OBVIOUS
<1>3. RolesKept'
  BY <1>2 DEF WriterInv, RolesKept
<1>4. ReceiptPending'
  BY <1>1, <1>2 DEF WriterInv, ReceiptPending, Finishing
<1>5. Filed(receipts)' = Filed(receipts)
  BY <1>1 DEF Filed
<1>6. ChallengePending'
  BY <1>1, <1>2, <1>5 DEF WriterInv, ChallengePending, Filing
<1>7. EvidenceIsIndependent'
  BY <1>1, <1>5, EvidenceStays DEF WriterInv
<1> QED
  BY <1>3, <1>4, <1>6, <1>7 DEF WriterInv

LEMMA WriterStep ==
    ASSUME OneOfEach
    PROVE  WriterInv /\ [Next]_vars => WriterInv'
<1> SUFFICES ASSUME WriterInv, [Next]_vars
             PROVE  WriterInv'
  OBVIOUS
<1>0. TypeOK /\ TypeOK'
  BY TypeStep DEF WriterInv
<1>1. CASE UNCHANGED vars
  <2>1. Filed(receipts)' = Filed(receipts)
    BY <1>1 DEF vars, Filed
  <2>2. RolesKept' /\ ReceiptPending' /\ ChallengePending'
    BY <1>1, <2>1 DEF vars, WriterInv, RolesKept, ReceiptPending, ChallengePending
  <2>3. EvidenceIsIndependent'
    BY <1>1, <2>1, EvidenceStays DEF vars, WriterInv
  <2> QED
    BY <1>0, <2>2, <2>3 DEF WriterInv
<1>2. ASSUME NEW p \in Scorers, SyncHolds(p)
      PROVE  WriterInv'
  <2>1. p \in Procs
    BY DEF Procs
  <2> QED
    BY <1>0, <1>2, <2>1, QuietStep DEF SyncHolds, files, Goto, TypeOK, Finishing, Filing
<1>3. ASSUME NEW p \in Scorers, NEW r \in Receipts, AppendReceipt(p, r)
      PROVE  WriterInv'
  <2>1. p \in Procs /\ r.id \in Ids
    BY InputShape DEF Procs
  <2>2. receipts' = receipts /\ challenges' = challenges /\ receipts[r.id] = Absent
    BY <1>3 DEF AppendReceipt, files
  <2>3. pc'[p] = "open receipt" /\ hand'[p] = r
    BY <1>0, <1>3, <2>1 DEF AppendReceipt, Goto, Hold, TypeOK
  <2>4. \A q \in Procs \ {p} : pc'[q] = pc[q] /\ hand'[q] = hand[q]
    BY <1>0, <1>3 DEF AppendReceipt, Goto, Hold, TypeOK
  <2>5. Filed(receipts)' = Filed(receipts)
    BY <2>2 DEF Filed
  <2>6. RolesKept' /\ ReceiptPending' /\ ChallengePending'
    BY <2>2, <2>3, <2>4, <2>5, ZenonT(60)
       DEF WriterInv, RolesKept, ReceiptPending, ChallengePending, Finishing, Filing
  <2>7. EvidenceIsIndependent'
    BY <1>0, <2>2, <2>5, EvidenceStays DEF WriterInv
  <2> QED
    BY <1>0, <2>6, <2>7 DEF WriterInv
<1>4. ASSUME NEW p \in Filers, Show(p)
      PROVE  WriterInv'
  <2>1. p \in Procs
    BY DEF Procs
  <2> QED
    BY <1>0, <1>4, <2>1, QuietStep DEF Show, files, Goto, TypeOK, Finishing, Filing
<1>5. ASSUME NEW p \in Filers, NEW c \in Counters, FileChallenge(p, c)
      PROVE  WriterInv'
  <2>1. p \in Procs /\ c.id \in Ids
    BY InputShape DEF Procs
  <2>2. receipts' = receipts /\ challenges' = challenges
    BY <1>5 DEF FileChallenge, files
  <2>3. pc'[p] = "open challenge" /\ hand'[p] = c
    BY <1>0, <1>5, <2>1 DEF FileChallenge, Goto, Hold, TypeOK
  <2>4. \A q \in Procs \ {p} : pc'[q] = pc[q] /\ hand'[q] = hand[q]
    BY <1>0, <1>5 DEF FileChallenge, Goto, Hold, TypeOK
  <2>5. Filed(receipts)' = Filed(receipts)
    BY <2>2 DEF Filed
  <2>6. /\ c.id \in Filed(receipts)
        /\ MayChallenge(receipts[c.id], c)
        /\ challenges[c.id][c.box] = Absent
    BY <1>5 DEF FileChallenge
  <2>7. RolesKept' /\ ReceiptPending' /\ ChallengePending'
    BY <2>2, <2>3, <2>4, <2>5, <2>6, ZenonT(60)
       DEF WriterInv, RolesKept, ReceiptPending, ChallengePending, Finishing, Filing
  <2>8. EvidenceIsIndependent'
    BY <1>0, <2>2, <2>5, EvidenceStays DEF WriterInv
  <2> QED
    BY <1>0, <2>7, <2>8 DEF WriterInv
<1>6. ASSUME NEW p \in Procs, OpenReceipt(p)
      PROVE  WriterInv'
  <2> DEFINE id == hand[p].id
  <2>1. /\ pc[p] = "open receipt" /\ hand[p] \in Receipts /\ id \in Ids
        /\ receipts' = [receipts EXCEPT ![id] = Torn]
        /\ challenges' = challenges /\ hand' = hand
    BY <1>0, <1>6, InputShape DEF OpenReceipt, TypeOK
  <2>2. \A q \in Procs : pc'[q] = IF q = p THEN "write receipt" ELSE pc[q]
    BY <1>0, <1>6 DEF OpenReceipt, Goto, TypeOK
  <2>3. receipts[id] \in {Absent, Torn}
    BY <2>1 DEF WriterInv, ReceiptPending
  <2>4. \A i \in Filed(receipts) : i \in Filed(receipts)' /\ receipts'[i] = receipts[i]
    BY <1>0, <2>1, <2>3 DEF Filed, TypeOK
  <2>5. \A q \in Procs : pc[q] \in Finishing => q = p
    BY <2>1, OneOfEach DEF OneOfEach, WriterInv, RolesKept, Finishing
  <2>6. RolesKept' /\ ReceiptPending'
    BY <1>0, <2>1, <2>2, <2>5
       DEF WriterInv, RolesKept, ReceiptPending, Finishing, Filing, TypeOK
  <2>7. ChallengePending'
    BY <2>1, <2>2, <2>4 DEF WriterInv, ChallengePending, Filing
  <2>8. EvidenceIsIndependent'
    BY <1>0, <2>1, <2>4, EvidenceStays DEF WriterInv
  <2> QED
    BY <1>0, <2>6, <2>7, <2>8 DEF WriterInv
<1>7. ASSUME NEW p \in Procs, WriteReceipt(p)
      PROVE  WriterInv'
  <2> DEFINE id == hand[p].id
  <2>1. /\ pc[p] = "write receipt" /\ hand[p] \in Receipts /\ id \in Ids
        /\ receipts' = [receipts EXCEPT ![id] = hand[p]]
        /\ challenges' = challenges /\ hand' = hand
    BY <1>0, <1>7, InputShape DEF WriteReceipt, TypeOK
  <2>2. \A q \in Procs : pc'[q] = IF q = p THEN "update" ELSE pc[q]
    BY <1>0, <1>7 DEF WriteReceipt, Goto, TypeOK
  <2>3. receipts[id] \in {Absent, Torn}
    BY <2>1 DEF WriterInv, ReceiptPending
  <2>4. \A i \in Filed(receipts) : i \in Filed(receipts)' /\ receipts'[i] = receipts[i]
    BY <1>0, <2>1, <2>3 DEF Filed, TypeOK
  <2>5. \A q \in Procs : pc[q] \in Finishing => q = p
    BY <2>1, OneOfEach DEF OneOfEach, WriterInv, RolesKept, Finishing
  <2>6. RolesKept' /\ ReceiptPending'
    BY <1>0, <2>1, <2>2, <2>5
       DEF WriterInv, RolesKept, ReceiptPending, Finishing, Filing, TypeOK
  <2>7. ChallengePending'
    BY <2>1, <2>2, <2>4, ZenonT(60) DEF WriterInv, ChallengePending, Filing
  <2>8. EvidenceIsIndependent'
    BY <1>0, <2>1, <2>4, EvidenceStays DEF WriterInv
  <2> QED
    BY <1>0, <2>6, <2>7, <2>8 DEF WriterInv
<1>8. ASSUME NEW p \in Procs, OpenChallenge(p)
      PROVE  WriterInv'
  <2> DEFINE id == hand[p].id
             box == hand[p].box
  <2>1. /\ pc[p] = "open challenge" /\ hand[p] \in Counters /\ id \in Ids /\ box \in Boxes
        /\ challenges' = [challenges EXCEPT ![id][box] = Torn]
        /\ receipts' = receipts /\ hand' = hand
    BY <1>0, <1>8, InputShape DEF OpenChallenge, TypeOK
  <2>2. \A q \in Procs : pc'[q] = IF q = p THEN "write challenge" ELSE pc[q]
    BY <1>0, <1>8 DEF OpenChallenge, Goto, TypeOK
  <2>3. Filed(receipts)' = Filed(receipts)
    BY <2>1 DEF Filed
  <2>4. id \in Filed(receipts) /\ MayChallenge(receipts[id], hand[p])
    BY <2>1 DEF WriterInv, ChallengePending, Filing
  <2>5. \A q \in Procs : pc[q] \in Filing => q = p
    BY <2>1, OneOfEach DEF OneOfEach, WriterInv, RolesKept, Filing
  <2>6. \A i \in Ids, b \in Boxes :
            challenges'[i][b] = IF i = id /\ b = box THEN Torn ELSE challenges[i][b]
    BY <1>0, <2>1 DEF TypeOK
  <2>7. RolesKept' /\ ReceiptPending'
    BY <2>1, <2>2 DEF WriterInv, RolesKept, ReceiptPending, Finishing, Filing
  <2>8. ChallengePending'
    <3>1. \A q \in Procs : pc'[q] \in Filing => q = p
      BY <2>1, <2>2, <2>5 DEF Filing
    <3>2. challenges'[id][box] = Torn
      BY <2>1, <2>6
    <3> QED
      BY <2>1, <2>2, <2>3, <2>4, <3>1, <3>2 DEF ChallengePending, Filing
  <2>9. EvidenceIsIndependent'
    <3> SUFFICES ASSUME NEW i \in Ids, NEW b \in Boxes, challenges'[i][b] \notin {Absent, Torn}
                 PROVE  /\ i \in Filed(receipts)'
                        /\ challenges'[i][b].id = i /\ challenges'[i][b].box = b
                        /\ b # receipts'[i].box
                        /\ challenges'[i][b].subject = receipts'[i].subject
      BY DEF EvidenceIsIndependent, Challengers
    <3>1. challenges'[i][b] # Torn
      OBVIOUS
    <3>2. CASE i = id /\ b = box
      BY <2>6, <3>1, <3>2
    <3>3. CASE ~(i = id /\ b = box)
      <4>1. challenges'[i][b] = challenges[i][b] /\ b \in Challengers(challenges, i)
        BY <2>6, <3>3 DEF Challengers
      <4>2. /\ i \in Filed(receipts)
            /\ challenges[i][b].id = i
            /\ challenges[i][b].box = b
            /\ b # receipts[i].box
            /\ challenges[i][b].subject = receipts[i].subject
        BY <4>1 DEF WriterInv, EvidenceIsIndependent
      <4>3. receipts' = receipts
        BY <2>1
      <4> QED
        BY <2>3, <4>1, <4>2, <4>3
    <3> QED
      BY <3>2, <3>3
  <2> QED
    BY <1>0, <2>7, <2>8, <2>9 DEF WriterInv
<1>9. ASSUME NEW p \in Procs, WriteChallenge(p)
      PROVE  WriterInv'
  <2> DEFINE id == hand[p].id
             box == hand[p].box
  <2>1. /\ pc[p] = "write challenge" /\ hand[p] \in Counters /\ id \in Ids /\ box \in Boxes
        /\ challenges' = [challenges EXCEPT ![id][box] = hand[p]]
        /\ receipts' = receipts /\ hand' = hand
    BY <1>0, <1>9, InputShape DEF WriteChallenge, TypeOK
  <2>2. \A q \in Procs : pc'[q] = IF q = p THEN "update" ELSE pc[q]
    BY <1>0, <1>9 DEF WriteChallenge, Goto, TypeOK
  <2>3. Filed(receipts)' = Filed(receipts)
    BY <2>1 DEF Filed
  <2>4. id \in Filed(receipts) /\ MayChallenge(receipts[id], hand[p])
    BY <2>1 DEF WriterInv, ChallengePending, Filing
  <2>5. \A q \in Procs : pc[q] \in Filing => q = p
    BY <2>1, OneOfEach DEF OneOfEach, WriterInv, RolesKept, Filing
  <2>6. \A i \in Ids, b \in Boxes :
            challenges'[i][b] = IF i = id /\ b = box THEN hand[p] ELSE challenges[i][b]
    BY <1>0, <2>1 DEF TypeOK
  <2>7. RolesKept' /\ ReceiptPending'
    BY <2>1, <2>2 DEF WriterInv, RolesKept, ReceiptPending, Finishing, Filing
  <2>8. ChallengePending'
    BY <2>1, <2>2, <2>3, <2>5, <2>6, <2>4 DEF WriterInv, ChallengePending, Filing
  <2>9. EvidenceIsIndependent'
    <3> SUFFICES ASSUME NEW i \in Ids, NEW b \in Boxes, challenges'[i][b] \notin {Absent, Torn}
                 PROVE  /\ i \in Filed(receipts)'
                        /\ challenges'[i][b].id = i /\ challenges'[i][b].box = b
                        /\ b # receipts'[i].box
                        /\ challenges'[i][b].subject = receipts'[i].subject
      BY DEF EvidenceIsIndependent, Challengers
    <3>2. CASE i = id /\ b = box
      BY <2>1, <2>3, <2>4, <2>6, <3>2, ZenonT(60) DEF MayChallenge
    <3>3. CASE ~(i = id /\ b = box)
      <4>1. challenges'[i][b] = challenges[i][b] /\ b \in Challengers(challenges, i)
        BY <2>6, <3>3 DEF Challengers
      <4>2. /\ i \in Filed(receipts)
            /\ challenges[i][b].id = i
            /\ challenges[i][b].box = b
            /\ b # receipts[i].box
            /\ challenges[i][b].subject = receipts[i].subject
        BY <4>1 DEF WriterInv, EvidenceIsIndependent
      <4>3. receipts' = receipts
        BY <2>1
      <4> QED
        BY <2>3, <4>1, <4>2, <4>3
    <3> QED
      BY <3>2, <3>3
  <2> QED
    BY <1>0, <2>7, <2>8, <2>9 DEF WriterInv
<1>10. ASSUME NEW p \in Procs, UpdateFails(p)
       PROVE  WriterInv'
  BY <1>0, <1>10, QuietStep DEF UpdateFails, files, Return, Goto, Hold, TypeOK, Finishing, Filing
<1>11. ASSUME NEW p \in Procs, ComputeCurrent(p)
       PROVE  WriterInv'
  BY <1>0, <1>11, QuietStep DEF ComputeCurrent, files, Goto, TypeOK, Finishing, Filing
<1>12. ASSUME NEW p \in Procs, OpenCurrent(p)
       PROVE  WriterInv'
  BY <1>0, <1>12, QuietStep DEF OpenCurrent, Goto, TypeOK, Finishing, Filing
<1>13. ASSUME NEW p \in Procs, WriteCurrent(p)
       PROVE  WriterInv'
  BY <1>0, <1>13, QuietStep DEF WriteCurrent, Return, Goto, Hold, TypeOK, Finishing, Filing
<1>14. ASSUME NEW p \in Procs, Crash(p)
       PROVE  WriterInv'
  BY <1>0, <1>14, QuietStep DEF Crash, files, Return, Goto, Hold, TypeOK, Finishing, Filing
<1> QED
  BY <1>1, <1>2, <1>3, <1>4, <1>5, <1>6, <1>7, <1>8, <1>9, <1>10, <1>11, <1>12, <1>13,
     <1>14 DEF Next, Step

\* What counts for or against a credit is independent evidence about the
\* receipt that is there, as long as one scorer and one filer write.
THEOREM IndependentEvidence == ASSUME OneOfEach PROVE Spec => []EvidenceIsIndependent
<1>1. Init => WriterInv
  BY InitWriter
<1>2. WriterInv /\ [Next]_vars => WriterInv'
  BY WriterStep
<1>3. WriterInv => EvidenceIsIndependent
  BY DEF WriterInv
<1> QED
  BY <1>1, <1>2, <1>3, PTL DEF Spec

-----------------------------------------------------------------------------
\* What is written stays written

\* A step of the ledger changes no finalized receipt and no filed challenge.
Appends ==
    /\ \A i \in Filed(receipts) : receipts'[i] = receipts[i]
    /\ \A i \in Ids : \A b \in Challengers(challenges, i) :
         challenges'[i][b] = challenges[i][b]

LEMMA StepAppends ==
    ASSUME WriterInv, [Next]_vars
    PROVE  Appends
<1>0. TypeOK
  BY DEF WriterInv
<1>1. CASE receipts' = receipts /\ challenges' = challenges
  BY <1>1 DEF Appends
<1>2. ASSUME NEW p \in Procs, OpenReceipt(p) \/ WriteReceipt(p)
      PROVE  Appends
  <2> DEFINE id == hand[p].id
  <2>1. challenges' = challenges /\ \E f : receipts' = [receipts EXCEPT ![id] = f]
    BY <1>2 DEF OpenReceipt, WriteReceipt
  <2>2. receipts[id] \in {Absent, Torn}
    BY <1>2 DEF WriterInv, ReceiptPending, OpenReceipt, WriteReceipt
  <2>3. \A i \in Filed(receipts) : i \in Ids /\ i # id
    BY <2>2 DEF Filed
  <2>4. \A i \in Filed(receipts) : receipts'[i] = receipts[i]
    BY <1>0, <2>1, <2>3 DEF TypeOK
  <2> QED
    BY <2>1, <2>4 DEF Appends
<1>3. ASSUME NEW p \in Procs, OpenChallenge(p) \/ WriteChallenge(p)
      PROVE  Appends
  <2> DEFINE id == hand[p].id
             box == hand[p].box
  <2>0. PICK f : challenges' = [challenges EXCEPT ![id][box] = f]
    BY <1>3 DEF OpenChallenge, WriteChallenge
  <2>1. receipts' = receipts
    BY <1>3 DEF OpenChallenge, WriteChallenge
  <2>2. challenges[id][box] \in {Absent, Torn}
    BY <1>3 DEF WriterInv, ChallengePending, OpenChallenge, WriteChallenge
  <2>3. \A i \in Ids, b \in Boxes :
            ~(i = id /\ b = box) => challenges'[i][b] = challenges[i][b]
    BY <1>0, <2>0 DEF TypeOK
  <2>4. \A i \in Ids : \A b \in Challengers(challenges, i) : b \in Boxes /\ ~(i = id /\ b = box)
    BY <2>2 DEF Challengers
  <2> QED
    BY <2>1, <2>3, <2>4 DEF Appends
<1> QED
  BY <1>1, <1>2, <1>3
     DEF Next, Step, vars, files, SyncHolds, AppendReceipt, Show, FileChallenge, UpdateFails,
         ComputeCurrent, OpenCurrent, WriteCurrent, Crash

\* "A finalized receipt is never silently rewritten": with one scorer and one
\* filer at a time, no step rewrites a receipt or a challenge, whatever dies
\* between the check for the file and the write.
THEOREM NeverRewritten == ASSUME OneOfEach PROVE Spec => AppendOnly
<1>1. Init => WriterInv
  BY InitWriter
<1>2. WriterInv /\ [Next]_vars => WriterInv'
  BY WriterStep
<1>3. WriterInv /\ [Next]_vars => [Appends]_vars
  BY StepAppends
<1>4. [][Appends]_vars => AppendOnly
  BY PTL DEF Appends, AppendOnly
<1> QED
  BY <1>1, <1>2, <1>3, <1>4, PTL DEF Spec
-----------------------------------------------------------------------------
\* A hold falls only to evidence

\* The content of a challenge lands only in the file its filer has truncated.
LEMMA EvidenceLands ==
    ASSUME WriterInv, [Next]_vars, NEW i \in Ids, NEW b \in Challengers(challenges', i)
    PROVE  challenges[i][b] # Absent /\ challenges'[i][b] \in Counters
<1>0. TypeOK /\ TypeOK' /\ b \in Boxes /\ challenges'[i][b] \notin {Absent, Torn}
  BY TypeStep DEF WriterInv, Challengers
<1>1. challenges'[i][b] \in Counters
  BY <1>0 DEF TypeOK
<1>2. CASE challenges' = challenges
  BY <1>0, <1>1, <1>2
<1>3. ASSUME NEW p \in Procs, OpenChallenge(p) \/ WriteChallenge(p)
      PROVE  challenges[i][b] # Absent
  <2> DEFINE id == hand[p].id
             box == hand[p].box
  <2>1. PICK f : challenges' = [challenges EXCEPT ![id][box] = f] /\ (OpenChallenge(p) => f = Torn)
    BY <1>3 DEF OpenChallenge, WriteChallenge
  <2>2. CASE i = id /\ b = box
    <3>1. challenges'[i][b] = f
      BY <1>0, <2>1, <2>2 DEF TypeOK
    <3>2. WriteChallenge(p)
      BY <1>0, <1>3, <2>1, <3>1
    <3> QED
      BY <2>2, <3>2, FilesAssumption DEF WriterInv, ChallengePending, WriteChallenge
  <2>3. CASE ~(i = id /\ b = box)
    <3>1. challenges'[i][b] = challenges[i][b]
      BY <1>0, <2>1, <2>3 DEF TypeOK
    <3> QED
      BY <1>0, <3>1
  <2> QED
    BY <2>2, <2>3
<1> QED
  BY <1>1, <1>2, <1>3
     DEF Next, Step, vars, files, SyncHolds, AppendReceipt, Show, FileChallenge, UpdateFails,
         ComputeCurrent, OpenCurrent, WriteCurrent, Crash, OpenReceipt, WriteReceipt

\* Disputes are not lost, so a hold that falls has gained a card that agrees.
LEMMA ReleaseStep ==
    ASSUME WriterInv, [Next]_vars, NEW i \in Ids, HeldCredit(i), ~HeldCredit(i)'
    PROVE  \E b \in Boxes : /\ challenges[i][b] = Torn
                            /\ challenges'[i][b] \in Counters
                            /\ Agrees(receipts[i], challenges'[i][b])
<1> DEFINE confirming  == Confirming(receipts, challenges, i)
           confirming2 == Confirming(receipts', challenges', i)
           disputing   == Disputing(receipts, challenges, i)
           disputing2  == Disputing(receipts', challenges', i)
<1>1. Appends
  BY StepAppends
<1>2. receipts'[i] = receipts[i] /\ i \in Filed(receipts')
  BY <1>1 DEF HeldCredit, Appends, Filed
<1>3. disputing \subseteq disputing2
  BY <1>1, <1>2 DEF Appends, Disputing, Challengers
<1>4. IsFiniteSet(confirming) /\ IsFiniteSet(disputing2)
  BY InputsAssumption, FS_Subset DEF Confirming, Disputing, Challengers
<1>5. ~(confirming2 \subseteq confirming)
  <2> SUFFICES ASSUME confirming2 \subseteq confirming PROVE FALSE
    OBVIOUS
  <2>1. IsFiniteSet(confirming2) /\ IsFiniteSet(disputing)
    BY <1>3, <1>4, FS_Subset
  <2>2. /\ Cardinality(confirming2) <= Cardinality(confirming)
        /\ Cardinality(disputing) <= Cardinality(disputing2)
    BY <1>3, <1>4, FS_Subset
  <2>3. /\ Cardinality(confirming2) \in Nat /\ Cardinality(confirming) \in Nat
        /\ Cardinality(disputing2) \in Nat /\ Cardinality(disputing) \in Nat
    BY <1>4, <2>1, FS_CardinalityType
  <2>4. Cardinality(disputing) >= 1 + Cardinality(confirming)
    BY DEF HeldCredit, Held
  <2>5. ~(Cardinality(disputing2) >= 1 + Cardinality(confirming2))
    BY <1>2 DEF HeldCredit, Held
  <2> QED
    BY <2>2, <2>3, <2>4, <2>5
<1>6. PICK b \in confirming2 : b \notin confirming
  BY <1>5
<1>7. b \in Challengers(challenges', i) /\ Agrees(receipts[i], challenges'[i][b])
  BY <1>2, <1>6 DEF Confirming
<1>8. b \in Boxes /\ b \notin Challengers(challenges, i)
  BY <1>1, <1>6, <1>7 DEF Confirming, Challengers, Appends
<1>9. challenges[i][b] = Torn /\ challenges'[i][b] \in Counters
  BY <1>7, <1>8, EvidenceLands DEF Challengers
<1> QED
  BY <1>7, <1>8, <1>9

\* With one scorer and one filer at a time a hold falls only to the re-measurement
\* that is filed in that step and agrees, however many cards have disputed it: no
\* dispute is lost to a death or to another process.
THEOREM HoldsNeedAgreement == ASSUME OneOfEach PROVE Spec => ReleaseNeedsAgreement
<1>1. WriterInv /\ [Next]_vars =>
        [\A i \in Ids : HeldCredit(i) /\ ~HeldCredit(i)' =>
            \E b \in Boxes : /\ challenges[i][b] = Torn
                             /\ challenges'[i][b] \in Counters
                             /\ Agrees(receipts[i], challenges'[i][b])]_vars
  BY ReleaseStep
<1>2. Init => WriterInv
  BY InitWriter
<1>3. WriterInv /\ [Next]_vars => WriterInv'
  BY WriterStep
<1> QED
  BY <1>1, <1>2, <1>3, PTL DEF Spec, ReleaseNeedsAgreement

-----------------------------------------------------------------------------
\* The files implement LedgerPromise: every step of Ledger is a step of the promise
\* or leaves the record, the evidence and the published totals as they are.  Beyond
\* WriterInv the argument needs to know that a document that was computed and not
\* written yet, however late it is written and whatever was filed meanwhile, holds the
\* totals of records and challenges the ledger has.

record == [i \in Ids |-> Readable(receipts[i])]
evidence == [i \in Ids |-> [b \in Boxes |-> Readable(challenges[i][b])]]

Publishing == {"open current", "write current"}

\* rs, cs are what a reader could have seen of the ledger, now or earlier.
Seen(rs, cs) == rs \in Promise!KnownRecords /\ cs \in Promise!KnownEvidence

DocKnown ==
    \A p \in Procs : pc[p] \in Publishing => \E rs, cs : Seen(rs, cs) /\ doc[p] = Totals(rs, cs)

\* verify_receipt ran before the file was opened.
HandVerified == \A p \in Procs : pc[p] \in Finishing => Verified(hand[p])

RefinementInv == WriterInv /\ HandVerified /\ DocKnown

-----------------------------------------------------------------------------
\* What a reader sees of the files

\* A file counts as filed exactly when it can be read.
LEMMA FiledRecord ==
    /\ Filed(record) = Filed(receipts)
    /\ \A i \in Filed(receipts) : record[i] = receipts[i]
    /\ \A i \in Ids : Challengers(evidence, i) = Challengers(challenges, i)
    /\ \A i \in Ids : \A b \in Challengers(challenges, i) : evidence[i][b] = challenges[i][b]
BY FilesAssumption DEF Filed, Challengers, record, evidence, Readable

\* A torn file moves no total: the totals of the files are those of what can
\* be read of them.
LEMMA TotalsOfFiles == Totals(receipts, challenges) = Totals(record, evidence)
<1>1. Superseded(record) = Superseded(receipts)
  BY FiledRecord DEF Superseded
<1>2. Canonical(record) = Canonical(receipts) /\ Canonical(receipts) \subseteq Filed(receipts)
  BY <1>1, FiledRecord DEF Canonical
<1>3. \A i \in Filed(receipts) : Held(record, evidence, i) <=> Held(receipts, challenges, i)
  <2> SUFFICES ASSUME NEW i \in Filed(receipts)
               PROVE  Held(record, evidence, i) <=> Held(receipts, challenges, i)
    OBVIOUS
  <2>1. i \in Ids /\ record[i] = receipts[i] /\ Challengers(evidence, i) = Challengers(challenges, i)
    BY FiledRecord DEF Filed
  <2>2. \A b \in Challengers(challenges, i) : evidence[i][b] = challenges[i][b]
    BY <2>1, FiledRecord
  <2>3. Confirming(record, evidence, i) = Confirming(receipts, challenges, i)
    BY <2>1, <2>2 DEF Confirming
  <2>4. Disputing(record, evidence, i) = Disputing(receipts, challenges, i)
    BY <2>1, <2>2 DEF Disputing
  <2> QED
    BY <2>3, <2>4 DEF Held
<1>4. HeldReceipts(record, evidence) = HeldReceipts(receipts, challenges)
  BY <1>2, <1>3 DEF HeldReceipts
<1>5. Paid(record, evidence) = Paid(receipts, challenges)
  BY <1>2, <1>3, FiledRecord DEF Paid
<1> QED
  BY <1>1, <1>2, <1>4, <1>5 DEF Totals

\* The whole of what is filed can be seen.
LEMMA AllSeen == Seen(record, evidence)
<1>1. record \in Promise!KnownRecords
  <2>1. record = [i \in Ids |-> IF i \in Filed(record) THEN record[i] ELSE Absent]
    BY FilesAssumption DEF record, Filed, Readable
  <2> QED
    BY <2>1 DEF Promise!KnownRecords, record, Promise!Filed, Filed
<1>2. evidence \in Promise!KnownEvidence
  <2> DEFINE K == {p \in Ids \X Boxes : evidence[p[1]][p[2]] # Absent}
  <2>1. \A i \in Ids, b \in Boxes :
            evidence[i][b] = IF <<i, b>> \in K THEN evidence[i][b] ELSE Absent
    OBVIOUS
  <2>2. evidence = [i \in Ids |-> [b \in Boxes |-> IF <<i, b>> \in K THEN evidence[i][b] ELSE Absent]]
    BY <2>1 DEF evidence
  <2> QED
    BY <2>2 DEF Promise!KnownEvidence, evidence
<1> QED
  BY <1>1, <1>2 DEF Seen

\* So can the receipts without their challenges, which is what `show` looks at.
LEMMA ReceiptsSeen == Seen(record, NoChallenges)
<1>1. NoChallenges \in Promise!KnownEvidence
  <2> DEFINE K == {p \in Ids \X Boxes : FALSE}
  <2>1. NoChallenges = [i \in Ids |-> [b \in Boxes |-> IF <<i, b>> \in K THEN evidence[i][b] ELSE Absent]]
    BY DEF NoChallenges
  <2> QED
    BY <2>1 DEF Promise!KnownEvidence, evidence
<1> QED
  BY <1>1, AllSeen DEF Seen

\* What could be seen of the ledger can be seen of it later.
LEMMA SeenLater ==
    ASSUME Appends, NEW rs, NEW cs, Seen(rs, cs)
    PROVE  Seen(rs, cs)'
<1>1. \A i \in Filed(receipts) : i \in Filed(receipts)' /\ record'[i] = record[i]
  BY DEF Appends, Filed, record
<1>2. rs \in Promise!KnownRecords'
  <2>1. PICK K \in SUBSET Filed(record) :
            rs = [i \in Ids |-> IF i \in K THEN record[i] ELSE Absent]
    BY DEF Seen, Promise!KnownRecords, Promise!Filed, Filed, record
  <2>2. K \subseteq Filed(record)'
    BY <1>1, <2>1, FiledRecord, FilesAssumption DEF Filed, record, Readable
  <2>3. \A i \in K : record'[i] = record[i]
    BY <1>1, <2>1, FiledRecord
  <2>4. rs = [i \in Ids |-> IF i \in K THEN record'[i] ELSE Absent]
    BY <2>1, <2>3
  <2> QED
    BY <2>2, <2>4 DEF Promise!KnownRecords, Promise!Filed, Filed, record
<1>3. cs \in Promise!KnownEvidence'
  <2> DEFINE Known == {p \in Ids \X Boxes : evidence[p[1]][p[2]] # Absent}
  <2>1. PICK K \in SUBSET Known :
            cs = [i \in Ids |-> [b \in Boxes |-> IF <<i, b>> \in K THEN evidence[i][b] ELSE Absent]]
    BY DEF Seen, Promise!KnownEvidence, evidence
  <2>2. \A i \in Ids, b \in Boxes : evidence[i][b] # Absent => b \in Challengers(challenges, i)
    BY DEF evidence, Readable, Challengers
  <2>3. \A i \in Ids, b \in Boxes : evidence[i][b] # Absent => evidence'[i][b] = evidence[i][b]
    BY <2>2 DEF Appends, evidence
  <2>4. K \subseteq Known'
    BY <2>1, <2>3
  <2>5. \A i \in Ids, b \in Boxes : <<i, b>> \in K => evidence'[i][b] = evidence[i][b]
    BY <2>1, <2>3
  <2>6. cs = [i \in Ids |-> [b \in Boxes |-> IF <<i, b>> \in K THEN evidence'[i][b] ELSE Absent]]
    BY <2>1, <2>5
  <2> QED
    BY <2>4, <2>6 DEF Promise!KnownEvidence, evidence
<1> QED
  BY <1>2, <1>3 DEF Seen

-----------------------------------------------------------------------------
\* The invariant

LEMMA InitRefinement == Init => RefinementInv
BY InitWriter DEF Init, RefinementInv, HandVerified, DocKnown, Finishing, Publishing, Procs

\* A step that hands no process a new document keeps DocKnown.
LEMMA DocsKept ==
    ASSUME DocKnown, Appends,
           \A q \in Procs : pc'[q] \in Publishing =>
               \/ pc[q] \in Publishing /\ doc'[q] = doc[q]
               \/ \E rs, cs : Seen(rs, cs) /\ doc'[q] = Totals(rs, cs)
    PROVE  DocKnown'
<1> SUFFICES ASSUME NEW q \in Procs, pc'[q] \in Publishing
             PROVE  \E rs, cs : Seen(rs, cs)' /\ doc'[q] = Totals(rs, cs)
  BY DEF DocKnown
<1>1. PICK rs, cs : Seen(rs, cs) /\ doc'[q] = Totals(rs, cs)
  BY DEF DocKnown
<1>2. Seen(rs, cs)'
  BY <1>1, SeenLater
<1> QED
  BY <1>1, <1>2

LEMMA RefinementStep ==
    ASSUME OneOfEach
    PROVE  RefinementInv /\ [Next]_vars => RefinementInv'
<1> SUFFICES ASSUME RefinementInv, [Next]_vars
             PROVE  RefinementInv'
  OBVIOUS
<1>0. WriterInv /\ WriterInv' /\ Appends /\ TypeOK
  BY WriterStep, StepAppends DEF RefinementInv, WriterInv
<1> SUFFICES HandVerified' /\ DocKnown'
  BY <1>0 DEF RefinementInv
<1>1. ASSUME NEW p \in Procs, NEW r \in Receipts, AppendReceipt(p, r)
      PROVE  HandVerified' /\ DocKnown'
  <2>1. \A q \in Procs : IF q = p THEN pc'[q] = "open receipt" /\ hand'[q] = r
                                  ELSE pc'[q] = pc[q] /\ hand'[q] = hand[q]
    BY <1>0, <1>1 DEF AppendReceipt, Goto, Hold, TypeOK
  <2>2. Verified(r) /\ doc' = doc
    BY <1>1 DEF AppendReceipt
  <2>3. HandVerified'
    BY <2>1, <2>2 DEF RefinementInv, HandVerified
  <2>4. DocKnown'
    BY <1>0, <2>1, <2>2, DocsKept DEF RefinementInv, Publishing
  <2> QED
    BY <2>3, <2>4
<1>2. ASSUME NEW p \in Procs, Show(p)
      PROVE  HandVerified' /\ DocKnown'
  <2>1. /\ \A q \in Procs : pc'[q] = IF q = p THEN "open current" ELSE pc[q]
        /\ hand' = hand
        /\ \A q \in Procs : doc'[q] = IF q = p THEN Totals(receipts, NoChallenges) ELSE doc[q]
    BY <1>0, <1>2 DEF Show, Goto, TypeOK
  <2>2. record = receipts
    BY <1>0, <1>2 DEF Show, TornReceipt, record, Readable, TypeOK
  <2>3. HandVerified'
    BY <2>1 DEF RefinementInv, HandVerified, Finishing
  <2>4. DocKnown'
    BY <1>0, <2>1, <2>2, ReceiptsSeen, DocsKept DEF RefinementInv
  <2> QED
    BY <2>3, <2>4
<1>3. ASSUME NEW p \in Procs, ComputeCurrent(p)
      PROVE  HandVerified' /\ DocKnown'
  <2>1. /\ \A q \in Procs : pc'[q] = IF q = p THEN "open current" ELSE pc[q]
        /\ hand' = hand
        /\ \A q \in Procs : doc'[q] = IF q = p THEN Totals(receipts, challenges) ELSE doc[q]
    BY <1>0, <1>3 DEF ComputeCurrent, Goto, TypeOK
  <2>2. HandVerified'
    BY <2>1 DEF RefinementInv, HandVerified, Finishing
  <2>3. DocKnown'
    BY <1>0, <2>1, AllSeen, TotalsOfFiles, DocsKept DEF RefinementInv
  <2> QED
    BY <2>2, <2>3
<1>4. ASSUME NEW p \in Procs, WriteCurrent(p) \/ UpdateFails(p) \/ Crash(p)
      PROVE  HandVerified' /\ DocKnown'
  <2>1. \A q \in Procs : IF q = p THEN pc'[q] = "idle"
                                  ELSE pc'[q] = pc[q] /\ hand'[q] = hand[q] /\ doc'[q] = doc[q]
    BY <1>0, <1>4 DEF WriteCurrent, UpdateFails, Crash, Return, Goto, Hold, TypeOK
  <2>2. HandVerified'
    BY <2>1 DEF RefinementInv, HandVerified, Finishing
  <2>3. DocKnown'
    BY <1>0, <2>1, DocsKept DEF RefinementInv, Publishing
  <2> QED
    BY <2>2, <2>3
<1>5. ASSUME NEW p \in Procs, NEW c \in Counters, FileChallenge(p, c)
      PROVE  HandVerified' /\ DocKnown'
  <2>1. \A q \in Procs : IF q = p THEN pc'[q] = "open challenge"
                                  ELSE pc'[q] = pc[q] /\ hand'[q] = hand[q]
    BY <1>0, <1>5 DEF FileChallenge, Goto, Hold, TypeOK
  <2>2. HandVerified'
    BY <2>1 DEF RefinementInv, HandVerified, Finishing
  <2>3. doc' = doc
    BY <1>5 DEF FileChallenge
  <2>4. DocKnown'
    BY <1>0, <2>1, <2>3, DocsKept DEF RefinementInv, Publishing
  <2> QED
    BY <2>2, <2>4
<1>6. ASSUME NEW p \in Procs,
             \/ SyncHolds(p) \/ OpenReceipt(p) \/ WriteReceipt(p) \/ OpenChallenge(p)
             \/ WriteChallenge(p) \/ OpenCurrent(p)
      PROVE  HandVerified' /\ DocKnown'
  <2>1. hand' = hand /\ doc' = doc
    BY <1>6 DEF SyncHolds, OpenReceipt, WriteReceipt, OpenChallenge, WriteChallenge, OpenCurrent
  <2>2. \A q \in Procs : /\ pc'[q] \in Finishing => pc[q] \in Finishing
                         /\ pc'[q] \in Publishing => pc[q] \in Publishing
    BY <1>0, <1>6 DEF SyncHolds, OpenReceipt, WriteReceipt, OpenChallenge, WriteChallenge,
                      OpenCurrent, Goto, TypeOK, Finishing, Publishing
  <2>3. HandVerified'
    BY <2>1, <2>2 DEF RefinementInv, HandVerified
  <2>4. DocKnown'
    BY <1>0, <2>1, <2>2, DocsKept DEF RefinementInv
  <2> QED
    BY <2>3, <2>4
<1>7. CASE UNCHANGED vars
  BY <1>0, <1>7, DocsKept DEF vars, RefinementInv, HandVerified
<1> QED
  BY <1>1, <1>2, <1>3, <1>4, <1>5, <1>6, <1>7 DEF Next, Step, Procs

-----------------------------------------------------------------------------
\* The steps

\* The promise means by its operators what the ledger means by its own.
LEMMA SameRules ==
    /\ \A r : Promise!Verified(r) <=> Verified(r)
    /\ \A r, c : Promise!MayChallenge(r, c) <=> MayChallenge(r, c)
    /\ \A rs : Promise!Filed(rs) = Filed(rs)
    /\ \A rs, cs : Promise!Totals(rs, cs) = Totals(rs, cs)
<1>1. \A r : Promise!Verified(r) <=> Verified(r)
  BY DEF Promise!Verified, Verified, Promise!Crediting, Crediting
<1>2. \A r, c : Promise!MayChallenge(r, c) <=> MayChallenge(r, c)
  BY DEF Promise!MayChallenge, MayChallenge
<1>3. \A rs : Promise!Filed(rs) = Filed(rs)
  BY DEF Promise!Filed, Filed
<1>4. \A r, c : Promise!Agrees(r, c) <=> Agrees(r, c)
  BY DEF Promise!Agrees, Agrees, Promise!Compared, Compared, Promise!NotMeasured, NotMeasured,
         Promise!Abs, Abs
<1>5. \A cs, i : Promise!Challengers(cs, i) = Challengers(cs, i)
  BY DEF Promise!Challengers, Challengers
<1>6. \A rs, cs, i : /\ Promise!Confirming(rs, cs, i) = Confirming(rs, cs, i)
                     /\ Promise!Disputing(rs, cs, i) = Disputing(rs, cs, i)
  BY <1>4, <1>5 DEF Promise!Confirming, Confirming, Promise!Disputing, Disputing
<1>7. \A rs, cs, i : Promise!Held(rs, cs, i) <=> Held(rs, cs, i)
  BY <1>6 DEF Promise!Held, Held, Promise!Cardinality, Cardinality
<1>8. \A rs : /\ Promise!Superseded(rs) = Superseded(rs)
              /\ Promise!Canonical(rs) = Canonical(rs)
  BY <1>3 DEF Promise!Superseded, Superseded, Promise!Canonical, Canonical
<1>9. \A rs, cs : /\ Promise!HeldReceipts(rs, cs) = HeldReceipts(rs, cs)
                  /\ Promise!Paid(rs, cs) = Paid(rs, cs)
  BY <1>7, <1>8 DEF Promise!HeldReceipts, HeldReceipts, Promise!Paid, Paid,
                    Promise!Crediting, Crediting
<1>10. \A rs, cs : Promise!Totals(rs, cs) = Totals(rs, cs)
  BY <1>8, <1>9 DEF Promise!Totals, Totals
<1> QED
  BY <1>1, <1>2, <1>3, <1>10

\* Every step is one the promise allows, or shows a reader nothing.
LEMMA StepImplements ==
    ASSUME RefinementInv, RefinementInv', [Next]_vars
    PROVE  [Promise!Next]_<<record, evidence, current>>
<1>0. WriterInv /\ TypeOK /\ TypeOK'
  BY DEF RefinementInv, WriterInv
<1>1. CASE UNCHANGED files
  BY <1>1 DEF files, record, evidence
<1>2. ASSUME NEW p \in Procs, OpenReceipt(p)
      PROVE  UNCHANGED <<record, evidence, current>>
  <2> DEFINE id == hand[p].id
  <2>1. /\ id \in Ids
        /\ receipts' = [receipts EXCEPT ![id] = Torn]
        /\ challenges' = challenges /\ current' = current
    BY <1>0, <1>2, InputShape DEF OpenReceipt, TypeOK
  <2>2. receipts[id] = Absent
    BY <1>2 DEF RefinementInv, WriterInv, ReceiptPending, OpenReceipt
  <2>3. record' = record
    BY <1>0, <2>1, <2>2 DEF record, Readable, TypeOK
  <2> QED
    BY <2>1, <2>3 DEF evidence
<1>3. ASSUME NEW p \in Procs, WriteReceipt(p)
      PROVE  Promise!Finalize(hand[p])
  <2> DEFINE r == hand[p]
  <2>1. /\ r \in Receipts /\ r.id \in Ids /\ r \notin {Absent, Torn}
        /\ receipts' = [receipts EXCEPT ![r.id] = r]
        /\ challenges' = challenges /\ current' = current
    BY <1>0, <1>3, InputShape, FilesAssumption DEF WriteReceipt, TypeOK
  <2>2. receipts[r.id] = Torn /\ Verified(r)
    BY <1>3 DEF RefinementInv, WriterInv, ReceiptPending, HandVerified, Finishing, WriteReceipt
  <2>3. record[r.id] = Absent
    BY <2>1, <2>2 DEF record, Readable
  <2>4. record' = [record EXCEPT ![r.id] = r]
    BY <1>0, <2>1 DEF record, Readable, TypeOK
  <2>5. evidence' = evidence
    BY <2>1 DEF evidence
  <2> QED
    BY <2>1, <2>2, <2>3, <2>4, <2>5, SameRules DEF Promise!Finalize, record, evidence
<1>4. ASSUME NEW p \in Procs, OpenChallenge(p)
      PROVE  UNCHANGED <<record, evidence, current>>
  <2> DEFINE id == hand[p].id
             box == hand[p].box
  <2>1. /\ id \in Ids /\ box \in Boxes
        /\ challenges' = [challenges EXCEPT ![id][box] = Torn]
        /\ receipts' = receipts /\ current' = current
    BY <1>0, <1>4, InputShape DEF OpenChallenge, TypeOK
  <2>2. challenges[id][box] = Absent
    BY <1>4 DEF RefinementInv, WriterInv, ChallengePending, OpenChallenge
  <2>3. \A i \in Ids, b \in Boxes :
            challenges'[i][b] = IF i = id /\ b = box THEN Torn ELSE challenges[i][b]
    BY <1>0, <2>1 DEF TypeOK
  <2>4. \A i \in Ids, b \in Boxes : Readable(challenges'[i][b]) = Readable(challenges[i][b])
    BY <2>2, <2>3 DEF Readable
  <2> QED
    BY <2>1, <2>4 DEF record, evidence
<1>5. ASSUME NEW p \in Procs, WriteChallenge(p)
      PROVE  Promise!Challenge(hand[p])
  <2> DEFINE c == hand[p]
  <2>1. /\ c \in Counters /\ c.id \in Ids /\ c.box \in Boxes /\ c \notin {Absent, Torn}
        /\ challenges' = [challenges EXCEPT ![c.id][c.box] = c]
        /\ receipts' = receipts /\ current' = current
    BY <1>0, <1>5, InputShape, FilesAssumption DEF WriteChallenge, TypeOK
  <2>2. /\ challenges[c.id][c.box] = Torn
        /\ c.id \in Filed(receipts) /\ MayChallenge(receipts[c.id], c)
    BY <1>5 DEF RefinementInv, WriterInv, ChallengePending, Filing, WriteChallenge
  <2>3. evidence[c.id][c.box] = Absent
    BY <2>1, <2>2 DEF evidence, Readable
  <2>4. \A i \in Ids, b \in Boxes :
            challenges'[i][b] = IF i = c.id /\ b = c.box THEN c ELSE challenges[i][b]
    BY <1>0, <2>1 DEF TypeOK
  <2>5. \A i \in Ids, b \in Boxes :
            evidence'[i][b] = IF i = c.id /\ b = c.box THEN c ELSE evidence[i][b]
    BY <2>1, <2>4 DEF evidence, Readable
  <2>6. evidence' = [evidence EXCEPT ![c.id][c.box] = c]
    <3> DEFINE E == [evidence EXCEPT ![c.id][c.box] = c]
    <3>1. \A i \in Ids : evidence'[i] = E[i]
      <4> SUFFICES ASSUME NEW i \in Ids PROVE evidence'[i] = E[i]
        OBVIOUS
      <4>1. evidence'[i] = [b \in Boxes |-> evidence'[i][b]]
        BY DEF evidence
      <4>2. evidence[i] = [b \in Boxes |-> evidence[i][b]]
        BY DEF evidence
      <4>3. E[i] = IF i = c.id THEN [evidence[i] EXCEPT ![c.box] = c] ELSE evidence[i]
        BY DEF evidence
      <4>4. CASE i = c.id
        BY <2>5, <4>1, <4>2, <4>3, <4>4
      <4>5. CASE i # c.id
        BY <2>5, <4>1, <4>2, <4>3, <4>5
      <4> QED
        BY <4>4, <4>5
    <3>2. evidence' = [i \in Ids |-> evidence'[i]] /\ E = [i \in Ids |-> E[i]]
      BY DEF evidence
    <3> HIDE DEF E
    <3>3. evidence' = E
      BY <3>1, <3>2
    <3> QED
      BY <3>3 DEF E
  <2>7. record' = record
    BY <2>1 DEF record
  <2>8. c.id \in Filed(record) /\ MayChallenge(record[c.id], c)
    BY <2>2, FiledRecord
  <2> QED
    BY <2>1, <2>3, <2>6, <2>7, <2>8, SameRules DEF Promise!Challenge, record, evidence
<1>6. ASSUME NEW p \in Procs, OpenCurrent(p)
      PROVE  Promise!Unreadable
  BY <1>6 DEF OpenCurrent, Promise!Unreadable
<1>7. ASSUME NEW p \in Procs, WriteCurrent(p)
      PROVE  Promise!Publish
  <2>1. current' = doc[p] /\ receipts' = receipts /\ challenges' = challenges
    BY <1>7 DEF WriteCurrent
  <2>2. PICK rs, cs : Seen(rs, cs) /\ doc[p] = Totals(rs, cs)
    BY <1>7 DEF RefinementInv, DocKnown, Publishing, WriteCurrent
  <2>3. current' = Promise!Totals(rs, cs)
    BY <2>1, <2>2, SameRules
  <2> QED
    BY <2>1, <2>2, <2>3 DEF Promise!Publish, Seen
<1> QED
  <2>1. \/ UNCHANGED files
        \/ \E p \in Procs : \/ OpenReceipt(p) \/ WriteReceipt(p) \/ OpenChallenge(p)
                            \/ WriteChallenge(p) \/ OpenCurrent(p) \/ WriteCurrent(p)
    BY DEF Next, Step, vars, files, SyncHolds, AppendReceipt, Show, FileChallenge, UpdateFails,
           ComputeCurrent, Crash
  <2>2. \A p \in Procs : /\ pc[p] = "write receipt" => hand[p] \in Receipts
                         /\ pc[p] = "write challenge" => hand[p] \in Counters
    BY <1>0 DEF TypeOK
  <2>3. \A p \in Procs : WriteReceipt(p) => Promise!Next
    BY <1>3, <2>2 DEF Promise!Next, WriteReceipt
  <2>4. \A p \in Procs : WriteChallenge(p) => Promise!Next
    BY <1>5, <2>2 DEF Promise!Next, WriteChallenge
  <2>5. \A p \in Procs : OpenCurrent(p) \/ WriteCurrent(p) => Promise!Next
    BY <1>6, <1>7 DEF Promise!Next
  <2> QED
    BY <1>1, <1>2, <1>4, <2>1, <2>3, <2>4, <2>5

LEMMA InitImplements == Init => Promise!Init
BY FilesAssumption
   DEF Init, Promise!Init, Promise!NoReceipts, Promise!NoChallenges, NoReceipts, NoChallenges,
       Readable

\* The ledger keeps its promise: with one scorer and one filer at a time, and
\* whatever process dies at whatever step, a reader sees finalized receipts and
\* independent challenges appear and never change, and only totals of records
\* the ledger really holds.
THEOREM LedgerKeepsPromise == ASSUME OneOfEach PROVE Spec => PromiseKept
<1>1. Init => RefinementInv /\ Promise!Init
  BY InitRefinement, InitImplements
<1>2. RefinementInv /\ [Next]_vars => RefinementInv'
  BY RefinementStep
<1>3. RefinementInv /\ RefinementInv' /\ [Next]_vars
        => [Promise!Next]_<<record, evidence, current>>
  BY StepImplements
<1>4. <<record, evidence, current>> = Promise!vars
  BY DEF Promise!vars, record, evidence
<1>5. RefinementInv /\ RefinementInv' /\ [Next]_vars => [Promise!Next]_(Promise!vars)
  BY <1>3 DEF Promise!vars, record, evidence
<1> QED
  BY <1>1, <1>2, <1>5, PTL DEF Spec, PromiseKept, Promise!Spec

=============================================================================
