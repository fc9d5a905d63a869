CONSTANTS
    p1 = p1  p2 = p2  k1 = k1
    b0 = b0  b1 = b1  b2 = b2
    cell = cell
    Ids = {p1, p2, k1}
    Boxes = {b0, b1, b2}
    Cells = {cell}
    Floor <- MCFloor
    MaxGap = 3
    Absent = Absent
    Torn = Torn
    None = None
    Receipts <- MCReceipts
    Counters <- MCCounters
    Scorers = {e}
    Filers = {o}
    MaxCrashes = 0
SPECIFICATION Spec
INVARIANT FreshWhenIdle
