\* Two receipts that may offset each other, two transactions at a time.
SPECIFICATION Spec
CONSTANTS
    r1 = r1
    r2 = r2
    w1 = w1
    w2 = w2
    Receipts <- TwoReceipts
    Writers <- TwoWriters
    Totals <- TwoTotals
    Rates <- OneRate
    ResultKinds <- Answers
    Bodies <- TestBodies
    NULL = NULL
    Absent = Absent
    MaxRequests = 5
SYMMETRY Symmetric
INVARIANTS TypeOK RowsPassChecks ReviewedRowsSound LinksHold NoMutualOffsets
\* A behaviour ends when its requests are used up.
CHECK_DEADLOCK FALSE
