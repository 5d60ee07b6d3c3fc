\* Item writes and kind changes against everything else, and item inserts against scans.
SPECIFICATION Spec
CONSTANTS
    r1 = r1
    c1 = c1
    c2 = c2
    w1 = w1
    w2 = w2
    w3 = w3
    Receipts <- OneReceipt
    Categories <- TwoCategories
    Items <- TwoItems
    Writers <- ThreeWriters
    Mixes <- Together
    EntryKinds <- BothSides
    ResultKinds <- Answers
    NULL = NULL
    MaxRequests = 6
SYMMETRY Symmetric
INVARIANTS SidesAgree ReferencesExist
PROPERTIES LedgerLooksAtomic
\* A behaviour ends when its requests are used up.
CHECK_DEADLOCK FALSE
