\* An item is added while the kind of its receipt changes sides.
SPECIFICATION Spec
CONSTANTS
    r1 = r1
    c1 = c1
    c2 = c2
    w1 = w1
    w2 = w2
    w3 = w3
    Receipts <- OneReceipt
    Categories <- TwoCategories
    Items <- TwoItems
    Writers <- TwoWriters
    Mixes <- KindRaceMixes
    EntryKinds <- BothSides
    ResultKinds <- Answers
    NULL = NULL
    MaxRequests = 2
SYMMETRY Symmetric
INVARIANT CategoryFits
\* A behaviour ends when its requests are used up.
CHECK_DEADLOCK FALSE
