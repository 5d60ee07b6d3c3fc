\* Three overlapping ticks: is the scan cap soft by one tick's worth of claims?
SPECIFICATION Spec
CONSTANTS
    m1 = m1
    NULL = NULL
    Receipts <- ThreeReceipts
    Ticks = {t1, t2, t3}
    Requests = {"upload"}
    Editors = {}
    Totals <- OneTotal
    Merchants <- NoMerchants
    Similar <- NoPairs
    EntryKinds <- PurchaseOnly
    ResultKinds <- PurchaseOnly
    MaxImages = 1
    Concurrency = 1
    MaxScanAttempts = 1
    MaxReclaims = 1
    MaxClaims = 1
    MaxUserOps = 0
    MaxFaults = 0
INVARIANTS CapSoftByOneTick
