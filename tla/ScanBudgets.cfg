\* One receipt: late answers, added images, reclaims, retries and faults.
SPECIFICATION Spec
CONSTANTS
    m1 = m1
    NULL = NULL
    Receipts <- OneReceipt
    Ticks = {t1}
    Requests = {"upload", "manual", "add_images", "retry", "delete"}
    Editors = {}
    Totals <- TwoTotals
    Merchants <- NoMerchants
    Similar <- NoPairs
    EntryKinds <- PurchaseOnly
    ResultKinds <- PurchaseOnly
    MaxImages = 2
    Concurrency = 1
    MaxScanAttempts = 2
    MaxReclaims = 2
    MaxClaims = 2
    MaxUserOps = 3
    MaxFaults = 2
INVARIANTS TypeOK IdleEvidenceIsComplete FailedOnlyWhenBudgetSpent
PROPERTIES ChargesHoldingClaim LeavesStatsOnlyOnMismatch ScansLookAtomic
