\* One receipt under edits: does only a mismatch take a confirmed receipt out of the stats?
SPECIFICATION Spec
CONSTANTS
    m1 = m1
    NULL = NULL
    Receipts <- OneReceipt
    Ticks = {t1}
    Requests = {"manual", "add_images", "patch"}
    Editors = {e1}
    Totals <- OneTotal
    Merchants <- NoMerchants
    Similar <- NoPairs
    EntryKinds <- PurchaseOnly
    ResultKinds <- PurchaseOnly
    MaxImages = 1
    Concurrency = 1
    MaxScanAttempts = 1
    MaxReclaims = 1
    MaxClaims = 1
    MaxUserOps = 2
    MaxFaults = 0
PROPERTIES LeavesStatsOnlyOnMismatch
