\* Two receipts share one slot, through requeues, added images, a hung or lost scan or a crash.
SPECIFICATION FairSpec
CONSTANTS
    m1 = m1
    NULL = NULL
    Receipts <- TwoReceipts
    Ticks = {t1}
    Requests = {"manual", "add_images"}
    Editors = {}
    Totals <- OneTotal
    Merchants <- NoMerchants
    Similar <- NoPairs
    EntryKinds <- PurchaseOnly
    ResultKinds <- PurchaseOnly
    MaxImages = 2
    Concurrency = 1
    MaxScanAttempts = 2
    MaxReclaims = 1
    MaxClaims = 3
    MaxUserOps = 2
    MaxFaults = 1
PROPERTIES QueuedReceiptSettles
