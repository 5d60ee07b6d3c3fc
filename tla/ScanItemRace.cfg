\* One reviewed receipt under item edits: are scanned items added only where there are none?
SPECIFICATION Spec
CONSTANTS
    m1 = m1
    NULL = NULL
    Receipts <- OneReceipt
    Ticks = {t1}
    Requests = {"upload", "patch", "item_create"}
    Editors = {e1}
    Totals <- OneTotal
    Merchants <- NoMerchants
    Similar <- NoPairs
    EntryKinds <- PurchaseOnly
    ResultKinds <- PurchaseOnly
    MaxImages = 1
    Concurrency = 1
    MaxScanAttempts = 1
    MaxReclaims = 1
    MaxClaims = 1
    MaxUserOps = 2
    MaxFaults = 0
PROPERTIES ItemsFilledOnlyIfNone
