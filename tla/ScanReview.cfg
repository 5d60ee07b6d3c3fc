\* One receipt edited and reviewed, fields and items, while its scans are in flight.
SPECIFICATION Spec
CONSTANTS
    m1 = m1
    NULL = NULL
    Receipts <- OneReceipt
    Ticks = {t1}
    Requests = {"upload", "manual", "add_images", "patch", "item_create", "item_delete"}
    Editors = {e1}
    Totals <- TwoTotals
    Merchants <- OneMerchant
    Similar <- SameMerchant
    EntryKinds <- PurchaseOnly
    ResultKinds <- PurchaseOrTransfer
    MaxImages = 1
    Concurrency = 1
    MaxScanAttempts = 1
    MaxReclaims = 1
    MaxClaims = 1
    MaxUserOps = 3
    MaxFaults = 0
INVARIANTS ExtractionKindHasDirection
PROPERTIES ReviewedFieldsKept ReviewedItemsKept VerdictMatchesEvidence
