\* One scan call at the default timings.
SPECIFICATION Spec
CONSTANTS
    Timeout = 120
    MaxRetries = 2
    MaxBackoff = 30
    ReclaimAfter = 600
    Rescan = TRUE
    Durations = {1, 120}
    NoHeader = NoHeader
    NoSubtotal = NoSubtotal
    NoKind = NoKind
    RetryAfters <- Headers
    Outputs <- Documents
INVARIANTS CallFitsReclaimWindow RequestsBounded ReturnsLatestReading
PROPERTIES FirstScanStands
