\* Two upload or attach requests of two users race each other and a delete; one call may fail.
SPECIFICATION FairSpec
CONSTANTS
    Nobody = Nobody
    Users = {u1, u2}
    Receipts = {1, 2, 3}
    Manual = {1}
    Requests = {q1, q2}
    Deleters = {d1}
    Shas = {a}
    MaxImages = 2
    MaxBatch = 2
    MaxFaults = 1
INVARIANTS TypeOK RowsHaveImages BatchAllOrNothing CapHolds ReceiptsHaveImages RowsBelongToOwner
    OrphansAreExplained
PROPERTIES UnforcedAddsNoDuplicate EveryRequestEnds
