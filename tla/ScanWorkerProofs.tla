-------------------------- MODULE ScanWorkerProofs --------------------------
(***************************************************************************)
(* PipelineInvariant is inductive, for every set of receipts, ticks and    *)
(* editors and every value of the limits.                                  *)
(***************************************************************************)
EXTENDS ScanWorker, FiniteSetTheorems, TLAPS

USE DEF Claims

(* A claim names a receipt and a token. *)
LEMMA ClaimParts ==
    ASSUME NEW c \in Claims
    PROVE  c[1] \in Receipts /\ c[2] \in 1..MaxClaims /\ c[2] \in Nat
  BY LimitsAssumption

LEMMA FreeSlotsType == FreeSlots \in 0..Concurrency
  <1>1. IsFiniteSet(Scanning)
    BY FS_Subset, ReceiptsAssumption DEF Scanning
  <1>2. Cardinality(Scanning) \in Nat
    BY <1>1, FS_CardinalityType
  <1> QED
    BY <1>2, LimitsAssumption DEF FreeSlots

LEMMA NoScanType == NoScan \in ScanLocals
  BY LimitsAssumption DEF NoScan, ScanLocals, ScanPcs, Snapshots, NoSnapshot

LEMMA EntriesAreFields == Entries \subseteq Fields
  BY DocumentAssumption DEF Entries, Fields

LEMMA InitInvariant == Init => PipelineInvariant
  <1> SUFFICES ASSUME Init PROVE PipelineInvariant
    OBVIOUS
  <1> USE DEF Init
  <1>1. TypeOK
    BY NoScanType, LimitsAssumption, DocumentAssumption
    DEF TypeOK, NoTick, NoPatch, NoRaw, BlankFields, DefaultKind, Fields, KnownKinds
  <1>2. /\ IdleEvidenceIsComplete
        /\ UnusedRowsBlank
        /\ QueuedHasImages
        /\ HolderIsLatestClaim
        /\ FailedOnlyWhenBudgetSpent
    BY DEF IdleEvidenceIsComplete, UnusedRowsBlank, QueuedHasImages, HolderIsLatestClaim,
           FailedOnlyWhenBudgetSpent, NoRaw
  <1>3. /\ LiveScansReadAllImages
        /\ TerminalOnlyWhenGone
        /\ FutureClaimsUnused
        /\ VerifyingIsReviewed
        /\ ResultKindChecked
        /\ WritesAreStamped
    BY ClaimParts DEF LiveScansReadAllImages, TerminalOnlyWhenGone, FutureClaimsUnused, VerifyingIsReviewed,
           ResultKindChecked, WritesAreStamped, NoScan, Live, Applying, Reading
  <1> QED
    BY <1>1, <1>2, <1>3 DEF PipelineInvariant

(* One lemma per action: the types, the row invariants, the scan           *)
(* invariants.                                                             *)

LEMMA UploadStep ==
    ASSUME PipelineInvariant, NEW r \in Receipts, Upload(r)
    PROVE  PipelineInvariant'
  <1> USE DEF Upload, NextId, itemVars, boundVars, PipelineInvariant
  <1>1. TypeOK'
    BY LimitsAssumption DEF TypeOK, ScanStates
  <1>2. /\ IdleEvidenceIsComplete'
        /\ UnusedRowsBlank'
        /\ QueuedHasImages'
        /\ HolderIsLatestClaim'
        /\ FailedOnlyWhenBudgetSpent'
    BY DEF TypeOK, IdleEvidenceIsComplete, UnusedRowsBlank, QueuedHasImages, HolderIsLatestClaim,
       FailedOnlyWhenBudgetSpent
  <1>3. /\ LiveScansReadAllImages'
        /\ TerminalOnlyWhenGone'
        /\ FutureClaimsUnused'
        /\ VerifyingIsReviewed'
        /\ ResultKindChecked'
        /\ WritesAreStamped'
    BY ClaimParts DEF TypeOK, LiveScansReadAllImages, TerminalOnlyWhenGone, FutureClaimsUnused,
       VerifyingIsReviewed, ResultKindChecked, WritesAreStamped, Live, Reviewed
  <1> QED
    BY <1>1, <1>2, <1>3

LEMMA CreateManualStep ==
    ASSUME PipelineInvariant, NEW r \in Receipts, CreateManual(r)
    PROVE  PipelineInvariant'
  <1> USE DEF CreateManual, NextId, evidenceVars, boundVars, PipelineInvariant
  <1>1. TypeOK'
    BY LimitsAssumption, EntriesAreFields DEF TypeOK, ScanStates
  <1>2. /\ IdleEvidenceIsComplete'
        /\ UnusedRowsBlank'
        /\ QueuedHasImages'
        /\ HolderIsLatestClaim'
        /\ FailedOnlyWhenBudgetSpent'
    BY DEF TypeOK, IdleEvidenceIsComplete, UnusedRowsBlank, QueuedHasImages, HolderIsLatestClaim,
       FailedOnlyWhenBudgetSpent
  <1>3. /\ LiveScansReadAllImages'
        /\ TerminalOnlyWhenGone'
        /\ FutureClaimsUnused'
        /\ VerifyingIsReviewed'
        /\ ResultKindChecked'
        /\ WritesAreStamped'
    BY ClaimParts DEF TypeOK, LiveScansReadAllImages, TerminalOnlyWhenGone, FutureClaimsUnused,
       VerifyingIsReviewed, ResultKindChecked, WritesAreStamped, Live, Reviewed
  <1> QED
    BY <1>1, <1>2, <1>3

LEMMA AddImagesStep ==
    ASSUME PipelineInvariant, NEW r \in Receipts, AddImages(r)
    PROVE  PipelineInvariant'
  <1> USE DEF AddImages, FitsCap, UserRequest, Exists, ScanStates, claimVars, reviewVars,
              itemVars, evidenceVars, timeVars, boundVars, PipelineInvariant
  <1>1. TypeOK'
    BY LimitsAssumption DEF TypeOK
  <1>2. /\ IdleEvidenceIsComplete'
        /\ UnusedRowsBlank'
        /\ QueuedHasImages'
        /\ HolderIsLatestClaim'
        /\ FailedOnlyWhenBudgetSpent'
    BY DEF TypeOK, IdleEvidenceIsComplete, UnusedRowsBlank, QueuedHasImages, HolderIsLatestClaim,
       FailedOnlyWhenBudgetSpent
  <1>3. /\ LiveScansReadAllImages'
        /\ TerminalOnlyWhenGone'
        /\ FutureClaimsUnused'
        /\ VerifyingIsReviewed'
        /\ ResultKindChecked'
        /\ WritesAreStamped'
    BY ClaimParts DEF TypeOK, LiveScansReadAllImages, TerminalOnlyWhenGone, FutureClaimsUnused,
       VerifyingIsReviewed, ResultKindChecked, WritesAreStamped, Live, Reviewed
  <1> QED
    BY <1>1, <1>2, <1>3

LEMMA RetryScanStep ==
    ASSUME PipelineInvariant, NEW r \in Receipts, RetryScan(r)
    PROVE  PipelineInvariant'
  <1> USE DEF RetryScan, UserRequest, Exists, ScanStates, claimVars, reviewVars, itemVars,
              evidenceVars, timeVars, boundVars, PipelineInvariant
  <1>1. TypeOK'
    BY LimitsAssumption DEF TypeOK
  <1>2. /\ IdleEvidenceIsComplete'
        /\ UnusedRowsBlank'
        /\ QueuedHasImages'
        /\ HolderIsLatestClaim'
        /\ FailedOnlyWhenBudgetSpent'
    BY DEF TypeOK, IdleEvidenceIsComplete, UnusedRowsBlank, QueuedHasImages, HolderIsLatestClaim,
       FailedOnlyWhenBudgetSpent
  <1>3. /\ LiveScansReadAllImages'
        /\ TerminalOnlyWhenGone'
        /\ FutureClaimsUnused'
        /\ VerifyingIsReviewed'
        /\ ResultKindChecked'
        /\ WritesAreStamped'
    BY ClaimParts DEF TypeOK, LiveScansReadAllImages, TerminalOnlyWhenGone, FutureClaimsUnused,
       VerifyingIsReviewed, ResultKindChecked, WritesAreStamped, Live, Reviewed
  <1> QED
    BY <1>1, <1>2, <1>3

LEMMA DeleteReceiptStep ==
    ASSUME PipelineInvariant, NEW r \in Receipts, DeleteReceipt(r)
    PROVE  PipelineInvariant'
  <1> USE DEF DeleteReceipt, NoRaw, UserRequest, Exists, ScanStates, claimVars, reviewVars,
              itemVars, evidenceVars, timeVars, boundVars, PipelineInvariant
  <1>1. TypeOK'
    BY LimitsAssumption DEF TypeOK
  <1>2. /\ IdleEvidenceIsComplete'
        /\ UnusedRowsBlank'
        /\ QueuedHasImages'
        /\ HolderIsLatestClaim'
        /\ FailedOnlyWhenBudgetSpent'
    BY DEF TypeOK, IdleEvidenceIsComplete, UnusedRowsBlank, QueuedHasImages, HolderIsLatestClaim,
       FailedOnlyWhenBudgetSpent
  <1>3. /\ LiveScansReadAllImages'
        /\ TerminalOnlyWhenGone'
        /\ FutureClaimsUnused'
        /\ VerifyingIsReviewed'
        /\ ResultKindChecked'
        /\ WritesAreStamped'
    BY ClaimParts DEF TypeOK, LiveScansReadAllImages, TerminalOnlyWhenGone, FutureClaimsUnused,
       VerifyingIsReviewed, ResultKindChecked, WritesAreStamped, Live, Reviewed
  <1> QED
    BY <1>1, <1>2, <1>3

LEMMA PatchBeginStep ==
    ASSUME PipelineInvariant, NEW e \in Editors, NEW r \in Receipts, PatchBegin(e, r)
    PROVE  PipelineInvariant'
  <1> USE DEF PatchBegin, UserRequest, Exists, ScanStates, claimVars, reviewVars, itemVars,
              evidenceVars, timeVars, boundVars, PipelineInvariant
  <1>1. TypeOK'
    BY LimitsAssumption DEF TypeOK
  <1>2. /\ IdleEvidenceIsComplete'
        /\ UnusedRowsBlank'
        /\ QueuedHasImages'
        /\ HolderIsLatestClaim'
        /\ FailedOnlyWhenBudgetSpent'
    BY DEF TypeOK, IdleEvidenceIsComplete, UnusedRowsBlank, QueuedHasImages, HolderIsLatestClaim,
       FailedOnlyWhenBudgetSpent
  <1>3. /\ LiveScansReadAllImages'
        /\ TerminalOnlyWhenGone'
        /\ FutureClaimsUnused'
        /\ VerifyingIsReviewed'
        /\ ResultKindChecked'
        /\ WritesAreStamped'
    BY ClaimParts DEF TypeOK, LiveScansReadAllImages, TerminalOnlyWhenGone, FutureClaimsUnused,
       VerifyingIsReviewed, ResultKindChecked, WritesAreStamped, Live, Reviewed
  <1> QED
    BY <1>1, <1>2, <1>3

LEMMA PatchCommitStep ==
    ASSUME PipelineInvariant, NEW e \in Editors, PatchCommit(e)
    PROVE  PipelineInvariant'
  <1> USE DEF PatchCommit, claimVars, reviewVars, itemVars, evidenceVars, timeVars, boundVars,
              PipelineInvariant
  <1>1. TypeOK'
    BY LimitsAssumption, EntriesAreFields DEF TypeOK, NoPatch
  <1>2. /\ IdleEvidenceIsComplete'
        /\ UnusedRowsBlank'
        /\ QueuedHasImages'
        /\ HolderIsLatestClaim'
        /\ FailedOnlyWhenBudgetSpent'
    BY DEF TypeOK, IdleEvidenceIsComplete, UnusedRowsBlank, QueuedHasImages, HolderIsLatestClaim,
       FailedOnlyWhenBudgetSpent
  <1>3. /\ LiveScansReadAllImages'
        /\ TerminalOnlyWhenGone'
        /\ FutureClaimsUnused'
        /\ VerifyingIsReviewed'
        /\ ResultKindChecked'
        /\ WritesAreStamped'
    BY ClaimParts DEF TypeOK, LiveScansReadAllImages, TerminalOnlyWhenGone, FutureClaimsUnused,
       VerifyingIsReviewed, ResultKindChecked, WritesAreStamped, Live, Reviewed
  <1> QED
    BY <1>1, <1>2, <1>3

LEMMA PatchAbortStep ==
    ASSUME PipelineInvariant, NEW e \in Editors, PatchAbort(e)
    PROVE  PipelineInvariant'
  <1> USE DEF PatchAbort, claimVars, reviewVars, itemVars, evidenceVars, timeVars, boundVars,
              PipelineInvariant
  <1>1. TypeOK'
    BY LimitsAssumption DEF TypeOK, NoPatch
  <1>2. /\ IdleEvidenceIsComplete'
        /\ UnusedRowsBlank'
        /\ QueuedHasImages'
        /\ HolderIsLatestClaim'
        /\ FailedOnlyWhenBudgetSpent'
    BY DEF TypeOK, IdleEvidenceIsComplete, UnusedRowsBlank, QueuedHasImages, HolderIsLatestClaim,
       FailedOnlyWhenBudgetSpent
  <1>3. /\ LiveScansReadAllImages'
        /\ TerminalOnlyWhenGone'
        /\ FutureClaimsUnused'
        /\ VerifyingIsReviewed'
        /\ ResultKindChecked'
        /\ WritesAreStamped'
    BY ClaimParts DEF TypeOK, LiveScansReadAllImages, TerminalOnlyWhenGone, FutureClaimsUnused,
       VerifyingIsReviewed, ResultKindChecked, WritesAreStamped, Live, Reviewed
  <1> QED
    BY <1>1, <1>2, <1>3

LEMMA ItemInsertStep ==
    ASSUME PipelineInvariant, NEW r \in Receipts, ItemInsert(r)
    PROVE  PipelineInvariant'
  <1> USE DEF ItemInsert, UserRequest, Exists, ScanStates, claimVars, reviewVars, itemVars,
              evidenceVars, timeVars, boundVars, PipelineInvariant
  <1>1. TypeOK'
    BY LimitsAssumption DEF TypeOK
  <1>2. /\ IdleEvidenceIsComplete'
        /\ UnusedRowsBlank'
        /\ QueuedHasImages'
        /\ HolderIsLatestClaim'
        /\ FailedOnlyWhenBudgetSpent'
    BY DEF TypeOK, IdleEvidenceIsComplete, UnusedRowsBlank, QueuedHasImages, HolderIsLatestClaim,
       FailedOnlyWhenBudgetSpent
  <1>3. /\ LiveScansReadAllImages'
        /\ TerminalOnlyWhenGone'
        /\ FutureClaimsUnused'
        /\ VerifyingIsReviewed'
        /\ ResultKindChecked'
        /\ WritesAreStamped'
    BY ClaimParts DEF TypeOK, LiveScansReadAllImages, TerminalOnlyWhenGone, FutureClaimsUnused,
       VerifyingIsReviewed, ResultKindChecked, WritesAreStamped, Live, Reviewed
  <1> QED
    BY <1>1, <1>2, <1>3

LEMMA ItemDeleteStep ==
    ASSUME PipelineInvariant, NEW r \in Receipts, ItemDelete(r)
    PROVE  PipelineInvariant'
  <1> USE DEF ItemDelete, UserRequest, Exists, ScanStates, claimVars, reviewVars, itemVars,
              evidenceVars, timeVars, boundVars, PipelineInvariant
  <1>1. TypeOK'
    <2>1. \A f \in [Receipts -> Nat] : f[r] > 0 => [f EXCEPT ![r] = @ - 1] \in [Receipts -> Nat]
      OBVIOUS
    <2>2. userItems \in [Receipts -> Nat] /\ scanItems \in [Receipts -> Nat]
      BY DEF TypeOK
    <2>3. userItems' \in [Receipts -> Nat] /\ scanItems' \in [Receipts -> Nat]
      BY <2>1, <2>2, Zenon
    <2> QED
      BY <2>3, LimitsAssumption DEF TypeOK
  <1>2. /\ IdleEvidenceIsComplete'
        /\ UnusedRowsBlank'
        /\ QueuedHasImages'
        /\ HolderIsLatestClaim'
        /\ FailedOnlyWhenBudgetSpent'
    BY DEF TypeOK, IdleEvidenceIsComplete, UnusedRowsBlank, QueuedHasImages, HolderIsLatestClaim,
       FailedOnlyWhenBudgetSpent
  <1>3. /\ LiveScansReadAllImages'
        /\ TerminalOnlyWhenGone'
        /\ FutureClaimsUnused'
        /\ VerifyingIsReviewed'
        /\ ResultKindChecked'
        /\ WritesAreStamped'
    BY ClaimParts DEF TypeOK, LiveScansReadAllImages, TerminalOnlyWhenGone, FutureClaimsUnused,
       VerifyingIsReviewed, ResultKindChecked, WritesAreStamped, Live, Reviewed
  <1> QED
    BY <1>1, <1>2, <1>3

LEMMA ItemCommitStep ==
    ASSUME PipelineInvariant, NEW r \in Receipts, ItemCommit(r)
    PROVE  PipelineInvariant'
  <1> USE DEF ItemCommit, claimVars, reviewVars, itemVars, evidenceVars, timeVars, boundVars,
              PipelineInvariant
  <1>1. TypeOK'
    BY LimitsAssumption DEF TypeOK
  <1>2. /\ IdleEvidenceIsComplete'
        /\ UnusedRowsBlank'
        /\ QueuedHasImages'
        /\ HolderIsLatestClaim'
        /\ FailedOnlyWhenBudgetSpent'
    BY DEF TypeOK, IdleEvidenceIsComplete, UnusedRowsBlank, QueuedHasImages, HolderIsLatestClaim,
       FailedOnlyWhenBudgetSpent
  <1>3. /\ LiveScansReadAllImages'
        /\ TerminalOnlyWhenGone'
        /\ FutureClaimsUnused'
        /\ VerifyingIsReviewed'
        /\ ResultKindChecked'
        /\ WritesAreStamped'
    BY ClaimParts DEF TypeOK, LiveScansReadAllImages, TerminalOnlyWhenGone, FutureClaimsUnused,
       VerifyingIsReviewed, ResultKindChecked, WritesAreStamped, Live, Reviewed
  <1> QED
    BY <1>1, <1>2, <1>3

LEMMA ItemRollbackStep ==
    ASSUME PipelineInvariant, NEW r \in Receipts, ItemRollback(r)
    PROVE  PipelineInvariant'
  <1> USE DEF ItemRollback, claimVars, reviewVars, itemVars, evidenceVars, timeVars, boundVars,
              PipelineInvariant
  <1>1. TypeOK'
    BY LimitsAssumption DEF TypeOK
  <1>2. /\ IdleEvidenceIsComplete'
        /\ UnusedRowsBlank'
        /\ QueuedHasImages'
        /\ HolderIsLatestClaim'
        /\ FailedOnlyWhenBudgetSpent'
    BY DEF TypeOK, IdleEvidenceIsComplete, UnusedRowsBlank, QueuedHasImages, HolderIsLatestClaim,
       FailedOnlyWhenBudgetSpent
  <1>3. /\ LiveScansReadAllImages'
        /\ TerminalOnlyWhenGone'
        /\ FutureClaimsUnused'
        /\ VerifyingIsReviewed'
        /\ ResultKindChecked'
        /\ WritesAreStamped'
    BY ClaimParts DEF TypeOK, LiveScansReadAllImages, TerminalOnlyWhenGone, FutureClaimsUnused,
       VerifyingIsReviewed, ResultKindChecked, WritesAreStamped, Live, Reviewed
  <1> QED
    BY <1>1, <1>2, <1>3

LEMMA ExpireStep ==
    ASSUME PipelineInvariant, NEW r \in Receipts, Expire(r)
    PROVE  PipelineInvariant'
  <1> USE DEF Expire, claimVars, reviewVars, itemVars, evidenceVars, timeVars, boundVars,
              PipelineInvariant
  <1>1. TypeOK'
    BY LimitsAssumption DEF TypeOK
  <1>2. /\ IdleEvidenceIsComplete'
        /\ UnusedRowsBlank'
        /\ QueuedHasImages'
        /\ HolderIsLatestClaim'
        /\ FailedOnlyWhenBudgetSpent'
    BY DEF TypeOK, IdleEvidenceIsComplete, UnusedRowsBlank, QueuedHasImages, HolderIsLatestClaim,
       FailedOnlyWhenBudgetSpent
  <1>3. /\ LiveScansReadAllImages'
        /\ TerminalOnlyWhenGone'
        /\ FutureClaimsUnused'
        /\ VerifyingIsReviewed'
        /\ ResultKindChecked'
        /\ WritesAreStamped'
    BY ClaimParts DEF TypeOK, LiveScansReadAllImages, TerminalOnlyWhenGone, FutureClaimsUnused,
       VerifyingIsReviewed, ResultKindChecked, WritesAreStamped, Live, Reviewed
  <1> QED
    BY <1>1, <1>2, <1>3

LEMMA TickReclaimStep ==
    ASSUME PipelineInvariant, NEW t \in Ticks, TickReclaim(t)
    PROVE  PipelineInvariant'
  <1>0. scanState' \in [Receipts -> ScanStates \cup {"none", "deleted"}]
    <2>1. \A r \in Receipts : AfterFailure(reclaimCount[r], MaxReclaims) \in ScanStates
      BY DEF AfterFailure, ScanStates
    <2>2. scanState \in [Receipts -> ScanStates \cup {"none", "deleted"}]
      BY DEF PipelineInvariant, TypeOK
    <2> QED
      BY <2>1, <2>2 DEF TickReclaim
  <1> USE DEF TickReclaim, Stuck, AfterFailure, claimVars, reviewVars, itemVars, evidenceVars,
              timeVars, boundVars, PipelineInvariant
  <1>1. TypeOK'
    <2>1. scanState' \in [Receipts -> ScanStates \cup {"none", "deleted"}]
      BY <1>0
    <2>2. reclaimCount' \in [Receipts -> Nat] /\ startedAt' \in [Receipts -> 0..MaxClaims]
      BY LimitsAssumption DEF TypeOK
    <2>3. tick' \in [Ticks -> [pc : {"idle", "reclaimed", "claiming"}, free : 0..Concurrency,
                               queued : SUBSET Receipts]]
      <3>1. tick' = [tick EXCEPT ![t].pc = "reclaimed"]
        OBVIOUS
      <3>2. tick \in [Ticks -> [pc : {"idle", "reclaimed", "claiming"}, free : 0..Concurrency,
                                queued : SUBSET Receipts]]
        BY DEF TypeOK
      <3> HIDE DEF TickReclaim, Stuck, AfterFailure, PipelineInvariant
      <3> QED
        BY <3>1, <3>2
    <2>4. UNCHANGED <<scanAttempts, proposedAt, reviewedAt, updatedAt, fields, raw, images,
                      userItems, scanItems, itemTxn, clock, claims, expired, scan, patch, userOps,
                      faults>>
      OBVIOUS
    <2>5. TypeOK
      OBVIOUS
    <2> HIDE DEF TickReclaim, Stuck, AfterFailure, PipelineInvariant
    <2> QED
      BY <2>1, <2>2, <2>3, <2>4, <2>5 DEF TypeOK
  <1>2. /\ IdleEvidenceIsComplete'
        /\ UnusedRowsBlank'
        /\ QueuedHasImages'
        /\ HolderIsLatestClaim'
        /\ FailedOnlyWhenBudgetSpent'
    BY DEF TypeOK, IdleEvidenceIsComplete, UnusedRowsBlank, QueuedHasImages, HolderIsLatestClaim,
       FailedOnlyWhenBudgetSpent
  <1>3. /\ LiveScansReadAllImages'
        /\ TerminalOnlyWhenGone'
        /\ FutureClaimsUnused'
        /\ VerifyingIsReviewed'
        /\ ResultKindChecked'
        /\ WritesAreStamped'
    BY ClaimParts DEF TypeOK, LiveScansReadAllImages, TerminalOnlyWhenGone, FutureClaimsUnused,
       VerifyingIsReviewed, ResultKindChecked, WritesAreStamped, Live, Reviewed
  <1> QED
    BY <1>1, <1>2, <1>3

LEMMA TickSnapshotStep ==
    ASSUME PipelineInvariant, NEW t \in Ticks, TickSnapshot(t)
    PROVE  PipelineInvariant'
  <1> USE DEF TickSnapshot, Queued, claimVars, reviewVars, itemVars, evidenceVars, timeVars,
              boundVars, PipelineInvariant
  <1>1. TypeOK'
    BY FreeSlotsType DEF TypeOK
  <1>2. /\ IdleEvidenceIsComplete'
        /\ UnusedRowsBlank'
        /\ QueuedHasImages'
        /\ HolderIsLatestClaim'
        /\ FailedOnlyWhenBudgetSpent'
    BY DEF TypeOK, IdleEvidenceIsComplete, UnusedRowsBlank, QueuedHasImages, HolderIsLatestClaim,
       FailedOnlyWhenBudgetSpent
  <1>3. /\ LiveScansReadAllImages'
        /\ TerminalOnlyWhenGone'
        /\ FutureClaimsUnused'
        /\ VerifyingIsReviewed'
        /\ ResultKindChecked'
        /\ WritesAreStamped'
    BY ClaimParts DEF TypeOK, LiveScansReadAllImages, TerminalOnlyWhenGone, FutureClaimsUnused,
       VerifyingIsReviewed, ResultKindChecked, WritesAreStamped, Live, Reviewed
  <1> QED
    BY <1>1, <1>2, <1>3

LEMMA TickClaimStep ==
    ASSUME PipelineInvariant, NEW t \in Ticks, TickClaim(t)
    PROVE  PipelineInvariant'
  <1> USE DEF TickClaim, ClaimRows, Claimed, Claimable, Queued, claimVars, reviewVars, itemVars,
              evidenceVars, timeVars, boundVars, PipelineInvariant
  <1>1. TypeOK'
    <2>1. \A r \in Claimed(t) : r \in Receipts /\ claims[r] < MaxClaims
      BY DEF TypeOK
    <2>2. /\ scanState' \in [Receipts -> ScanStates \cup {"none", "deleted"}]
          /\ startedAt' \in [Receipts -> 0..MaxClaims]
          /\ claims' \in [Receipts -> 0..MaxClaims]
      BY <2>1, LimitsAssumption DEF TypeOK, ScanStates
    <2>3. tick' \in [Ticks -> [pc : {"idle", "reclaimed", "claiming"}, free : 0..Concurrency,
                              queued : SUBSET Receipts]]
      BY LimitsAssumption DEF TypeOK, NoTick
    <2>4. scan' \in [Claims -> ScanLocals]
      BY NoScanType DEF TypeOK, ScanLocals, ScanPcs
    <2> QED
      BY <2>2, <2>3, <2>4, LimitsAssumption DEF TypeOK
  <1>2. /\ IdleEvidenceIsComplete'
        /\ UnusedRowsBlank'
        /\ QueuedHasImages'
        /\ HolderIsLatestClaim'
        /\ FailedOnlyWhenBudgetSpent'
    BY DEF TypeOK, IdleEvidenceIsComplete, UnusedRowsBlank, QueuedHasImages, HolderIsLatestClaim,
       FailedOnlyWhenBudgetSpent
  <1>3. /\ LiveScansReadAllImages'
        /\ TerminalOnlyWhenGone'
        /\ FutureClaimsUnused'
        /\ VerifyingIsReviewed'
        /\ ResultKindChecked'
        /\ WritesAreStamped'
    <2> SUFFICES ASSUME NEW d \in Claims
                 PROVE  /\ Live(d)' /\ scan'[d].pc \in Reading => scan'[d].imgs = images'[d[1]]
                        /\ scan'[d].error = "terminal" => ~Live(d)'
                        /\ d[2] > claims'[d[1]] => scan'[d] = NoScan
                        /\ scan'[d].verifying => Reviewed(d[1])'
                        /\ scan'[d].pc \in Applying =>
                               scan'[d].verifying \/ Scannable(scan'[d].result.kind)
                        /\ scan'[d].pc \in {"locking", "waiting"} => scan'[d].ts # 0
      BY DEF LiveScansReadAllImages, TerminalOnlyWhenGone, FutureClaimsUnused, VerifyingIsReviewed,
             ResultKindChecked, WritesAreStamped
    <2>0. /\ Live(d) /\ scan[d].pc \in Reading => scan[d].imgs = images[d[1]]
          /\ scan[d].error = "terminal" => ~Live(d)
          /\ d[2] > claims[d[1]] => scan[d] = NoScan
          /\ scan[d].verifying => Reviewed(d[1])
          /\ scan[d].pc \in Applying => scan[d].verifying \/ Scannable(scan[d].result.kind)
          /\ scan[d].pc \in {"locking", "waiting"} => scan[d].ts # 0
          /\ d[1] \in Receipts /\ d[2] \in Nat
      BY ClaimParts DEF LiveScansReadAllImages, TerminalOnlyWhenGone, FutureClaimsUnused,
         VerifyingIsReviewed, ResultKindChecked, WritesAreStamped
    <2>1. CASE d[1] \in Claimed(t) /\ d[2] = claims[d[1]] + 1
      <3>1. scan'[d] = [NoScan EXCEPT !.pc = "snapshot"]
        BY <2>0, <2>1 DEF TypeOK
      <3>2. ~(d[2] > claims'[d[1]])
        BY <2>0, <2>1 DEF TypeOK
      <3> QED
        BY <3>1, <3>2 DEF NoScan, Reading, Applying
    <2>2. CASE ~(d[1] \in Claimed(t) /\ d[2] = claims[d[1]] + 1)
      <3>1. scan'[d] = scan[d] /\ images' = images /\ reviewedAt' = reviewedAt
        BY <2>2
      <3>2. Live(d)' => Live(d)
        BY <2>0, <2>2 DEF TypeOK, Live
      <3>3. d[2] > claims'[d[1]] => d[2] > claims[d[1]]
        BY <2>0 DEF TypeOK
      <3> QED
        BY <2>0, <3>1, <3>2, <3>3 DEF Reviewed
    <2> QED
      BY <2>1, <2>2
  <1> QED
    BY <1>1, <1>2, <1>3

LEMMA TickClaimLostStep ==
    ASSUME PipelineInvariant, NEW t \in Ticks, TickClaimLost(t)
    PROVE  PipelineInvariant'
  <1> USE DEF TickClaimLost, Fault, ClaimRows, Claimed, Claimable, Queued, claimVars, reviewVars,
              itemVars, evidenceVars, timeVars, boundVars, PipelineInvariant
  <1>1. TypeOK'
    <2>1. \A r \in Claimed(t) : r \in Receipts /\ claims[r] < MaxClaims
      BY DEF TypeOK
    <2>2. /\ scanState' \in [Receipts -> ScanStates \cup {"none", "deleted"}]
          /\ startedAt' \in [Receipts -> 0..MaxClaims]
          /\ claims' \in [Receipts -> 0..MaxClaims]
      BY <2>1, LimitsAssumption DEF TypeOK, ScanStates
    <2>3. tick' \in [Ticks -> [pc : {"idle", "reclaimed", "claiming"}, free : 0..Concurrency,
                              queued : SUBSET Receipts]]
      BY LimitsAssumption DEF TypeOK, NoTick
    <2> QED
      BY <2>2, <2>3, LimitsAssumption DEF TypeOK
  <1>2. /\ IdleEvidenceIsComplete'
        /\ UnusedRowsBlank'
        /\ QueuedHasImages'
        /\ HolderIsLatestClaim'
        /\ FailedOnlyWhenBudgetSpent'
    BY DEF TypeOK, IdleEvidenceIsComplete, UnusedRowsBlank, QueuedHasImages, HolderIsLatestClaim,
       FailedOnlyWhenBudgetSpent
  <1>3. /\ LiveScansReadAllImages'
        /\ TerminalOnlyWhenGone'
        /\ FutureClaimsUnused'
        /\ VerifyingIsReviewed'
        /\ ResultKindChecked'
        /\ WritesAreStamped'
    <2> SUFFICES ASSUME NEW d \in Claims
                 PROVE  /\ Live(d)' /\ scan'[d].pc \in Reading => scan'[d].imgs = images'[d[1]]
                        /\ scan'[d].error = "terminal" => ~Live(d)'
                        /\ d[2] > claims'[d[1]] => scan'[d] = NoScan
                        /\ scan'[d].verifying => Reviewed(d[1])'
                        /\ scan'[d].pc \in Applying =>
                               scan'[d].verifying \/ Scannable(scan'[d].result.kind)
                        /\ scan'[d].pc \in {"locking", "waiting"} => scan'[d].ts # 0
      BY DEF LiveScansReadAllImages, TerminalOnlyWhenGone, FutureClaimsUnused, VerifyingIsReviewed,
             ResultKindChecked, WritesAreStamped
    <2>0. /\ Live(d) /\ scan[d].pc \in Reading => scan[d].imgs = images[d[1]]
          /\ scan[d].error = "terminal" => ~Live(d)
          /\ d[2] > claims[d[1]] => scan[d] = NoScan
          /\ scan[d].verifying => Reviewed(d[1])
          /\ scan[d].pc \in Applying => scan[d].verifying \/ Scannable(scan[d].result.kind)
          /\ scan[d].pc \in {"locking", "waiting"} => scan[d].ts # 0
          /\ d[1] \in Receipts /\ d[2] \in Nat
      BY ClaimParts DEF LiveScansReadAllImages, TerminalOnlyWhenGone, FutureClaimsUnused,
         VerifyingIsReviewed, ResultKindChecked, WritesAreStamped
    <2>1. CASE d[1] \in Claimed(t) /\ d[2] = claims[d[1]] + 1
      <3>1. scan'[d] = NoScan
        BY <2>0, <2>1 DEF TypeOK
      <3>2. ~(d[2] > claims'[d[1]])
        BY <2>0, <2>1 DEF TypeOK
      <3> QED
        BY <3>1, <3>2 DEF NoScan, Reading, Applying
    <2>2. CASE ~(d[1] \in Claimed(t) /\ d[2] = claims[d[1]] + 1)
      <3>1. scan'[d] = scan[d] /\ images' = images /\ reviewedAt' = reviewedAt
        BY <2>2
      <3>2. Live(d)' => Live(d)
        BY <2>0, <2>2 DEF TypeOK, Live
      <3>3. d[2] > claims'[d[1]] => d[2] > claims[d[1]]
        BY <2>0 DEF TypeOK
      <3> QED
        BY <2>0, <3>1, <3>2, <3>3 DEF Reviewed
    <2> QED
      BY <2>1, <2>2
  <1> QED
    BY <1>1, <1>2, <1>3

LEMMA TickErrorStep ==
    ASSUME PipelineInvariant, NEW t \in Ticks, TickError(t)
    PROVE  PipelineInvariant'
  <1> USE DEF TickError, Fault, claimVars, reviewVars, itemVars, evidenceVars, timeVars,
              boundVars, PipelineInvariant
  <1>1. TypeOK'
    BY LimitsAssumption DEF TypeOK, NoTick
  <1>2. /\ IdleEvidenceIsComplete'
        /\ UnusedRowsBlank'
        /\ QueuedHasImages'
        /\ HolderIsLatestClaim'
        /\ FailedOnlyWhenBudgetSpent'
    BY DEF TypeOK, IdleEvidenceIsComplete, UnusedRowsBlank, QueuedHasImages, HolderIsLatestClaim,
       FailedOnlyWhenBudgetSpent
  <1>3. /\ LiveScansReadAllImages'
        /\ TerminalOnlyWhenGone'
        /\ FutureClaimsUnused'
        /\ VerifyingIsReviewed'
        /\ ResultKindChecked'
        /\ WritesAreStamped'
    BY ClaimParts DEF TypeOK, LiveScansReadAllImages, TerminalOnlyWhenGone, FutureClaimsUnused,
       VerifyingIsReviewed, ResultKindChecked, WritesAreStamped, Live, Reviewed
  <1> QED
    BY <1>1, <1>2, <1>3

(* A scan moves to `locals' and no row changes: the scan invariants need   *)
(* only hold of `locals'.                                                  *)
LEMMA ScanAloneStep ==
    ASSUME PipelineInvariant, NEW c \in Claims, NEW locals \in ScanLocals,
           scan' = [scan EXCEPT ![c] = locals],
           clock' \in Nat, faults' \in 0..MaxFaults,
           UNCHANGED <<claimVars, reviewVars, itemVars, evidenceVars, claims, expired, tick, patch,
                       userOps>>,
           scan[c].pc # "done",
           Live(c) /\ locals.pc \in Reading => locals.imgs = images[c[1]],
           locals.error = "terminal" => ~Live(c),
           locals.verifying => Reviewed(c[1]),
           locals.pc \in Applying => locals.verifying \/ Scannable(locals.result.kind),
           locals.pc \in {"locking", "waiting"} => locals.ts # 0
    PROVE  PipelineInvariant'
  <1> USE DEF claimVars, reviewVars, itemVars, evidenceVars, PipelineInvariant
  <1>1. TypeOK'
    BY DEF TypeOK
  <1>2. /\ IdleEvidenceIsComplete'
        /\ UnusedRowsBlank'
        /\ QueuedHasImages'
        /\ HolderIsLatestClaim'
        /\ FailedOnlyWhenBudgetSpent'
    BY DEF IdleEvidenceIsComplete, UnusedRowsBlank, QueuedHasImages, HolderIsLatestClaim,
           FailedOnlyWhenBudgetSpent
  <1>3. /\ LiveScansReadAllImages'
        /\ TerminalOnlyWhenGone'
        /\ FutureClaimsUnused'
        /\ VerifyingIsReviewed'
        /\ ResultKindChecked'
        /\ WritesAreStamped'
    <2> SUFFICES ASSUME NEW d \in Claims
                 PROVE  /\ Live(d)' /\ scan'[d].pc \in Reading => scan'[d].imgs = images'[d[1]]
                        /\ scan'[d].error = "terminal" => ~Live(d)'
                        /\ d[2] > claims'[d[1]] => scan'[d] = NoScan
                        /\ scan'[d].verifying => Reviewed(d[1])'
                        /\ scan'[d].pc \in Applying =>
                               scan'[d].verifying \/ Scannable(scan'[d].result.kind)
                        /\ scan'[d].pc \in {"locking", "waiting"} => scan'[d].ts # 0
      BY DEF LiveScansReadAllImages, TerminalOnlyWhenGone, FutureClaimsUnused, VerifyingIsReviewed,
             ResultKindChecked, WritesAreStamped
    <2>0. /\ Live(d) /\ scan[d].pc \in Reading => scan[d].imgs = images[d[1]]
          /\ scan[d].error = "terminal" => ~Live(d)
          /\ d[2] > claims[d[1]] => scan[d] = NoScan
          /\ scan[d].verifying => Reviewed(d[1])
          /\ scan[d].pc \in Applying => scan[d].verifying \/ Scannable(scan[d].result.kind)
          /\ scan[d].pc \in {"locking", "waiting"} => scan[d].ts # 0
          /\ d[1] \in Receipts /\ d[2] \in Nat
      BY ClaimParts DEF LiveScansReadAllImages, TerminalOnlyWhenGone, FutureClaimsUnused,
         VerifyingIsReviewed, ResultKindChecked, WritesAreStamped
    <2>1. Live(d)' = Live(d) /\ Reviewed(d[1])' = Reviewed(d[1])
      BY DEF Live, Reviewed
    <2>2. CASE d = c
      <3>1. scan'[d] = locals
        BY <2>2 DEF TypeOK
      <3>2. ~(d[2] > claims[d[1]])
        BY <2>0, <2>2 DEF NoScan
      <3> QED
        BY <2>1, <2>2, <3>1, <3>2
    <2>3. CASE d # c
      BY <2>0, <2>1, <2>3 DEF TypeOK
    <2> QED
      BY <2>2, <2>3
  <1> QED
    BY <1>1, <1>2, <1>3

LEMMA ScanMovesStep ==
    ASSUME PipelineInvariant, NEW c \in Claims, NEW locals \in ScanLocals, ScanMoves(c, locals),
           scan[c].pc # "done",
           Live(c) /\ locals.pc \in Reading => locals.imgs = images[c[1]],
           locals.error = "terminal" => ~Live(c),
           locals.verifying => Reviewed(c[1]),
           locals.pc \in Applying => locals.verifying \/ Scannable(locals.result.kind),
           locals.pc \in {"locking", "waiting"} => locals.ts # 0
    PROVE  PipelineInvariant'
  <1>1. /\ scan' = [scan EXCEPT ![c] = locals]
        /\ clock' \in Nat /\ faults' \in 0..MaxFaults
        /\ UNCHANGED <<claimVars, reviewVars, itemVars, evidenceVars, claims, expired, tick, patch,
                       userOps>>
    BY DEF ScanMoves, timeVars, boundVars, PipelineInvariant, TypeOK
  <1> QED
    BY <1>1, ScanAloneStep

(* The types of the locals a step starts from, and what the invariant says *)
(* of that scan.                                                           *)
LEMMA ScanFacts ==
    ASSUME PipelineInvariant, NEW c \in Claims
    PROVE  /\ c[1] \in Receipts /\ c[2] \in Nat
           /\ scan[c] \in ScanLocals
           /\ images[c[1]] \in 0..MaxImages
           /\ Live(c) => images[c[1]] > 0
           /\ Live(c) /\ scan[c].pc \in Reading => scan[c].imgs = images[c[1]]
           /\ scan[c].error = "terminal" => ~Live(c)
           /\ scan[c].verifying => Reviewed(c[1])
           /\ scan[c].pc \in Applying => scan[c].verifying \/ Scannable(scan[c].result.kind)
           /\ scan[c].pc \in {"locking", "waiting"} => scan[c].ts # 0
  BY ClaimParts DEF PipelineInvariant, TypeOK, LiveScansReadAllImages, TerminalOnlyWhenGone,
     VerifyingIsReviewed, ResultKindChecked, WritesAreStamped, QueuedHasImages, Live

LEMMA FailingType ==
    ASSUME NEW error \in {"scan", "terminal", "infra"}
    PROVE  /\ Failing(error) \in ScanLocals
           /\ Failing(error).pc = "failing" /\ Failing(error).error = error
           /\ ~Failing(error).verifying
  BY NoScanType DEF Failing, NoScan, ScanLocals, ScanPcs

(* The locals a step of the scan assigns have their types. *)
LEMMA MovedLocalsType ==
    ASSUME NEW l \in ScanLocals
    PROVE  /\ \A v \in BOOLEAN : [l EXCEPT !.pc = "list", !.verifying = v] \in ScanLocals
           /\ \A i \in 0..MaxImages : [l EXCEPT !.pc = "calling", !.imgs = i] \in ScanLocals
           /\ \A q \in Results : [l EXCEPT !.pc = "apply", !.result = q] \in ScanLocals
           /\ \A n \in Nat : [l EXCEPT !.pc = "locking", !.ts = n] \in ScanLocals
           /\ \A n \in Nat : [l EXCEPT !.pc = "waiting", !.count = n] \in ScanLocals
  BY DEF ScanLocals, ScanPcs

LEMMA ScanSnapshotStep ==
    ASSUME PipelineInvariant, NEW c \in Claims, ScanSnapshot(c)
    PROVE  PipelineInvariant'
  <1> DEFINE locals == IF Live(c) THEN [scan[c] EXCEPT !.pc = "list", !.verifying = Reviewed(c[1])]
                                  ELSE NoScan
  <1>1. locals \in ScanLocals
    <2>1. scan[c] \in ScanLocals /\ Reviewed(c[1]) \in BOOLEAN
      BY ScanFacts DEF Reviewed
    <2> QED
      BY <2>1, MovedLocalsType, NoScanType, Zenon
  <1>2. /\ locals.pc \in {"list", "done"} /\ scan[c].pc # "done"
        /\ locals.error = "terminal" => ~Live(c)
        /\ locals.verifying => Reviewed(c[1])
    BY ScanFacts DEF ScanSnapshot, ScanLocals, NoScan
  <1>3. ScanMoves(c, locals)
    BY DEF ScanSnapshot
  <1> QED
    BY <1>1, <1>2, <1>3, ScanMovesStep DEF Reading, Applying

LEMMA ListImagesStep ==
    ASSUME PipelineInvariant, NEW c \in Claims, ListImages(c)
    PROVE  PipelineInvariant'
  <1>1. CASE images[c[1]] = 0
    <2>1. ~Live(c)
      BY <1>1, ScanFacts
    <2>2. ScanMoves(c, Failing("terminal")) /\ scan[c].pc # "done"
      BY <1>1 DEF ListImages
    <2> QED
      BY <2>1, <2>2, FailingType, ScanMovesStep DEF Reading, Applying
  <1>2. CASE images[c[1]] # 0
    <2> DEFINE locals == [scan[c] EXCEPT !.pc = "calling", !.imgs = images[c[1]]]
    <2>1. locals \in ScanLocals
      BY ScanFacts, MovedLocalsType, Zenon
    <2>2. /\ locals.pc = "calling" /\ locals.imgs = images[c[1]] /\ scan[c].pc # "done"
          /\ locals.error = scan[c].error /\ locals.verifying = scan[c].verifying
      BY ScanFacts DEF ListImages, ScanLocals
    <2>3. ScanMoves(c, locals)
      BY <1>2 DEF ListImages
    <2> QED
      BY <2>1, <2>2, <2>3, ScanFacts, ScanMovesStep DEF Applying
  <1> QED
    BY <1>1, <1>2

LEMMA ProviderReplyStep ==
    ASSUME PipelineInvariant, NEW c \in Claims, NEW result \in Results, ProviderReply(c, result)
    PROVE  PipelineInvariant'
  <1> DEFINE locals == [scan[c] EXCEPT !.pc = "apply", !.result = result]
  <1>1. locals \in ScanLocals
    BY ScanFacts, MovedLocalsType, Zenon
  <1>2. /\ locals.pc = "apply" /\ locals.result = result /\ locals.imgs = scan[c].imgs
        /\ locals.error = scan[c].error /\ locals.verifying = scan[c].verifying
    BY ScanFacts DEF ScanLocals
  <1>3. /\ ScanMoves(c, locals) /\ scan[c].pc = "calling"
        /\ locals.verifying \/ Scannable(result.kind)
    BY <1>2 DEF ProviderReply
  <1> QED
    BY <1>1, <1>2, <1>3, ScanFacts, ScanMovesStep DEF Reading

LEMMA FailingStep ==
    ASSUME PipelineInvariant, NEW c \in Claims, ProviderScanError(c) \/ InfraError(c)
    PROVE  PipelineInvariant'
  <1>1. \E error \in {"scan", "infra"} : ScanMoves(c, Failing(error)) /\ scan[c].pc # "done"
    BY DEF ProviderScanError, InfraError
  <1> QED
    BY <1>1, FailingType, ScanMovesStep DEF Reading, Applying

(* The locals applyResult() assigns have their types. *)
LEMMA ReadLocalsType ==
    ASSUME NEW l \in ScanLocals, NEW s \in Snapshots, NEW m \in BOOLEAN
    PROVE  [l EXCEPT !.pc = "begin", !.before = s, !.matched = m] \in ScanLocals
  BY DEF ScanLocals, ScanPcs

LEMMA RestartLocalsType ==
    ASSUME NEW l \in ScanLocals, NEW a \in 0..1, NEW v \in BOOLEAN, NEW i \in 0..MaxImages,
           NEW q \in Results \cup {NoResult}
    PROVE  [l EXCEPT !.pc = "apply", !.attempt = a, !.verifying = v, !.imgs = i, !.result = q]
               \in ScanLocals
  BY DEF ScanLocals, ScanPcs

LEMMA ApplyReadStep ==
    ASSUME PipelineInvariant, NEW c \in Claims, ApplyRead(c)
    PROVE  PipelineInvariant'
  <1> DEFINE snapshot == [updatedAt |-> updatedAt[c[1]], reviewed |-> Reviewed(c[1]),
                          count |-> ItemCount(c[1])]
             matched == Reviewed(c[1]) => Matches(fields[c[1]], scan[c].result)
             locals == [scan[c] EXCEPT !.pc = "begin", !.before = snapshot, !.matched = matched]
  <1>1. CASE Live(c)
    <2>1. snapshot \in Snapshots
      BY ScanFacts DEF PipelineInvariant, TypeOK, Snapshots, Reviewed, ItemCount
    <2>2. locals \in ScanLocals
      <3>1. matched \in BOOLEAN
        OBVIOUS
      <3>2. scan[c] \in ScanLocals
        BY ScanFacts
      <3> HIDE DEF matched, snapshot
      <3> QED
        BY <2>1, <3>1, <3>2, ReadLocalsType, Zenon
    <2>3. /\ locals.pc = "begin" /\ locals.result = scan[c].result /\ locals.imgs = scan[c].imgs
          /\ locals.error = scan[c].error /\ locals.verifying = scan[c].verifying
      BY ScanFacts DEF ScanLocals
    <2>4. ScanMoves(c, locals) /\ scan[c].pc = "apply"
      BY <1>1 DEF ApplyRead
    <2> HIDE DEF locals
    <2> QED
      BY <2>2, <2>3, <2>4, ScanFacts, ScanMovesStep DEF Reading, Applying
  <1>2. CASE ~Live(c)
    <2>1. ScanMoves(c, NoScan) /\ scan[c].pc = "apply"
      BY <1>2 DEF ApplyRead
    <2> QED
      BY <1>2, <2>1, NoScanType, ScanMovesStep DEF NoScan, Reading, Applying
  <1> QED
    BY <1>1, <1>2

LEMMA ApplyWaitStep ==
    ASSUME PipelineInvariant, NEW c \in Claims, ApplyWait(c)
    PROVE  PipelineInvariant'
  <1> DEFINE locals == [scan[c] EXCEPT !.pc = "waiting", !.count = ItemCount(c[1])]
  <1>1. locals \in ScanLocals
    <2>1. ItemCount(c[1]) \in Nat
      BY ScanFacts DEF PipelineInvariant, TypeOK, ItemCount
    <2> QED
      BY <2>1, ScanFacts, MovedLocalsType, Zenon
  <1>2. /\ locals.pc = "waiting" /\ locals.result = scan[c].result /\ locals.imgs = scan[c].imgs
        /\ locals.error = scan[c].error /\ locals.verifying = scan[c].verifying
        /\ locals.ts = scan[c].ts
    BY ScanFacts DEF ScanLocals
  <1>3. ScanMoves(c, locals) /\ scan[c].pc = "locking"
    BY DEF ApplyWait
  <1> QED
    BY <1>1, <1>2, <1>3, ScanFacts, ScanMovesStep DEF Reading, Applying

LEMMA ApplyStaleStep ==
    ASSUME PipelineInvariant, NEW c \in Claims, ApplyStale(c)
    PROVE  PipelineInvariant'
  <1>1. ScanMoves(c, NoScan) /\ scan[c].pc # "done"
    BY DEF ApplyStale, Locking
  <1> QED
    BY <1>1, NoScanType, ScanMovesStep DEF NoScan, Reading, Applying

LEMMA ApplyChangedStep ==
    ASSUME PipelineInvariant, NEW c \in Claims, ApplyChanged(c)
    PROVE  PipelineInvariant'
  <1>1. scan[c].pc \in {"locking", "waiting"}
    BY DEF ApplyChanged, LockedRow, Locking
  <1>2. CASE scan[c].attempt = 0
    <2> DEFINE locals == [NoScan EXCEPT !.pc = "apply", !.attempt = 1,
                              !.verifying = scan[c].verifying, !.imgs = scan[c].imgs,
                              !.result = scan[c].result]
    <2>1. locals \in ScanLocals
      <3>1. /\ 1 \in 0..1 /\ scan[c].verifying \in BOOLEAN /\ scan[c].imgs \in 0..MaxImages
            /\ scan[c].result \in Results \cup {NoResult}
        BY ScanFacts DEF ScanLocals
      <3> QED
        BY <3>1, NoScanType, RestartLocalsType, Zenon
    <2>2. /\ locals.pc = "apply" /\ locals.result = scan[c].result /\ locals.imgs = scan[c].imgs
          /\ locals.error = "none" /\ locals.verifying = scan[c].verifying
      BY DEF NoScan
    <2>3. ScanMoves(c, locals)
      BY <1>2 DEF ApplyChanged
    <2> QED
      BY <1>1, <2>1, <2>2, <2>3, ScanFacts, ScanMovesStep DEF Reading, Applying
  <1>3. CASE scan[c].attempt # 0
    <2>1. ScanMoves(c, Failing("infra"))
      BY <1>3 DEF ApplyChanged
    <2> QED
      BY <1>1, <2>1, FailingType, ScanMovesStep DEF Reading, Applying
  <1> QED
    BY <1>2, <1>3

LEMMA ApplyBeginStep ==
    ASSUME PipelineInvariant, NEW c \in Claims, ApplyBegin(c)
    PROVE  PipelineInvariant'
  <1> DEFINE locals == [scan[c] EXCEPT !.pc = "locking", !.ts = clock + 1]
  <1>1. clock \in Nat /\ clock + 1 \in Nat /\ clock + 1 # 0 /\ faults \in 0..MaxFaults
    BY DEF PipelineInvariant, TypeOK
  <1>2. locals \in ScanLocals
    BY <1>1, ScanFacts, MovedLocalsType, Zenon
  <1>3. /\ locals.pc = "locking" /\ locals.result = scan[c].result /\ locals.imgs = scan[c].imgs
        /\ locals.error = scan[c].error /\ locals.verifying = scan[c].verifying
        /\ locals.ts = clock + 1
    BY ScanFacts DEF ScanLocals
  <1>4. /\ scan' = [scan EXCEPT ![c] = locals] /\ scan[c].pc = "begin"
        /\ clock' = clock + 1 /\ faults' = faults
        /\ UNCHANGED <<claimVars, reviewVars, itemVars, evidenceVars, claims, expired, tick, patch,
                       userOps>>
    BY DEF ApplyBegin, boundVars, PipelineInvariant, TypeOK
  <1> HIDE DEF locals
  <1> QED
    BY <1>1, <1>2, <1>3, <1>4, ScanFacts, ScanAloneStep DEF Reading, Applying

(* A transaction or a failure record that is lost ends the scan only. *)
LEMMA LostStep ==
    ASSUME PipelineInvariant, NEW c \in Claims, CommitLost(c) \/ RecordFailureLost(c)
    PROVE  PipelineInvariant'
  <1>1. scan[c].pc # "done" /\ scan' = [scan EXCEPT ![c] = NoScan]
    BY DEF CommitLost, RecordFailureLost, LockedRow, Locking
  <1>2. /\ clock' \in Nat /\ faults' \in 0..MaxFaults
        /\ UNCHANGED <<claimVars, reviewVars, itemVars, evidenceVars, claims, expired, tick, patch,
                       userOps>>
    BY LimitsAssumption DEF CommitLost, RecordFailureLost, Fault, timeVars, PipelineInvariant, TypeOK
  <1> QED
    BY <1>1, <1>2, NoScanType, ScanAloneStep DEF NoScan, Reading, Applying

(* A scan ends: the invariants of the other scans hold if no row was       *)
(* un-reviewed, claimed or given images by the step.                       *)
LEMMA ScanEnds ==
    ASSUME PipelineInvariant, NEW c \in Claims,
           scan' = [scan EXCEPT ![c] = NoScan],
           UNCHANGED <<images, claims>>,
           \A r \in Receipts : Reviewed(r) => Reviewed(r)',
           \A d \in Claims : Live(d)' => Live(d)
    PROVE  /\ LiveScansReadAllImages'
           /\ TerminalOnlyWhenGone'
           /\ FutureClaimsUnused'
           /\ VerifyingIsReviewed'
           /\ ResultKindChecked'
           /\ WritesAreStamped'
  <1> USE DEF PipelineInvariant
  <1> SUFFICES ASSUME NEW d \in Claims
               PROVE  /\ Live(d)' /\ scan'[d].pc \in Reading => scan'[d].imgs = images'[d[1]]
                      /\ scan'[d].error = "terminal" => ~Live(d)'
                      /\ d[2] > claims'[d[1]] => scan'[d] = NoScan
                      /\ scan'[d].verifying => Reviewed(d[1])'
                      /\ scan'[d].pc \in Applying =>
                             scan'[d].verifying \/ Scannable(scan'[d].result.kind)
                      /\ scan'[d].pc \in {"locking", "waiting"} => scan'[d].ts # 0
    BY DEF LiveScansReadAllImages, TerminalOnlyWhenGone, FutureClaimsUnused, VerifyingIsReviewed,
           ResultKindChecked, WritesAreStamped
  <1>0. /\ Live(d) /\ scan[d].pc \in Reading => scan[d].imgs = images[d[1]]
        /\ scan[d].error = "terminal" => ~Live(d)
        /\ d[2] > claims[d[1]] => scan[d] = NoScan
        /\ scan[d].verifying => Reviewed(d[1])
        /\ scan[d].pc \in Applying => scan[d].verifying \/ Scannable(scan[d].result.kind)
        /\ scan[d].pc \in {"locking", "waiting"} => scan[d].ts # 0
        /\ d[1] \in Receipts /\ d[2] \in Nat
    BY ClaimParts DEF LiveScansReadAllImages, TerminalOnlyWhenGone, FutureClaimsUnused,
       VerifyingIsReviewed, ResultKindChecked, WritesAreStamped
  <1>1. CASE d = c
    <2>1. scan'[d] = NoScan
      BY <1>1 DEF TypeOK
    <2> QED
      BY <2>1 DEF NoScan, Reading, Applying
  <1>2. CASE d # c
    BY <1>0, <1>2 DEF TypeOK
  <1> QED
    BY <1>1, <1>2

(* The facts both writes share: the row is the claim's, all its images were *)
(* read, and no scan of another claim is of that row.                      *)
LEMMA CompleteFacts ==
    ASSUME PipelineInvariant, NEW c \in Claims, Complete(c)
    PROVE  /\ Live(c) /\ c[1] \in Receipts /\ scan[c] \in ScanLocals
           /\ scan[c].pc \in Reading /\ scan[c].pc \in Applying
           /\ scan[c].imgs = images[c[1]]
           /\ scan[c].ts \in Nat /\ scan[c].ts # 0
           /\ scan[c].result \in Results \cup {NoResult}
           /\ \A d \in Claims : Live(d)' => Live(d)
  <1>1. scan[c].pc \in {"locking", "waiting"} /\ Live(c)
    BY DEF Complete, LockedRow, Locking
  <1>2. scan[c] \in ScanLocals /\ c[1] \in Receipts
    BY ScanFacts
  <1>3. \A d \in Claims : Live(d)' => Live(d)
    BY <1>2, ClaimParts DEF Complete, Live, PipelineInvariant, TypeOK
  <1>4. scan[c].pc \in Reading /\ scan[c].pc \in Applying
    BY <1>1 DEF Reading, Applying
  <1>5. scan[c].imgs = images[c[1]] /\ scan[c].ts # 0
    BY <1>1, <1>4, ScanFacts
  <1>6. scan[c].ts \in Nat /\ scan[c].result \in Results \cup {NoResult}
    BY <1>2 DEF ScanLocals
  <1> QED
    BY <1>1, <1>2, <1>3, <1>4, <1>5, <1>6

LEMMA ResultParts ==
    ASSUME NEW q \in Results \cup {NoResult}
    PROVE  q.total \in Totals /\ q.merchant \in Merchants \cup {NULL}
  BY DocumentAssumption DEF Results, NoResult

(* The columns both writes set keep their types, and the row they leave at *)
(* rest was scanned from all its images.                                   *)
LEMMA CompleteStep ==
    ASSUME PipelineInvariant, NEW c \in Claims, Complete(c),
           fields' \in [Receipts -> Fields],
           reviewedAt' \in [Receipts -> Nat],
           \A r \in Receipts : Reviewed(r) => Reviewed(r)',
           userItems' \in [Receipts -> Nat],
           scanItems' \in [Receipts -> Nat]
    PROVE  PipelineInvariant'
  <1> USE DEF PipelineInvariant
  <1>0. /\ c[1] \in Receipts /\ scan[c] \in ScanLocals
        /\ scanState[c[1]] = "scanning"
        /\ scan[c].imgs = images[c[1]]
        /\ scan[c].ts \in Nat
        /\ scan[c].result \in Results \cup {NoResult}
        /\ \A d \in Claims : Live(d)' => Live(d)
    BY CompleteFacts DEF Live
  <1>1. TypeOK'
    <2>1. /\ scanState' \in [Receipts -> ScanStates \cup {"none", "deleted"}]
          /\ startedAt' \in [Receipts -> 0..MaxClaims]
          /\ proposedAt' \in [Receipts -> Nat]
          /\ updatedAt' \in [Receipts -> Nat]
      BY <1>0, LimitsAssumption DEF Complete, TypeOK, ScanStates
    <2>2. scan' \in [Claims -> ScanLocals]
      BY NoScanType DEF Complete, TypeOK
    <2>3. raw' \in [Receipts -> [imgs : 0..MaxImages, result : Results \cup {NoResult}]]
      <3>1. scan[c].imgs \in 0..MaxImages
        BY <1>0 DEF ScanLocals
      <3> QED
        BY <1>0, <3>1 DEF Complete, TypeOK
    <2>4. UNCHANGED <<scanAttempts, reclaimCount, itemTxn, images, clock, claims, expired, tick, patch,
                      userOps, faults>>
      BY DEF Complete, timeVars, boundVars
    <2> QED
      BY <2>1, <2>2, <2>3, <2>4 DEF TypeOK
  <1>2. /\ IdleEvidenceIsComplete'
        /\ UnusedRowsBlank'
        /\ QueuedHasImages'
        /\ HolderIsLatestClaim'
        /\ FailedOnlyWhenBudgetSpent'
    BY <1>0 DEF Complete, timeVars, TypeOK, IdleEvidenceIsComplete, UnusedRowsBlank, QueuedHasImages,
       HolderIsLatestClaim, FailedOnlyWhenBudgetSpent
  <1>3. /\ LiveScansReadAllImages'
        /\ TerminalOnlyWhenGone'
        /\ FutureClaimsUnused'
        /\ VerifyingIsReviewed'
        /\ ResultKindChecked'
        /\ WritesAreStamped'
    <2>1. UNCHANGED <<images, claims>> /\ scan' = [scan EXCEPT ![c] = NoScan]
      BY DEF Complete, timeVars
    <2> QED
      BY <1>0, <2>1, ScanEnds
  <1> QED
    BY <1>1, <1>2, <1>3

LEMMA WriteVerifyStep ==
    ASSUME PipelineInvariant, NEW c \in Claims, WriteVerify(c)
    PROVE  PipelineInvariant'
  <1> USE DEF PipelineInvariant
  <1>1. Complete(c)
    BY DEF WriteVerify
  <1>2. /\ c[1] \in Receipts /\ scan[c].ts \in Nat /\ scan[c].ts # 0
        /\ scan[c].result.merchant \in Merchants \cup {NULL}
    BY <1>1, CompleteFacts, ResultParts
  <1>3. fields' \in [Receipts -> Fields]
    <2> DEFINE m == Coalesce(fields[c[1]].merchant, scan[c].result.merchant)
    <2>1. fields[c[1]] \in Fields /\ fields \in [Receipts -> Fields]
      BY <1>2 DEF TypeOK
    <2>2. m \in Merchants \cup {NULL}
      BY <1>2, <2>1 DEF Fields, Coalesce
    <2>3. fields' = [fields EXCEPT ![c[1]] = [fields[c[1]] EXCEPT !.merchant = m]]
      BY <1>2, <2>1 DEF WriteVerify
    <2> HIDE DEF m
    <2>4. [fields[c[1]] EXCEPT !.merchant = m] \in Fields
      BY <2>1, <2>2 DEF Fields
    <2> QED
      BY <1>2, <2>1, <2>3, <2>4
  <1>4. reviewedAt' \in [Receipts -> Nat]
    BY <1>2 DEF WriteVerify, TypeOK, Restamp
  <1>5. \A r \in Receipts : Reviewed(r) => Reviewed(r)'
    BY <1>2 DEF WriteVerify, TypeOK, Restamp, Reviewed
  <1>6. userItems' \in [Receipts -> Nat] /\ scanItems' \in [Receipts -> Nat]
    BY <1>2 DEF WriteVerify, TypeOK
  <1> QED
    BY <1>1, <1>3, <1>4, <1>5, <1>6, CompleteStep

(* An extraction is not a verify scan's, so its kind was checked. *)
LEMMA WriteExtractionStep ==
    ASSUME PipelineInvariant, NEW c \in Claims, WriteExtraction(c)
    PROVE  PipelineInvariant'
  <1> USE DEF PipelineInvariant
  <1>1. Complete(c)
    BY DEF WriteExtraction
  <1>2. c[1] \in Receipts /\ scan[c].result \in Results \cup {NoResult} /\ scan[c].pc \in Applying
    BY <1>1, CompleteFacts
  <1>3. scan[c].result.kind \in KnownKinds
    <2>1. ~scan[c].verifying
      BY ScanFacts DEF WriteExtraction, VerifyMode
    <2> QED
      BY <1>2, <2>1, ScanFacts DEF Scannable
  <1>4. scan[c].result \in Fields
    BY <1>2, <1>3, ResultParts DEF Fields, Results, NoResult
  <1>5. fields' \in [Receipts -> Fields] /\ reviewedAt' = reviewedAt
    BY <1>2, <1>4 DEF WriteExtraction, TypeOK
  <1>6. userItems' \in [Receipts -> Nat] /\ scanItems' \in [Receipts -> Nat]
    BY <1>2 DEF WriteExtraction, TypeOK
  <1> QED
    BY <1>1, <1>5, <1>6, CompleteStep DEF Reviewed, TypeOK

(* The failure of a live scan spends a unit of one budget.  A terminal     *)
(* failure has no live claim to fail.                                      *)
LEMMA RecordFailureStep ==
    ASSUME PipelineInvariant, NEW c \in Claims, RecordFailure(c)
    PROVE  PipelineInvariant'
  <1> USE DEF PipelineInvariant
  <1>0. /\ scan' = [scan EXCEPT ![c] = NoScan]
        /\ UNCHANGED <<reviewVars, itemVars, evidenceVars, timeVars, tick, patch, boundVars>>
        /\ c[1] \in Receipts /\ c[2] \in Nat
    BY ScanFacts DEF RecordFailure
  <1>1. CASE ~Live(c)
    <2>1. UNCHANGED claimVars
      BY <1>1 DEF RecordFailure
    <2>2. clock' \in Nat /\ faults' \in 0..MaxFaults /\ scan[c].pc # "done"
      BY <1>0 DEF RecordFailure, timeVars, boundVars, TypeOK
    <2>3. UNCHANGED <<claimVars, reviewVars, itemVars, evidenceVars, claims, expired, tick, patch,
                      userOps>>
      BY <1>0, <2>1 DEF timeVars, boundVars
    <2> QED
      BY <1>0, <2>2, <2>3, NoScanType, ScanAloneStep DEF NoScan, Reading, Applying
  <1>2. CASE Live(c)
    <2> DEFINE r == c[1]
    <2>1. scan[c].error # "terminal"
      BY <1>2, ScanFacts
    <2>2. /\ scanState[r] = "scanning" /\ images[r] > 0
          /\ startedAt' = [startedAt EXCEPT ![r] = 0]
      BY <1>2, ScanFacts DEF RecordFailure, Live
    <2>3. \/ /\ scanAttempts' = [scanAttempts EXCEPT ![r] = @ + 1]
             /\ reclaimCount' = reclaimCount
             /\ scanState' = [scanState EXCEPT ![r] = AfterFailure(scanAttempts[r], MaxScanAttempts)]
          \/ /\ reclaimCount' = [reclaimCount EXCEPT ![r] = @ + 1]
             /\ scanAttempts' = scanAttempts
             /\ scanState' = [scanState EXCEPT ![r] = AfterFailure(reclaimCount[r], MaxReclaims)]
      BY <1>2, <2>1 DEF RecordFailure
    <2>4. TypeOK'
      <3>1. /\ scanState' \in [Receipts -> ScanStates \cup {"none", "deleted"}]
            /\ startedAt' \in [Receipts -> 0..MaxClaims]
            /\ scanAttempts' \in [Receipts -> Nat]
            /\ reclaimCount' \in [Receipts -> Nat]
        <4>1. scanState'[r] \in {"uploaded", "scan_failed"}
          BY <1>0, <2>3 DEF TypeOK, AfterFailure
        <4>2. scanState' = [scanState EXCEPT ![r] = scanState'[r]]
          BY <1>0, <2>3 DEF TypeOK
        <4>3. scanState' \in [Receipts -> ScanStates \cup {"none", "deleted"}]
          BY <1>0, <4>1, <4>2 DEF TypeOK, ScanStates
        <4>4. startedAt' \in [Receipts -> 0..MaxClaims]
          BY <1>0, <2>2, LimitsAssumption DEF TypeOK
        <4>5. scanAttempts' \in [Receipts -> Nat] /\ reclaimCount' \in [Receipts -> Nat]
          BY <1>0, <2>3 DEF TypeOK
        <4> QED
          BY <4>3, <4>4, <4>5
      <3>2. scan' \in [Claims -> ScanLocals]
        BY <1>0, NoScanType DEF TypeOK
      <3> QED
        BY <1>0, <3>1, <3>2 DEF TypeOK, reviewVars, itemVars, evidenceVars, timeVars, boundVars
    <2>5. /\ IdleEvidenceIsComplete'
          /\ UnusedRowsBlank'
          /\ QueuedHasImages'
          /\ HolderIsLatestClaim'
          /\ FailedOnlyWhenBudgetSpent'
      <3>1. UNCHANGED <<images, raw, claims>>
        BY <1>0 DEF evidenceVars, timeVars
      <3>2. CASE /\ scanAttempts' = [scanAttempts EXCEPT ![r] = @ + 1]
                 /\ reclaimCount' = reclaimCount
                 /\ scanState' =
                        [scanState EXCEPT ![r] = AfterFailure(scanAttempts[r], MaxScanAttempts)]
        BY <1>0, <2>2, <3>1, <3>2, LimitsAssumption
           DEF TypeOK, AfterFailure, IdleEvidenceIsComplete, UnusedRowsBlank, QueuedHasImages,
               HolderIsLatestClaim, FailedOnlyWhenBudgetSpent
      <3>3. CASE /\ reclaimCount' = [reclaimCount EXCEPT ![r] = @ + 1]
                 /\ scanAttempts' = scanAttempts
                 /\ scanState' = [scanState EXCEPT ![r] = AfterFailure(reclaimCount[r], MaxReclaims)]
        BY <1>0, <2>2, <3>1, <3>3, LimitsAssumption
           DEF TypeOK, AfterFailure, IdleEvidenceIsComplete, UnusedRowsBlank, QueuedHasImages,
               HolderIsLatestClaim, FailedOnlyWhenBudgetSpent
      <3> QED
        BY <2>3, <3>2, <3>3
    <2>6. /\ LiveScansReadAllImages'
          /\ TerminalOnlyWhenGone'
          /\ FutureClaimsUnused'
          /\ VerifyingIsReviewed'
          /\ ResultKindChecked'
          /\ WritesAreStamped'
      <3>1. \A d \in Claims : Live(d)' => Live(d)
        <4> SUFFICES ASSUME NEW d \in Claims, Live(d)' PROVE Live(d)
          OBVIOUS
        <4>1. d[1] \in Receipts /\ d[2] \in 1..MaxClaims
          BY ClaimParts
        <4>2. d[1] # r
          BY <1>0, <2>2, <4>1, LimitsAssumption DEF Live, TypeOK
        <4> QED
          BY <1>0, <2>2, <2>3, <4>1, <4>2 DEF Live, TypeOK
      <3>2. UNCHANGED <<images, claims, reviewedAt>>
        BY <1>0 DEF evidenceVars, timeVars, reviewVars
      <3> QED
        BY <1>0, <3>1, <3>2, ScanEnds DEF Reviewed
    <2> QED
      BY <2>4, <2>5, <2>6
  <1> QED
    BY <1>1, <1>2

LEMMA CrashStep ==
    ASSUME PipelineInvariant, Crash
    PROVE  PipelineInvariant'
  <1> USE DEF Crash, Fault, claimVars, reviewVars, evidenceVars, timeVars, PipelineInvariant
  <1>1. TypeOK'
    BY NoScanType, LimitsAssumption DEF TypeOK, NoTick, NoPatch
  <1>2. /\ IdleEvidenceIsComplete'
        /\ UnusedRowsBlank'
        /\ QueuedHasImages'
        /\ HolderIsLatestClaim'
        /\ FailedOnlyWhenBudgetSpent'
    BY DEF IdleEvidenceIsComplete, UnusedRowsBlank, QueuedHasImages, HolderIsLatestClaim,
           FailedOnlyWhenBudgetSpent
  <1>3. \A d \in Claims : scan'[d] = NoScan
    OBVIOUS
  <1>4. /\ LiveScansReadAllImages'
        /\ TerminalOnlyWhenGone'
        /\ FutureClaimsUnused'
        /\ VerifyingIsReviewed'
        /\ ResultKindChecked'
        /\ WritesAreStamped'
    BY <1>3 DEF NoScan, Reading, Applying, LiveScansReadAllImages, TerminalOnlyWhenGone,
       FutureClaimsUnused, VerifyingIsReviewed, ResultKindChecked, WritesAreStamped
  <1> QED
    BY <1>1, <1>2, <1>4

LEMMA StutterStep ==
    ASSUME PipelineInvariant, UNCHANGED vars
    PROVE  PipelineInvariant'
  BY DEF vars, claimVars, reviewVars, itemVars, evidenceVars, timeVars, boundVars,
         PipelineInvariant, TypeOK, IdleEvidenceIsComplete, UnusedRowsBlank,
         LiveScansReadAllImages, QueuedHasImages, TerminalOnlyWhenGone, FutureClaimsUnused,
         VerifyingIsReviewed, ResultKindChecked, WritesAreStamped, HolderIsLatestClaim,
         FailedOnlyWhenBudgetSpent, Live, Reviewed

-----------------------------------------------------------------------------
(* Every step keeps the inductive invariant. *)
LEMMA NextInvariant ==
    PipelineInvariant /\ [Next]_vars => PipelineInvariant'
  <1> SUFFICES ASSUME PipelineInvariant, [Next]_vars
               PROVE  PipelineInvariant'
    OBVIOUS
  <1>1. ASSUME NEW r \in Receipts, ReceiptRequest(r) \/ Expire(r)
        PROVE  PipelineInvariant'
    BY <1>1, UploadStep, CreateManualStep, AddImagesStep, RetryScanStep, DeleteReceiptStep,
       ItemInsertStep, ItemCommitStep, ItemRollbackStep, ItemDeleteStep, ExpireStep
       DEF ReceiptRequest
  <1>2. ASSUME NEW e \in Editors, PatchStep(e)
        PROVE  PipelineInvariant'
    BY <1>2, PatchBeginStep, PatchCommitStep, PatchAbortStep DEF PatchStep
  <1>3. ASSUME NEW t \in Ticks, TickStep(t)
        PROVE  PipelineInvariant'
    BY <1>3, TickReclaimStep, TickSnapshotStep, TickClaimStep DEF TickStep
  <1>4. ASSUME NEW c \in Claims, ScanStep(c)
        PROVE  PipelineInvariant'
    BY <1>4, ScanSnapshotStep, ListImagesStep, ProviderReplyStep, FailingStep, ApplyReadStep,
       ApplyBeginStep, ApplyWaitStep, ApplyStaleStep, ApplyChangedStep, WriteVerifyStep,
       WriteExtractionStep, RecordFailureStep
       DEF ScanStep
  <1>5. ASSUME FaultStep
        PROVE  PipelineInvariant'
    BY <1>5, TickClaimLostStep, TickErrorStep, LostStep, CrashStep DEF FaultStep
  <1> QED
    BY <1>1, <1>2, <1>3, <1>4, <1>5, StutterStep DEF Next

(* The scan pipeline keeps its inductive invariant through every           *)
(* interleaving of requests, ticks, scans, crashes and lost calls.         *)
THEOREM PipelineCorrect == Spec => []PipelineInvariant
  <1>1. Init => PipelineInvariant
    BY InitInvariant
  <1> QED
    BY <1>1, NextInvariant, PTL DEF Spec

(* Every column and local keeps its domain: scan_state is one of the four  *)
(* values of its CHECK, a receipt never exceeds MAX_IMAGES_PER_RECEIPT and *)
(* a kind read off a document never leaves the kind table.                 *)
THEOREM TypeCorrect == Spec => []TypeOK
  <1>1. PipelineInvariant => TypeOK
    BY DEF PipelineInvariant
  <1> QED
    BY <1>1, PipelineCorrect, PTL

(* A receipt at rest was scanned from all of its images, for any number of *)
(* receipts, concurrent ticks, claims, edits and faults: addImages() and a *)
(* late answer cannot leave an image unread.                               *)
THEOREM EvidenceComplete == Spec => []IdleEvidenceIsComplete
  <1>1. PipelineInvariant => IdleEvidenceIsComplete
    BY DEF PipelineInvariant
  <1> QED
    BY <1>1, PipelineCorrect, PTL

(* reclaimStuck charges the rows whose claim is too old. *)
LEMMA ReclaimCharges ==
    ASSUME PipelineInvariant, NEW t \in Ticks, TickReclaim(t), NEW r \in Receipts,
           Spent(r)' > Spent(r)
    PROVE  ChargesHolder(r)
  <1>1. scanAttempts[r] \in Nat /\ reclaimCount[r] \in Nat /\ startedAt[r] \in Nat /\ expired[r] \in Nat
    BY LimitsAssumption DEF PipelineInvariant, TypeOK
  <1>2. /\ scanAttempts' = scanAttempts
        /\ reclaimCount'[r] = reclaimCount[r] + (IF Stuck(r) THEN 1 ELSE 0)
        /\ startedAt'[r] = IF Stuck(r) THEN 0 ELSE startedAt[r]
    BY DEF TickReclaim
  <1>3. Stuck(r)
    BY <1>1, <1>2 DEF Spent
  <1> QED
    BY <1>1, <1>2, <1>3 DEF Spent, Stuck, ChargesHolder, PipelineInvariant, HolderIsLatestClaim

(* recordFailure charges the row its own claim holds. *)
LEMMA FailureCharges ==
    ASSUME PipelineInvariant, NEW c \in Claims, RecordFailure(c), NEW r \in Receipts,
           Spent(r)' > Spent(r)
    PROVE  ChargesHolder(r)
  <1>1. /\ scanAttempts \in [Receipts -> Nat] /\ reclaimCount \in [Receipts -> Nat]
        /\ startedAt \in [Receipts -> 0..MaxClaims] /\ scan \in [Claims -> ScanLocals]
    BY DEF PipelineInvariant, TypeOK
  <1>2. c[1] \in Receipts /\ c = <<c[1], c[2]>>
    BY ClaimParts DEF Claims
  <1>3. scan[c].pc = "failing" /\ scan' = [scan EXCEPT ![c] = NoScan]
    BY DEF RecordFailure
  <1>4. ~UNCHANGED <<scanAttempts, reclaimCount>>
    BY <1>1 DEF Spent
  <1>5. /\ Live(c) /\ startedAt' = [startedAt EXCEPT ![c[1]] = 0]
        /\ \/ scanAttempts' = [scanAttempts EXCEPT ![c[1]] = @ + 1] /\ reclaimCount' = reclaimCount
           \/ reclaimCount' = [reclaimCount EXCEPT ![c[1]] = @ + 1] /\ scanAttempts' = scanAttempts
    BY <1>4 DEF RecordFailure, claimVars
  <1>6. r = c[1] /\ Spent(r)' = Spent(r) + 1
    BY <1>1, <1>2, <1>5 DEF Spent
  <1>7. startedAt'[r] = 0 /\ scanState[r] = "scanning" /\ startedAt[r] = claims[r]
    BY <1>1, <1>5, <1>6 DEF Live, PipelineInvariant, HolderIsLatestClaim
  <1>8. <<r, startedAt[r]>> = c
    BY <1>2, <1>5, <1>6 DEF Live
  <1>9. scan'[c].pc = "done"
    BY <1>1, <1>3 DEF NoScan
  <1> QED
    BY <1>3, <1>6, <1>7, <1>8, <1>9 DEF ChargesHolder

(* No other step charges anybody. *)
LEMMA OthersChargeNothing ==
    ASSUME PipelineInvariant, [Next]_vars, NEW r \in Receipts, Spent(r)' > Spent(r)
    PROVE  (\E t \in Ticks : TickReclaim(t)) \/ (\E c \in Claims : RecordFailure(c))
  <1> SUFFICES ASSUME \A t \in Ticks : ~TickReclaim(t), \A c \in Claims : ~RecordFailure(c)
               PROVE  FALSE
    OBVIOUS
  <1>0. scanAttempts \in [Receipts -> Nat] /\ reclaimCount \in [Receipts -> Nat]
    BY DEF PipelineInvariant, TypeOK
  <1>1. CASE UNCHANGED <<scanAttempts, reclaimCount>>
    BY <1>0, <1>1 DEF Spent
  <1>2. ASSUME NEW q \in Receipts, ReceiptRequest(q) \/ Expire(q)
        PROVE  FALSE
    <2>1. CASE RetryScan(q)
      BY <1>0, <2>1 DEF RetryScan, Spent
    <2> QED
      BY <1>1, <1>2, <2>1 DEF ReceiptRequest, Upload, CreateManual, AddImages, DeleteReceipt,
         ItemInsert, ItemCommit, ItemRollback, ItemDelete, Expire, claimVars
  <1>3. ASSUME NEW e \in Editors, PatchStep(e)
        PROVE  FALSE
    BY <1>1, <1>3 DEF PatchStep, PatchBegin, PatchCommit, PatchAbort, claimVars
  <1>4. ASSUME NEW t \in Ticks, TickStep(t) \/ TickClaimLost(t) \/ TickError(t)
        PROVE  FALSE
    BY <1>1, <1>4 DEF TickStep, TickSnapshot, TickClaim, TickClaimLost, TickError, ClaimRows,
       claimVars
  <1>5. ASSUME NEW c \in Claims, ScanStep(c) \/ CommitLost(c) \/ RecordFailureLost(c)
        PROVE  FALSE
    BY <1>1, <1>5 DEF ScanStep, ScanSnapshot, ListImages, ProviderReply, ProviderScanError,
       InfraError, ApplyRead, ApplyBegin, ApplyWait, ApplyStale, ApplyChanged, WriteVerify,
       WriteExtraction, Complete, CommitLost, RecordFailureLost, ScanMoves, claimVars
  <1>6. CASE Crash \/ UNCHANGED vars
    BY <1>1, <1>6 DEF Crash, vars, claimVars
  <1> QED
    BY <1>2, <1>3, <1>4, <1>5, <1>6 DEF Next, FaultStep

(* A unit of a receipt's budgets is always charged to the claim that holds *)
(* it, its latest, for a failure or an age of its own, and ends that       *)
(* claim: neither a reclaim followed by a late recordFailure() nor one     *)
(* after an added image charges a claim twice, or one for another.         *)
THEOREM ChargedOnce == Spec => ChargesHoldingClaim
  <1>1. ASSUME PipelineInvariant, [Next]_vars
        PROVE  \A r \in Receipts : Spent(r)' > Spent(r) => ChargesHolder(r)
    BY <1>1, OthersChargeNothing, ReclaimCharges, FailureCharges
  <1> QED
    BY <1>1, PipelineCorrect, PTL DEF Spec, ChargesHoldingClaim

(* A receipt is in scan_failed only after one of its budgets was spent, so *)
(* the terminal failure of process() never fails a live receipt.           *)
THEOREM FailedMeansSpent == Spec => []FailedOnlyWhenBudgetSpent
  <1>1. PipelineInvariant => FailedOnlyWhenBudgetSpent
    BY DEF PipelineInvariant
  <1> QED
    BY <1>1, PipelineCorrect, PTL

(* writeExtraction() dereferences canonicalDirection of a scannable kind   *)
(* only, whenever the row was reviewed or not between validateResult() and *)
(* the lock.                                                               *)
THEOREM DirectionNeverEmpty == Spec => []ExtractionKindHasDirection
  <1>1. \A k : Scannable(k) => RulesFor(k).canonicalDirection \in Directions
    BY DEF Scannable, RulesFor, KindRules, KnownKinds, Directions, AnyDirection
  <1>2. PipelineInvariant => ExtractionKindHasDirection
    <2> SUFFICES ASSUME PipelineInvariant, NEW c \in Claims,
                        scan[c].pc \in Applying, ~Reviewed(c[1])
                 PROVE  Scannable(scan[c].result.kind)
      BY <1>1 DEF ExtractionKindHasDirection
    <2> QED
      BY ScanFacts
  <1> QED
    BY <1>2, PipelineCorrect, PTL

(* Only the two writes of applyResult() bring a row from scanning to idle. *)
LEMMA OnlyWritesComplete ==
    ASSUME PipelineInvariant, [Next]_vars, NEW r \in Receipts, ScanCompletes(r)
    PROVE  \E c \in Claims : c[1] = r /\ (WriteVerify(c) \/ WriteExtraction(c))
  <1> USE DEF ScanCompletes
  <1>0. scanState \in [Receipts -> ScanStates \cup {"none", "deleted"}] /\ scanState' # scanState
    BY DEF PipelineInvariant, TypeOK
  <1>1. ASSUME NEW q \in Receipts, ReceiptRequest(q) \/ Expire(q)
        PROVE  FALSE
    BY <1>0, <1>1 DEF ReceiptRequest, Upload, CreateManual, AddImages, RetryScan, DeleteReceipt,
       ItemInsert, ItemCommit, ItemRollback, ItemDelete, Expire, NextId, claimVars
  <1>2. ASSUME NEW e \in Editors, PatchStep(e)
        PROVE  FALSE
    BY <1>0, <1>2 DEF PatchStep, PatchBegin, PatchCommit, PatchAbort, claimVars
  <1>3. ASSUME NEW t \in Ticks, TickStep(t) \/ TickClaimLost(t) \/ TickError(t)
        PROVE  FALSE
    BY <1>0, <1>3 DEF TickStep, TickReclaim, TickSnapshot, TickClaim, TickClaimLost, TickError,
       ClaimRows, AfterFailure, claimVars
  <1>4. ASSUME NEW c \in Claims, ScanStep(c) \/ CommitLost(c) \/ RecordFailureLost(c)
        PROVE  c[1] = r /\ (WriteVerify(c) \/ WriteExtraction(c))
    <2>1. CASE WriteVerify(c) \/ WriteExtraction(c)
      BY <1>0, <2>1, ClaimParts DEF WriteVerify, WriteExtraction, Complete
    <2>2. CASE RecordFailure(c)
      BY <1>0, <2>2, ClaimParts DEF RecordFailure, AfterFailure, claimVars
    <2>3. CASE UNCHANGED claimVars
      BY <1>0, <2>3 DEF claimVars
    <2> QED
      BY <1>4, <2>1, <2>2, <2>3
         DEF ScanStep, ScanSnapshot, ListImages, ProviderReply, ProviderScanError, InfraError,
             ApplyRead, ApplyBegin, ApplyWait, ApplyStale, ApplyChanged, CommitLost,
             RecordFailureLost, ScanMoves
  <1>5. CASE Crash
    BY <1>0, <1>5 DEF Crash, claimVars
  <1>6. CASE UNCHANGED vars
    BY <1>0, <1>6 DEF vars, claimVars
  <1> QED
    BY <1>1, <1>2, <1>3, <1>4, <1>5, <1>6 DEF Next, FaultStep

(* Trust-gated scan mode for every instance: a scan that completes on a    *)
(* reviewed row keeps the user's kind and total and fills the merchant     *)
(* only if it is NULL, because writeExtraction() is chosen under the row   *)
(* lock and never for a reviewed row.                                      *)
THEOREM ReviewedFieldsSafe == Spec => ReviewedFieldsKept
  <1>1. ASSUME PipelineInvariant, [Next]_vars
        PROVE  \A r \in Receipts : ScanCompletes(r) /\ Reviewed(r) =>
                   /\ fields'[r].kind = fields[r].kind
                   /\ fields'[r].total = fields[r].total
                   /\ fields[r].merchant # NULL => fields'[r].merchant = fields[r].merchant
    <2> SUFFICES ASSUME NEW r \in Receipts, ScanCompletes(r), Reviewed(r)
                 PROVE  /\ fields'[r].kind = fields[r].kind
                        /\ fields'[r].total = fields[r].total
                        /\ fields[r].merchant # NULL => fields'[r].merchant = fields[r].merchant
      OBVIOUS
    <2>1. PICK c \in Claims : c[1] = r /\ (WriteVerify(c) \/ WriteExtraction(c))
      BY <1>1, OnlyWritesComplete
    <2>2. WriteVerify(c)
      BY <2>1 DEF WriteExtraction, VerifyMode
    <2>3. fields \in [Receipts -> Fields] /\ fields[r] \in Fields
      BY <1>1 DEF PipelineInvariant, TypeOK
    <2>4. fields'[r] = [fields[r] EXCEPT
                            !.merchant = Coalesce(fields[r].merchant, scan[c].result.merchant)]
      BY <2>1, <2>2, <2>3 DEF WriteVerify
    <2> QED
      BY <2>3, <2>4 DEF Fields, Coalesce
  <1> QED
    BY <1>1, PipelineCorrect, PTL DEF Spec, ReviewedFieldsKept

-----------------------------------------------------------------------------
(* Why the verdict of a comparison made before the row lock still holds    *)
(* under it.  now() of a transaction is drawn at its BEGIN, before the row *)
(* is locked, so updated_at does not grow from write to write; what        *)
(* Unchanged() relies on is that two writes of a row never leave the same  *)
(* stamp.  The time of an edit still under way is on no row, in no         *)
(* snapshot and in no other transaction; so a live scan that finds the     *)
(* updated_at it compared finds the row it compared, reviewed before its   *)
(* own transaction began.                                                  *)

Compared == {"begin", "locking", "waiting"}
Writing == {"locking", "waiting"}

StampsArePast ==
    /\ \A r \in Receipts : updatedAt[r] <= clock /\ reviewedAt[r] <= clock
    /\ \A e \in Editors : patch[e].ts <= clock
    /\ \A c \in Claims : scan[c].ts <= clock /\ scan[c].before.updatedAt <= clock

EditStampsFresh ==
    \A e \in Editors : patch[e] # NoPatch =>
        /\ \A r \in Receipts : updatedAt[r] # patch[e].ts
        /\ \A c \in Claims : scan[c].ts # patch[e].ts /\ scan[c].before.updatedAt # patch[e].ts
        /\ \A f \in Editors \ {e} : patch[f].ts # patch[e].ts

ComparedRowStands ==
    \A c \in Claims :
        scan[c].pc \in Compared /\ Live(c) /\ scan[c].before.updatedAt = updatedAt[c[1]] =>
            /\ scan[c].matched <=> (Reviewed(c[1]) => Matches(fields[c[1]], scan[c].result))
            /\ scan[c].pc \in Writing => reviewedAt[c[1]] < scan[c].ts

(* A scan writes the items of a row once, and edits are requests. *)
ScanItemsOnce == \A r \in Receipts : scanItems[r] <= 1
EditsRequested == \A e \in Editors : patch[e] # NoPatch => "patch" \in Requests

StampInvariant ==
    /\ StampsArePast
    /\ EditStampsFresh
    /\ ComparedRowStands
    /\ ScanItemsOnce
    /\ EditsRequested

(* A confirmed receipt leaves the stats when a completed scan finds a      *)
(* mismatch, or when an edit commits that began before the scan that last  *)
(* proposed values: its reviewed_at is the earlier time (updateReceipt).   *)
LeavesStatsOnMismatchOrOldEdit ==
    [][\A r \in Receipts : Confirmed(r) /\ Exists(r) /\ Exists(r)' /\ ~Confirmed(r)' =>
           \/ ScanCompletes(r) /\ ~Matches(fields[r], raw'[r].result)
           \/ \E e \in Editors :
                  PatchCommit(e) /\ patch[e].r = r /\ patch[e].ts < proposedAt[r]]_vars

LEMMA StampTypes ==
    ASSUME PipelineInvariant
    PROVE  /\ clock \in Nat
           /\ \A r \in Receipts : updatedAt[r] \in Nat /\ reviewedAt[r] \in Nat
           /\ \A e \in Editors : patch[e].ts \in Nat
           /\ \A e \in Editors : patch[e] # NoPatch => patch[e].ts # 0 /\ patch[e].r \in Receipts
           /\ \A c \in Claims : /\ c[1] \in Receipts
                                /\ scan[c].ts \in Nat /\ scan[c].before.updatedAt \in Nat
                                /\ scan[c].matched \in BOOLEAN
           /\ NoPatch.ts = 0 /\ NoScan.ts = 0 /\ NoScan.before.updatedAt = 0 /\ NoScan.pc = "done"
  <1>1. /\ clock \in Nat /\ updatedAt \in [Receipts -> Nat] /\ reviewedAt \in [Receipts -> Nat]
        /\ patch \in [Editors -> [r : Receipts, ts : Nat \ {0}] \cup {NoPatch}]
        /\ scan \in [Claims -> ScanLocals]
    BY DEF PipelineInvariant, TypeOK
  <1>2. \A e \in Editors : patch[e] = NoPatch \/ patch[e] \in [r : Receipts, ts : Nat \ {0}]
    BY <1>1
  <1>3. \A p \in [r : Receipts, ts : Nat \ {0}] : p.ts \in Nat /\ p.ts # 0 /\ p.r \in Receipts
    OBVIOUS
  <1>4. \A l \in ScanLocals : l.ts \in Nat /\ l.before \in Snapshots /\ l.matched \in BOOLEAN
    BY DEF ScanLocals
  <1>5. \A s \in Snapshots : s.updatedAt \in Nat
    BY DEF Snapshots
  <1>6. NoPatch.ts = 0
    BY DEF NoPatch
  <1>7. NoScan.ts = 0 /\ NoScan.before.updatedAt = 0 /\ NoScan.pc = "done"
    BY DEF NoScan, NoSnapshot
  <1> QED
    BY <1>1, <1>2, <1>3, <1>4, <1>5, <1>6, <1>7, ClaimParts

(* A scan that compares nothing yet, or no longer, and one that goes on    *)
(* with what it compared.                                                  *)
ComparesNothing(c) ==
    /\ scan'[c].pc \notin Compared
    /\ scan'[c].ts \in {0, scan[c].ts}
    /\ scan'[c].before.updatedAt \in {0, scan[c].before.updatedAt}
KeepsComparison(c) ==
    /\ scan[c].pc \in Compared
    /\ scan'[c].pc \in Writing => scan[c].pc \in Writing
    /\ scan'[c].ts = scan[c].ts /\ scan'[c].before = scan[c].before
    /\ scan'[c].matched = scan[c].matched /\ scan'[c].result = scan[c].result
    /\ Live(c)' => Live(c)
CarriesOn(c) == ComparesNothing(c) \/ KeepsComparison(c)

(* A step that stamps no row. *)
LEMMA NoStampStep ==
    ASSUME PipelineInvariant, StampInvariant,
           UNCHANGED <<updatedAt, reviewedAt, fields, clock>>,
           \A e \in Editors : patch'[e] \in {patch[e], NoPatch},
           \A c \in Claims : CarriesOn(c),
           ScanItemsOnce'
    PROVE  StampInvariant'
  <1> USE StampTypes
  <1>0. StampsArePast /\ EditStampsFresh /\ ComparedRowStands /\ EditsRequested
    BY DEF StampInvariant
  <1>1. \A c \in Claims : /\ scan'[c].ts \in {0, scan[c].ts}
                          /\ scan'[c].before.updatedAt \in {0, scan[c].before.updatedAt}
    BY DEF CarriesOn, ComparesNothing, KeepsComparison
  <1>2. StampsArePast'
    BY <1>0, <1>1 DEF StampsArePast
  <1>3. EditStampsFresh'
    <2> SUFFICES ASSUME NEW e \in Editors, patch'[e] # NoPatch
                 PROVE  /\ \A r \in Receipts : updatedAt'[r] # patch'[e].ts
                        /\ \A c \in Claims : /\ scan'[c].ts # patch'[e].ts
                                             /\ scan'[c].before.updatedAt # patch'[e].ts
                        /\ \A f \in Editors \ {e} : patch'[f].ts # patch'[e].ts
      BY DEF EditStampsFresh
    <2>1. patch'[e] = patch[e] /\ patch[e] # NoPatch
      OBVIOUS
    <2> QED
      BY <1>0, <1>1, <2>1 DEF EditStampsFresh
  <1>4. ComparedRowStands'
    <2> SUFFICES ASSUME NEW c \in Claims, scan'[c].pc \in Compared, Live(c)',
                        scan'[c].before.updatedAt = updatedAt'[c[1]]
                 PROVE  /\ scan'[c].matched <=>
                               (Reviewed(c[1])' => Matches(fields'[c[1]], scan'[c].result))
                        /\ scan'[c].pc \in Writing => reviewedAt'[c[1]] < scan'[c].ts
      BY DEF ComparedRowStands
    <2>1. KeepsComparison(c)
      BY DEF CarriesOn, ComparesNothing
    <2>2. Reviewed(c[1])' <=> Reviewed(c[1])
      BY DEF Reviewed
    <2> QED
      BY <1>0, <2>1, <2>2 DEF ComparedRowStands, KeepsComparison
  <1>5. EditsRequested'
    BY <1>0 DEF EditsRequested
  <1> QED
    BY <1>2, <1>3, <1>4, <1>5 DEF StampInvariant

(* A transaction begins: its time is later than every stamp there is. *)
LEMMA ClockStep ==
    ASSUME PipelineInvariant, StampInvariant, clock' = clock + 1,
           \A r \in Receipts : updatedAt'[r] \in {updatedAt[r], clock + 1},
           \A r \in Receipts : reviewedAt'[r] \in {reviewedAt[r], clock + 1},
           \A e \in Editors : patch'[e] = patch[e],
           \A c \in Claims : scan'[c].ts \in {scan[c].ts, clock + 1},
           \A c \in Claims : scan'[c].before = scan[c].before
    PROVE  StampsArePast' /\ EditStampsFresh' /\ EditsRequested'
  <1> USE StampTypes
  <1>0. StampsArePast /\ EditStampsFresh /\ EditsRequested
    BY DEF StampInvariant
  <1>1. StampsArePast'
    BY <1>0 DEF StampsArePast
  <1>2. EditStampsFresh'
    BY <1>0 DEF EditStampsFresh, StampsArePast
  <1>3. EditsRequested'
    BY <1>0 DEF EditsRequested
  <1> QED
    BY <1>1, <1>2, <1>3

(* A request stamps a row no scan is of. *)
LEMMA RequestStampStep ==
    ASSUME PipelineInvariant, StampInvariant, NEW r \in Receipts,
           Upload(r) \/ CreateManual(r) \/ RetryScan(r)
    PROVE  StampInvariant'
  <1> USE StampTypes
  <1>1. /\ clock' = clock + 1 /\ patch' = patch /\ scan' = scan /\ scanItems' = scanItems
        /\ scanState[r] # "scanning" /\ scanState'[r] # "scanning"
        /\ \A q \in Receipts : /\ updatedAt'[q] \in {updatedAt[q], clock + 1}
                               /\ reviewedAt'[q] \in {reviewedAt[q], clock + 1}
        /\ \A q \in Receipts \ {r} : /\ updatedAt'[q] = updatedAt[q] /\ fields'[q] = fields[q]
                                     /\ reviewedAt'[q] = reviewedAt[q]
                                     /\ scanState'[q] = scanState[q]
        /\ startedAt' = startedAt
    BY DEF Upload, CreateManual, RetryScan, NextId, itemVars, PipelineInvariant, TypeOK
  <1>2. StampsArePast' /\ EditStampsFresh' /\ EditsRequested'
    BY <1>1, ClockStep
  <1>3. ComparedRowStands'
    <2> SUFFICES ASSUME NEW c \in Claims, scan'[c].pc \in Compared, Live(c)',
                        scan'[c].before.updatedAt = updatedAt'[c[1]]
                 PROVE  /\ scan'[c].matched <=>
                               (Reviewed(c[1])' => Matches(fields'[c[1]], scan'[c].result))
                        /\ scan'[c].pc \in Writing => reviewedAt'[c[1]] < scan'[c].ts
      BY DEF ComparedRowStands
    <2>1. c[1] # r /\ Live(c)
      BY <1>1 DEF Live
    <2>2. Reviewed(c[1])' <=> Reviewed(c[1])
      BY <1>1, <2>1 DEF Reviewed
    <2> QED
      BY <1>1, <2>1, <2>2 DEF StampInvariant, ComparedRowStands
  <1>4. ScanItemsOnce'
    BY <1>1 DEF StampInvariant, ScanItemsOnce
  <1> QED
    BY <1>2, <1>3, <1>4 DEF StampInvariant

(* The scans stand still, and none of them comes to life. *)
LEMMA ScansStandStill ==
    ASSUME PipelineInvariant, StampInvariant, scan' = scan,
           UNCHANGED <<updatedAt, reviewedAt, fields, clock>>,
           \A e \in Editors : patch'[e] \in {patch[e], NoPatch},
           \A c \in Claims : Live(c)' => Live(c) \/ scan[c] = NoScan,
           ScanItemsOnce'
    PROVE  StampInvariant'
  <1>1. \A c \in Claims : CarriesOn(c)
    BY StampTypes DEF CarriesOn, ComparesNothing, KeepsComparison, Compared
  <1> QED
    BY <1>1, NoStampStep

LEMMA QuietRequestStep ==
    ASSUME PipelineInvariant, StampInvariant, NEW r \in Receipts,
           \/ AddImages(r) \/ DeleteReceipt(r) \/ ItemInsert(r) \/ ItemCommit(r)
           \/ ItemRollback(r) \/ ItemDelete(r) \/ Expire(r)
    PROVE  StampInvariant'
  <1>1. UNCHANGED <<updatedAt, reviewedAt, fields, clock, patch, scan>>
    BY DEF AddImages, DeleteReceipt, ItemInsert, ItemCommit, ItemRollback, ItemDelete, Expire,
           reviewVars, timeVars
  <1>2. \A c \in Claims : Live(c)' => Live(c)
    <2>1. scanState \in [Receipts -> ScanStates \cup {"none", "deleted"}]
          /\ startedAt \in [Receipts -> 0..MaxClaims]
      BY DEF PipelineInvariant, TypeOK
    <2>2. \/ UNCHANGED <<scanState, startedAt>>
          \/ scanState' = [scanState EXCEPT ![r] = "uploaded"] /\ startedAt' = startedAt
          \/ /\ scanState' = [scanState EXCEPT ![r] = "deleted"]
             /\ startedAt' = [startedAt EXCEPT ![r] = 0]
      BY DEF AddImages, DeleteReceipt, ItemInsert, ItemCommit, ItemRollback, ItemDelete, Expire,
             claimVars
    <2> QED
      BY <2>1, <2>2, ClaimParts DEF Live
  <1>3. ScanItemsOnce'
    <2>1. \/ scanItems' = scanItems
          \/ scanItems' = [scanItems EXCEPT ![r] = 0]
          \/ scanItems[r] > 0 /\ scanItems' = [scanItems EXCEPT ![r] = @ - 1]
      BY DEF AddImages, DeleteReceipt, ItemInsert, ItemCommit, ItemRollback, ItemDelete, Expire,
             itemVars
    <2>2. scanItems \in [Receipts -> Nat]
      BY DEF PipelineInvariant, TypeOK
    <2> QED
      BY <2>1, <2>2 DEF StampInvariant, ScanItemsOnce
  <1> QED
    BY <1>1, <1>2, <1>3, ScansStandStill

LEMMA PatchStampStep ==
    ASSUME PipelineInvariant, StampInvariant, NEW e \in Editors, PatchStep(e)
    PROVE  StampInvariant'
  <1> USE StampTypes
  <1>0. patch \in [Editors -> [r : Receipts, ts : Nat \ {0}] \cup {NoPatch}]
    BY DEF PipelineInvariant, TypeOK
  <1>1. ASSUME NEW r \in Receipts, PatchBegin(e, r)
        PROVE  StampInvariant'
    <2>1. /\ clock' = clock + 1 /\ patch[e] = NoPatch /\ "patch" \in Requests
          /\ patch'[e].ts = clock + 1 /\ \A f \in Editors \ {e} : patch'[f] = patch[f]
          /\ UNCHANGED <<updatedAt, reviewedAt, fields, scanState, startedAt, scan, scanItems>>
      BY <1>0, <1>1 DEF PatchBegin, UserRequest, reviewVars, claimVars, itemVars
    <2>2. StampsArePast' /\ EditStampsFresh'
      BY <2>1 DEF StampInvariant, StampsArePast, EditStampsFresh
    <2>3. ComparedRowStands'
      BY <2>1 DEF StampInvariant, ComparedRowStands, Live, Reviewed
    <2>4. ScanItemsOnce' /\ EditsRequested'
      BY <2>1 DEF StampInvariant, ScanItemsOnce, EditsRequested
    <2> QED
      BY <2>2, <2>3, <2>4 DEF StampInvariant
  <1>2. CASE PatchCommit(e)
    <2> DEFINE r == patch[e].r
               ts == patch[e].ts
    <2>1. /\ patch[e] # NoPatch /\ r \in Receipts /\ ts \in Nat
          /\ patch'[e] = NoPatch /\ \A f \in Editors \ {e} : patch'[f] = patch[f]
          /\ UNCHANGED <<clock, scanState, startedAt, scan, scanItems>>
      BY <1>0, <1>2 DEF PatchCommit, timeVars, claimVars, itemVars
    <2>2. /\ updatedAt'[r] = ts /\ reviewedAt'[r] \in {reviewedAt[r], ts}
          /\ \A q \in Receipts \ {r} : /\ updatedAt'[q] = updatedAt[q] /\ fields'[q] = fields[q]
                                       /\ reviewedAt'[q] = reviewedAt[q]
      BY <1>2, <2>1 DEF PatchCommit, PipelineInvariant, TypeOK
    <2>3. /\ \A c \in Claims : scan[c].before.updatedAt # ts
          /\ \A f \in Editors \ {e} : patch[f].ts # ts
          /\ ts <= clock
      BY <2>1 DEF StampInvariant, EditStampsFresh, StampsArePast
    <2> HIDE DEF r, ts
    <2>4. StampsArePast' /\ EditStampsFresh'
      BY <2>1, <2>2, <2>3 DEF StampInvariant, StampsArePast, EditStampsFresh
    <2>5. ComparedRowStands'
      <3> SUFFICES ASSUME NEW c \in Claims, scan'[c].pc \in Compared, Live(c)',
                          scan'[c].before.updatedAt = updatedAt'[c[1]]
                   PROVE  /\ scan'[c].matched <=>
                                 (Reviewed(c[1])' => Matches(fields'[c[1]], scan'[c].result))
                          /\ scan'[c].pc \in Writing => reviewedAt'[c[1]] < scan'[c].ts
        BY DEF ComparedRowStands
      <3>1. c[1] # r /\ Live(c)
        BY <2>1, <2>2, <2>3 DEF Live
      <3>2. Reviewed(c[1])' <=> Reviewed(c[1])
        BY <2>2, <3>1 DEF Reviewed
      <3> QED
        BY <2>1, <2>2, <3>1, <3>2 DEF StampInvariant, ComparedRowStands
    <2>6. ScanItemsOnce' /\ EditsRequested'
      BY <2>1 DEF StampInvariant, ScanItemsOnce, EditsRequested
    <2> QED
      BY <2>4, <2>5, <2>6 DEF StampInvariant
  <1>3. CASE PatchAbort(e)
    <2>1. /\ UNCHANGED <<updatedAt, reviewedAt, fields, clock, scan, scanState, startedAt, scanItems>>
          /\ \A f \in Editors : patch'[f] \in {patch[f], NoPatch}
      BY <1>0, <1>3 DEF PatchAbort, reviewVars, timeVars, claimVars, itemVars
    <2>2. \A c \in Claims : Live(c)' => Live(c)
      BY <2>1 DEF Live
    <2>3. ScanItemsOnce'
      BY <2>1 DEF StampInvariant, ScanItemsOnce
    <2> QED
      BY <2>1, <2>2, <2>3, ScansStandStill
  <1> QED
    BY <1>1, <1>2, <1>3 DEF PatchStep

(* A claim that becomes live has no scan yet, or one at its start. *)
LEMMA TickStampStep ==
    ASSUME PipelineInvariant, StampInvariant, NEW t \in Ticks,
           TickStep(t) \/ TickClaimLost(t) \/ TickError(t)
    PROVE  StampInvariant'
  <1>0. scanState \in [Receipts -> ScanStates \cup {"none", "deleted"}]
        /\ startedAt \in [Receipts -> 0..MaxClaims] /\ claims \in [Receipts -> 0..MaxClaims]
    BY DEF PipelineInvariant, TypeOK
  <1>1. UNCHANGED <<updatedAt, reviewedAt, fields, clock, patch, scanItems>>
    BY DEF TickStep, TickReclaim, TickSnapshot, TickClaim, TickClaimLost, TickError, ClaimRows,
           reviewVars, timeVars, itemVars
  <1>2. ScanItemsOnce'
    BY <1>1 DEF StampInvariant, ScanItemsOnce
  <1>3. CASE TickReclaim(t) \/ TickSnapshot(t) \/ TickError(t)
    <2>1. scan' = scan /\ \A c \in Claims : Live(c)' => Live(c)
      BY <1>0, <1>3, ClaimParts DEF TickReclaim, TickSnapshot, TickError, claimVars, Live, Stuck,
         AfterFailure
    <2> QED
      BY <1>1, <1>2, <2>1, ScansStandStill
  <1>4. CASE ClaimRows(t)
    <2>1. \A c \in Claims : Live(c)' => Live(c) \/ (c[1] \in Claimed(t) /\ c[2] = claims[c[1]] + 1)
      BY <1>0, <1>4, ClaimParts DEF ClaimRows, Live
    <2>2. \A c \in Claims : c[2] = claims[c[1]] + 1 => scan[c] = NoScan
      BY <1>0, ClaimParts DEF PipelineInvariant, FutureClaimsUnused
    <2>3. CASE scan' = scan
      BY <1>1, <1>2, <2>1, <2>2, <2>3, ScansStandStill
    <2>4. CASE TickClaim(t)
      <3>1. ASSUME NEW c \in Claims  PROVE CarriesOn(c)
        <4>1. CASE c[1] \in Claimed(t) /\ c[2] = claims[c[1]] + 1
          <5>1. scan'[c] = [NoScan EXCEPT !.pc = "snapshot"]
            BY <2>4, <4>1 DEF TickClaim
          <5>2. /\ scan'[c].pc = "snapshot" /\ scan'[c].ts = 0
                /\ scan'[c].before.updatedAt = 0
            BY <5>1 DEF NoScan, NoSnapshot
          <5> QED
            BY <5>2 DEF CarriesOn, ComparesNothing, Compared
        <4>2. CASE ~(c[1] \in Claimed(t) /\ c[2] = claims[c[1]] + 1)
          <5>1. scan'[c] = scan[c]
            BY <2>4, <4>2 DEF TickClaim
          <5>2. Live(c)' => Live(c)
            BY <2>1, <4>2
          <5> QED
            BY <5>1, <5>2 DEF CarriesOn, ComparesNothing, KeepsComparison
        <4> QED
          BY <4>1, <4>2
      <3> QED
        BY <1>1, <1>2, <3>1, NoStampStep
    <2> QED
      BY <1>3, <2>3, <2>4 DEF TickStep, TickClaimLost
  <1> QED
    BY <1>3, <1>4 DEF TickStep, TickClaim, TickClaimLost

(* A scan moves without a stamp: it compares nothing yet, gives up, or     *)
(* waits for the lock with what it compared.                               *)
LEMMA ScanMoveStampStep ==
    ASSUME PipelineInvariant, StampInvariant, NEW c \in Claims,
           \/ ScanSnapshot(c) \/ ListImages(c) \/ \E result \in Results : ProviderReply(c, result)
           \/ ProviderScanError(c) \/ InfraError(c) \/ ApplyWait(c) \/ ApplyStale(c)
           \/ ApplyChanged(c) \/ CommitLost(c) \/ RecordFailure(c) \/ RecordFailureLost(c)
    PROVE  StampInvariant'
  <1> USE StampTypes
  <1>0. scan \in [Claims -> ScanLocals] /\ scan[c] \in ScanLocals
    BY DEF PipelineInvariant, TypeOK
  <1>1. /\ UNCHANGED <<updatedAt, reviewedAt, fields, clock, patch, scanItems>>
        /\ \A d \in Claims \ {c} : scan'[d] = scan[d]
    BY <1>0 DEF ScanSnapshot, ListImages, ProviderReply, ProviderScanError, InfraError, ApplyWait,
       ApplyStale, ApplyChanged, CommitLost, RecordFailure, RecordFailureLost, ScanMoves,
       reviewVars, timeVars, itemVars
  <1>2. \A d \in Claims : Live(d)' => Live(d)
    <2>1. CASE UNCHANGED claimVars
      BY <2>1 DEF claimVars, Live
    <2>2. CASE RecordFailure(c)
      BY <2>2, ClaimParts DEF RecordFailure, AfterFailure, Live, claimVars, PipelineInvariant, TypeOK
    <2> QED
      BY <2>1, <2>2 DEF ScanSnapshot, ListImages, ProviderReply, ProviderScanError, InfraError,
         ApplyWait, ApplyStale, ApplyChanged, CommitLost, RecordFailureLost, ScanMoves
  <1>3. CarriesOn(c)
    <2>1. CASE ApplyWait(c)
      <3>1. scan'[c] = [scan[c] EXCEPT !.pc = "waiting", !.count = ItemCount(c[1])]
            /\ scan[c].pc = "locking"
        BY <1>0, <2>1 DEF ApplyWait, ScanMoves
      <3>2. /\ scan'[c].pc = "waiting" /\ scan'[c].ts = scan[c].ts
            /\ scan'[c].before = scan[c].before /\ scan'[c].matched = scan[c].matched
            /\ scan'[c].result = scan[c].result
        BY <1>0, <3>1 DEF ScanLocals
      <3> QED
        BY <1>2, <3>1, <3>2 DEF CarriesOn, KeepsComparison, Compared, Writing
    <2>2. CASE ApplyChanged(c)
      <3>1. \/ scan'[c] = [NoScan EXCEPT !.pc = "apply", !.attempt = 1,
                              !.verifying = scan[c].verifying, !.imgs = scan[c].imgs,
                              !.result = scan[c].result]
            \/ scan'[c] = Failing("infra")
        BY <1>0, <2>2 DEF ApplyChanged, ScanMoves
      <3>2. scan'[c].pc \in {"apply", "failing"} /\ scan'[c].ts = 0 /\ scan'[c].before.updatedAt = 0
        BY <3>1 DEF NoScan, NoSnapshot, Failing
      <3> QED
        BY <3>2 DEF CarriesOn, ComparesNothing, Compared
    <2>3. CASE scan' = [scan EXCEPT ![c] = NoScan]
      BY <1>0, <2>3 DEF CarriesOn, ComparesNothing, Compared
    <2>4. ASSUME NEW error, scan' = [scan EXCEPT ![c] = Failing(error)]
          PROVE  CarriesOn(c)
      <3>1. scan'[c] = Failing(error)
        BY <1>0, <2>4
      <3>2. scan'[c].pc = "failing" /\ scan'[c].ts = 0 /\ scan'[c].before.updatedAt = 0
        BY <3>1 DEF NoScan, NoSnapshot, Failing
      <3> QED
        BY <3>2 DEF CarriesOn, ComparesNothing, Compared
    <2>5. CASE ScanSnapshot(c) /\ Live(c)
      <3>1. scan'[c] = [scan[c] EXCEPT !.pc = "list", !.verifying = Reviewed(c[1])]
        BY <1>0, <2>5 DEF ScanSnapshot, ScanMoves
      <3>2. scan'[c].pc = "list" /\ scan'[c].ts = scan[c].ts /\ scan'[c].before = scan[c].before
        BY <1>0, <3>1 DEF ScanLocals
      <3> QED
        BY <3>2 DEF CarriesOn, ComparesNothing, Compared
    <2>6. CASE ListImages(c) /\ images[c[1]] # 0
      <3>1. scan'[c] = [scan[c] EXCEPT !.pc = "calling", !.imgs = images[c[1]]]
        BY <1>0, <2>6 DEF ListImages, ScanMoves
      <3>2. scan'[c].pc = "calling" /\ scan'[c].ts = scan[c].ts /\ scan'[c].before = scan[c].before
        BY <1>0, <3>1 DEF ScanLocals
      <3> QED
        BY <3>2 DEF CarriesOn, ComparesNothing, Compared
    <2>7. ASSUME NEW result \in Results, ProviderReply(c, result)
          PROVE  CarriesOn(c)
      <3>1. scan'[c] = [scan[c] EXCEPT !.pc = "apply", !.result = result]
        BY <1>0, <2>7 DEF ProviderReply, ScanMoves
      <3>2. scan'[c].pc = "apply" /\ scan'[c].ts = scan[c].ts /\ scan'[c].before = scan[c].before
        BY <1>0, <3>1 DEF ScanLocals
      <3> QED
        BY <3>2 DEF CarriesOn, ComparesNothing, Compared
    <2>8. CASE ScanSnapshot(c) /\ ~Live(c)
      BY <2>3, <2>8 DEF ScanSnapshot, ScanMoves
    <2>9. CASE ListImages(c) /\ images[c[1]] = 0
      BY <2>4, <2>9 DEF ListImages, ScanMoves
    <2>10. CASE ProviderScanError(c) \/ InfraError(c)
      BY <2>4, <2>10 DEF ProviderScanError, InfraError, ScanMoves
    <2>11. CASE ApplyStale(c) \/ CommitLost(c) \/ RecordFailure(c) \/ RecordFailureLost(c)
      BY <2>3, <2>11 DEF ApplyStale, CommitLost, RecordFailure, RecordFailureLost, ScanMoves
    <2> QED
      BY <2>1, <2>2, <2>5, <2>6, <2>7, <2>8, <2>9, <2>10, <2>11
  <1>4. \A d \in Claims : CarriesOn(d)
    <2> SUFFICES ASSUME NEW d \in Claims \ {c}  PROVE CarriesOn(d)
      BY <1>3
    <2> QED
      BY <1>1, <1>2 DEF CarriesOn, ComparesNothing, KeepsComparison
  <1>5. ScanItemsOnce'
    BY <1>1 DEF StampInvariant, ScanItemsOnce
  <1> QED
    BY <1>1, <1>4, <1>5, NoStampStep

(* The comparison: of the row as it is now, with the stamp it has now. *)
LEMMA ApplyReadStampStep ==
    ASSUME PipelineInvariant, StampInvariant, NEW c \in Claims, ApplyRead(c)
    PROVE  StampInvariant'
  <1> USE StampTypes
  <1> DEFINE r == c[1]
             matched == Reviewed(r) => Matches(fields[r], scan[c].result)
  <1>0. scan \in [Claims -> ScanLocals] /\ scan[c] \in ScanLocals /\ r \in Receipts
    BY DEF PipelineInvariant, TypeOK
  <1>1. /\ UNCHANGED <<updatedAt, reviewedAt, fields, clock, patch, scanItems, scanState, startedAt>>
        /\ \A d \in Claims \ {c} : scan'[d] = scan[d]
        /\ scan[c].pc = "apply"
    BY <1>0 DEF ApplyRead, ScanMoves, reviewVars, timeVars, itemVars, claimVars
  <1>2. ScanItemsOnce'
    BY <1>1 DEF StampInvariant, ScanItemsOnce
  <1>3. CASE ~Live(c)
    <2>1. scan'[c] = NoScan
      BY <1>0, <1>3 DEF ApplyRead, ScanMoves
    <2>2. \A d \in Claims : CarriesOn(d)
      BY <1>1, <2>1 DEF CarriesOn, ComparesNothing, KeepsComparison, Compared, Live
    <2> QED
      BY <1>1, <1>2, <2>2, NoStampStep
  <1>4. CASE Live(c)
    <2>1. scan'[c] = [scan[c] EXCEPT
                          !.pc = "begin",
                          !.before = [updatedAt |-> updatedAt[r], reviewed |-> Reviewed(r),
                                      count |-> ItemCount(r)],
                          !.matched = matched]
      BY <1>0, <1>4 DEF ApplyRead, ScanMoves
    <2>2. /\ scan'[c].pc = "begin" /\ scan'[c].ts = scan[c].ts
          /\ scan'[c].before.updatedAt = updatedAt[r] /\ scan'[c].matched = matched
          /\ scan'[c].result = scan[c].result
      BY <1>0, <2>1 DEF ScanLocals
    <2>3. StampsArePast' /\ EditStampsFresh' /\ EditsRequested'
      BY <1>0, <1>1, <2>2 DEF StampInvariant, StampsArePast, EditStampsFresh, EditsRequested
    <2>4. ComparedRowStands'
      <3> SUFFICES ASSUME NEW d \in Claims, scan'[d].pc \in Compared, Live(d)',
                          scan'[d].before.updatedAt = updatedAt'[d[1]]
                   PROVE  /\ scan'[d].matched <=>
                                 (Reviewed(d[1])' => Matches(fields'[d[1]], scan'[d].result))
                          /\ scan'[d].pc \in Writing => reviewedAt'[d[1]] < scan'[d].ts
        BY DEF ComparedRowStands
      <3>1. (Reviewed(d[1])' <=> Reviewed(d[1])) /\ Live(d)
        BY <1>1 DEF Reviewed, Live
      <3>2. CASE d = c
        BY <1>1, <2>2, <3>1, <3>2 DEF Writing
      <3>3. CASE d # c
        BY <1>1, <3>1, <3>3 DEF StampInvariant, ComparedRowStands
      <3> QED
        BY <3>2, <3>3
    <2> QED
      BY <1>2, <2>3, <2>4 DEF StampInvariant
  <1> QED
    BY <1>3, <1>4

(* BEGIN: the transaction's time is later than the review it compared. *)
LEMMA ApplyBeginStampStep ==
    ASSUME PipelineInvariant, StampInvariant, NEW c \in Claims, ApplyBegin(c)
    PROVE  StampInvariant'
  <1> USE StampTypes
  <1>0. scan \in [Claims -> ScanLocals] /\ scan[c] \in ScanLocals
    BY DEF PipelineInvariant, TypeOK
  <1>1. /\ UNCHANGED <<updatedAt, reviewedAt, fields, patch, scanItems, scanState, startedAt>>
        /\ \A d \in Claims \ {c} : scan'[d] = scan[d]
        /\ scan[c].pc = "begin" /\ clock' = clock + 1
        /\ scan'[c] = [scan[c] EXCEPT !.pc = "locking", !.ts = clock + 1]
    BY <1>0 DEF ApplyBegin, reviewVars, itemVars, claimVars
  <1>2. /\ scan'[c].ts = clock + 1 /\ scan'[c].before = scan[c].before
        /\ scan'[c].matched = scan[c].matched /\ scan'[c].result = scan[c].result
    BY <1>0, <1>1 DEF ScanLocals
  <1>3. StampsArePast' /\ EditStampsFresh' /\ EditsRequested'
    BY <1>1, <1>2, ClockStep
  <1>4. ComparedRowStands'
    <2> SUFFICES ASSUME NEW d \in Claims, scan'[d].pc \in Compared, Live(d)',
                        scan'[d].before.updatedAt = updatedAt'[d[1]]
                 PROVE  /\ scan'[d].matched <=>
                               (Reviewed(d[1])' => Matches(fields'[d[1]], scan'[d].result))
                        /\ scan'[d].pc \in Writing => reviewedAt'[d[1]] < scan'[d].ts
      BY DEF ComparedRowStands
    <2>1. (Reviewed(d[1])' <=> Reviewed(d[1])) /\ Live(d)
      BY <1>1 DEF Reviewed, Live
    <2>2. CASE d = c
      <3>1. reviewedAt[d[1]] < clock + 1
        BY DEF StampInvariant, StampsArePast
      <3> QED
        BY <1>1, <1>2, <2>1, <2>2, <3>1 DEF StampInvariant, ComparedRowStands, Compared
    <2>3. CASE d # c
      BY <1>1, <2>1, <2>3 DEF StampInvariant, ComparedRowStands
    <2> QED
      BY <2>2, <2>3
  <1>5. ScanItemsOnce'
    BY <1>1 DEF StampInvariant, ScanItemsOnce
  <1> QED
    BY <1>3, <1>4, <1>5 DEF StampInvariant

(* A write ends the claim, so it stamps a row that no other live scan is of. *)
LEMMA WriteStampStep ==
    ASSUME PipelineInvariant, StampInvariant, NEW c \in Claims,
           WriteVerify(c) \/ WriteExtraction(c)
    PROVE  StampInvariant'
  <1> USE StampTypes
  <1> DEFINE r == c[1]
             ts == scan[c].ts
  <1>0. Complete(c)
    BY DEF WriteVerify, WriteExtraction
  <1>1. /\ UNCHANGED <<clock, patch>> /\ r \in Receipts /\ scanState'[r] = "idle"
        /\ scan'[c] = NoScan /\ \A d \in Claims \ {c} : scan'[d] = scan[d]
        /\ updatedAt'[r] = ts
        /\ \A q \in Receipts \ {r} : updatedAt'[q] = updatedAt[q]
        /\ \A d \in Claims : Live(d)' => Live(d)
    BY <1>0, CompleteFacts DEF Complete, timeVars, PipelineInvariant, TypeOK
  <1>2. /\ reviewedAt'[r] \in {reviewedAt[r], ts} /\ scanItems'[r] \in {1, scanItems[r]}
        /\ \A q \in Receipts \ {r} : /\ fields'[q] = fields[q] /\ reviewedAt'[q] = reviewedAt[q]
                                     /\ scanItems'[q] = scanItems[q]
    BY <1>1 DEF WriteVerify, WriteExtraction, Restamp, PipelineInvariant, TypeOK
  <1>3. ts <= clock /\ \A e \in Editors : patch[e] # NoPatch => patch[e].ts # ts
    BY DEF StampInvariant, StampsArePast, EditStampsFresh
  <1> HIDE DEF r, ts
  <1>4. StampsArePast' /\ EditStampsFresh' /\ EditsRequested'
    BY <1>1, <1>2, <1>3 DEF StampInvariant, StampsArePast, EditStampsFresh, EditsRequested
  <1>5. ComparedRowStands'
    <2> SUFFICES ASSUME NEW d \in Claims, scan'[d].pc \in Compared, Live(d)',
                        scan'[d].before.updatedAt = updatedAt'[d[1]]
                 PROVE  /\ scan'[d].matched <=>
                               (Reviewed(d[1])' => Matches(fields'[d[1]], scan'[d].result))
                        /\ scan'[d].pc \in Writing => reviewedAt'[d[1]] < scan'[d].ts
      BY DEF ComparedRowStands
    <2>1. d[1] # r /\ d # c /\ Live(d)
      BY <1>1 DEF Live, r
    <2>2. Reviewed(d[1])' <=> Reviewed(d[1])
      BY <1>2, <2>1 DEF Reviewed
    <2> QED
      BY <1>1, <1>2, <2>1, <2>2 DEF StampInvariant, ComparedRowStands
  <1>6. ScanItemsOnce'
    BY <1>1, <1>2 DEF StampInvariant, ScanItemsOnce
  <1> QED
    BY <1>4, <1>5, <1>6 DEF StampInvariant

LEMMA CrashStampStep ==
    ASSUME PipelineInvariant, StampInvariant, Crash
    PROVE  StampInvariant'
  <1>1. /\ UNCHANGED <<updatedAt, reviewedAt, fields, clock, scanItems>>
        /\ \A e \in Editors : patch'[e] = NoPatch
        /\ \A c \in Claims : scan'[c] = NoScan
    BY DEF Crash, reviewVars, timeVars
  <1>2. \A c \in Claims : CarriesOn(c)
    BY <1>1, StampTypes DEF CarriesOn, ComparesNothing, Compared
  <1>3. ScanItemsOnce'
    BY <1>1 DEF StampInvariant, ScanItemsOnce
  <1> QED
    BY <1>1, <1>2, <1>3, NoStampStep

LEMMA StampNext ==
    PipelineInvariant /\ StampInvariant /\ [Next]_vars => StampInvariant'
  <1> SUFFICES ASSUME PipelineInvariant, StampInvariant, [Next]_vars
               PROVE  StampInvariant'
    OBVIOUS
  <1>1. ASSUME NEW r \in Receipts, ReceiptRequest(r) \/ Expire(r)
        PROVE  StampInvariant'
    BY <1>1, RequestStampStep, QuietRequestStep DEF ReceiptRequest
  <1>2. ASSUME NEW c \in Claims, ScanStep(c) \/ CommitLost(c) \/ RecordFailureLost(c)
        PROVE  StampInvariant'
    BY <1>2, ScanMoveStampStep, ApplyReadStampStep, ApplyBeginStampStep, WriteStampStep
       DEF ScanStep
  <1>3. CASE UNCHANGED vars
    <2>1. UNCHANGED <<updatedAt, reviewedAt, fields, clock, patch, scan, scanState, startedAt, scanItems>>
      BY <1>3 DEF vars, claimVars, reviewVars, itemVars, timeVars
    <2>2. ScanItemsOnce' /\ \A c \in Claims : Live(c)' => Live(c)
      BY <2>1 DEF StampInvariant, ScanItemsOnce, Live
    <2> QED
      BY <2>1, <2>2, ScansStandStill
  <1> QED
    BY <1>1, <1>2, <1>3, PatchStampStep, TickStampStep, CrashStampStep DEF Next, FaultStep

LEMMA StampInit == Init => StampInvariant
  <1> SUFFICES ASSUME Init  PROVE StampInvariant
    OBVIOUS
  <1>1. PipelineInvariant
    BY InitInvariant
  <1> QED
    BY <1>1, StampTypes DEF Init, StampInvariant, StampsArePast, EditStampsFresh,
       ComparedRowStands, ScanItemsOnce, EditsRequested, Live

(* Stamps identify writes, in every interleaving of edits, scans and       *)
(* faults: the time of an edit under way is on no row and in no snapshot,  *)
(* so a row whose updated_at applyResult() finds again under the lock is   *)
(* the row it compared.                                                    *)
THEOREM StampsCorrect == Spec => [](PipelineInvariant /\ StampInvariant)
  BY InitInvariant, NextInvariant, StampInit, StampNext, PTL DEF Spec


-----------------------------------------------------------------------------
(* What the stamps give: the verdict of a scan, the items of a reviewed    *)
(* receipt, and the ways out of the stats.                                 *)

LEMMA ReviewedWrites ==
    ASSUME PipelineInvariant, StampInvariant, [Next]_vars,
           NEW r \in Receipts, ScanCompletes(r), Reviewed(r)
    PROVE  \E c \in Claims :
               /\ c[1] = r /\ WriteVerify(c)
               /\ scan[c].matched <=> Matches(fields[r], scan[c].result)
               /\ reviewedAt[r] < scan[c].ts
  <1>1. PICK c \in Claims : c[1] = r /\ (WriteVerify(c) \/ WriteExtraction(c))
    BY OnlyWritesComplete
  <1>2. WriteVerify(c)
    BY <1>1 DEF WriteExtraction, VerifyMode
  <1>3. Complete(c)
    BY <1>2 DEF WriteVerify
  <1>4. scan[c].pc \in Writing /\ scan[c].pc \in Compared /\ Live(c)
    BY <1>3 DEF Complete, LockedRow, Locking, Writing, Compared
  <1>5. scan[c].before.updatedAt = updatedAt[r]
    BY <1>1, <1>3 DEF Complete, Unchanged
  <1> QED
    BY <1>1, <1>2, <1>4, <1>5 DEF StampInvariant, ComparedRowStands

LEMMA VerdictStep ==
    ASSUME PipelineInvariant, StampInvariant, [Next]_vars,
           NEW r \in Receipts, ScanCompletes(r), Reviewed(r)
    PROVE  Confirmed(r)' <=> Matches(fields[r], raw'[r].result)
  <1>1. PICK c \in Claims :
            /\ c[1] = r /\ WriteVerify(c)
            /\ scan[c].matched <=> Matches(fields[r], scan[c].result)
            /\ reviewedAt[r] < scan[c].ts
    BY ReviewedWrites
  <1>2. /\ reviewedAt \in [Receipts -> Nat] /\ proposedAt \in [Receipts -> Nat]
        /\ raw \in [Receipts -> [imgs : 0..MaxImages, result : Results \cup {NoResult}]]
    BY DEF PipelineInvariant, TypeOK
  <1>3. scan[c].ts \in Nat /\ scan[c].ts # 0
    BY <1>1, CompleteFacts DEF WriteVerify
  <1>4. /\ reviewedAt'[r] = IF scan[c].matched THEN scan[c].ts ELSE reviewedAt[r]
        /\ proposedAt'[r] = scan[c].ts
        /\ raw'[r].result = scan[c].result
    BY <1>1, <1>2 DEF WriteVerify, Complete, Restamp
  <1>5. CASE scan[c].matched
    BY <1>1, <1>3, <1>4, <1>5 DEF Confirmed
  <1>6. CASE ~scan[c].matched
    BY <1>1, <1>2, <1>3, <1>4, <1>6 DEF Confirmed
  <1> QED
    BY <1>5, <1>6

(* The verdict of a scan is about the row it is written to, whatever edits *)
(* ran between the comparison and the lock: after the write a reviewed row *)
(* is confirmed exactly if it matches the stored result (applyResult,      *)
(* writeVerify).                                                           *)
THEOREM VerdictSound == Spec => VerdictMatchesEvidence
  <1>1. ASSUME PipelineInvariant, StampInvariant, [Next]_vars
        PROVE  \A r \in Receipts : ScanCompletes(r) /\ Reviewed(r) =>
                   (Confirmed(r)' <=> Matches(fields[r], raw'[r].result))
    BY <1>1, VerdictStep
  <1> QED
    BY <1>1, StampsCorrect, PTL DEF Spec, VerdictMatchesEvidence

(* The steps that write proposed_at or reviewed_at. *)
LEMMA ReviewWriters ==
    ASSUME [Next]_vars
    PROVE  \/ UNCHANGED <<proposedAt, reviewedAt>>
           \/ \E q \in Receipts : CreateManual(q)
           \/ \E e \in Editors : PatchCommit(e)
           \/ \E c \in Claims : WriteVerify(c) \/ WriteExtraction(c)
  <1>1. ASSUME NEW q \in Receipts, ReceiptRequest(q) \/ Expire(q)
        PROVE  CreateManual(q) \/ UNCHANGED <<proposedAt, reviewedAt>>
    BY <1>1 DEF ReceiptRequest, Upload, AddImages, RetryScan, DeleteReceipt, ItemInsert,
       ItemCommit, ItemRollback, ItemDelete, Expire, reviewVars
  <1>2. ASSUME NEW e \in Editors, PatchStep(e)
        PROVE  PatchCommit(e) \/ UNCHANGED <<proposedAt, reviewedAt>>
    BY <1>2 DEF PatchStep, PatchBegin, PatchAbort, reviewVars
  <1>3. ASSUME NEW t \in Ticks, TickStep(t) \/ TickClaimLost(t) \/ TickError(t)
        PROVE  UNCHANGED <<proposedAt, reviewedAt>>
    BY <1>3 DEF TickStep, TickReclaim, TickSnapshot, TickClaim, TickClaimLost, TickError,
       ClaimRows, reviewVars
  <1>4. ASSUME NEW c \in Claims, ScanStep(c) \/ CommitLost(c) \/ RecordFailureLost(c)
        PROVE  WriteVerify(c) \/ WriteExtraction(c) \/ UNCHANGED <<proposedAt, reviewedAt>>
    BY <1>4 DEF ScanStep, ScanSnapshot, ListImages, ProviderReply, ProviderScanError, InfraError,
       ApplyRead, ApplyBegin, ApplyWait, ApplyStale, ApplyChanged, RecordFailure, CommitLost,
       RecordFailureLost, ScanMoves, reviewVars
  <1>5. CASE Crash \/ UNCHANGED vars
    BY <1>5 DEF Crash, vars, reviewVars
  <1> QED
    BY <1>1, <1>2, <1>3, <1>4, <1>5 DEF Next, FaultStep

(* An id not in use yet has no review. *)
UnusedUnreviewed == \A r \in Receipts : scanState[r] = "none" => ~Reviewed(r)

(* No step frees an id. *)
LEMMA IdsStayUsed ==
    ASSUME PipelineInvariant, [Next]_vars, NEW r \in Receipts, scanState'[r] = "none"
    PROVE  scanState[r] = "none"
  <1>0. scanState \in [Receipts -> ScanStates \cup {"none", "deleted"}]
    BY DEF PipelineInvariant, TypeOK
  <1>1. ASSUME NEW q \in Receipts, ReceiptRequest(q) \/ Expire(q)
        PROVE  scanState[r] = "none"
    BY <1>0, <1>1 DEF ReceiptRequest, Upload, CreateManual, AddImages, RetryScan, DeleteReceipt,
       ItemInsert, ItemCommit, ItemRollback, ItemDelete, Expire, claimVars
  <1>2. ASSUME NEW e \in Editors, PatchStep(e)
        PROVE  scanState[r] = "none"
    BY <1>2 DEF PatchStep, PatchBegin, PatchCommit, PatchAbort, claimVars
  <1>3. ASSUME NEW t \in Ticks, TickStep(t) \/ TickClaimLost(t) \/ TickError(t)
        PROVE  scanState[r] = "none"
    BY <1>0, <1>3 DEF TickStep, TickReclaim, TickSnapshot, TickClaim, TickClaimLost, TickError,
       ClaimRows, AfterFailure, claimVars
  <1>4. ASSUME NEW c \in Claims, ScanStep(c) \/ CommitLost(c) \/ RecordFailureLost(c)
        PROVE  scanState[r] = "none"
    <2>1. CASE WriteVerify(c) \/ WriteExtraction(c)
      BY <1>0, <2>1, ClaimParts DEF WriteVerify, WriteExtraction, Complete
    <2>2. CASE RecordFailure(c)
      BY <1>0, <2>2, ClaimParts DEF RecordFailure, AfterFailure, claimVars
    <2>3. CASE UNCHANGED claimVars
      BY <2>3 DEF claimVars
    <2> QED
      BY <1>4, <2>1, <2>2, <2>3 DEF ScanStep, ScanSnapshot, ListImages, ProviderReply,
         ProviderScanError, InfraError, ApplyRead, ApplyBegin, ApplyWait, ApplyStale, ApplyChanged,
         CommitLost, RecordFailureLost, ScanMoves
  <1>5. CASE Crash \/ UNCHANGED vars
    BY <1>5 DEF Crash, vars, claimVars
  <1> QED
    BY <1>1, <1>2, <1>3, <1>4, <1>5 DEF Next, FaultStep

LEMMA UnusedStep ==
    ASSUME PipelineInvariant, UnusedUnreviewed, [Next]_vars
    PROVE  UnusedUnreviewed'
  <1> SUFFICES ASSUME NEW r \in Receipts, scanState'[r] = "none"
               PROVE  reviewedAt'[r] = 0
    BY DEF UnusedUnreviewed, Reviewed
  <1>1. scanState[r] = "none" /\ reviewedAt[r] = 0 /\ reviewedAt \in [Receipts -> Nat]
    BY IdsStayUsed DEF UnusedUnreviewed, Reviewed, PipelineInvariant, TypeOK
  <1>2. ASSUME NEW q \in Receipts, CreateManual(q)
        PROVE  reviewedAt'[r] = 0
    BY <1>1, <1>2 DEF CreateManual, PipelineInvariant, TypeOK
  <1>3. ASSUME NEW e \in Editors, PatchCommit(e)
        PROVE  reviewedAt'[r] = 0
    BY <1>1, <1>3 DEF PatchCommit, Exists, ScanStates
  <1>4. ASSUME NEW c \in Claims, WriteVerify(c) \/ WriteExtraction(c)
        PROVE  reviewedAt'[r] = 0
    <2>1. c[1] # r
      BY <1>1, <1>4 DEF WriteVerify, WriteExtraction, Complete, LockedRow, Live
    <2> QED
      BY <1>1, <1>4, <2>1 DEF WriteVerify, WriteExtraction
  <1> QED
    BY <1>1, <1>2, <1>3, <1>4, ReviewWriters

LEMMA UnusedNeverReviewed == Spec => []UnusedUnreviewed
  <1>1. Init => UnusedUnreviewed
    BY DEF Init, UnusedUnreviewed, Reviewed
  <1> QED
    BY <1>1, UnusedStep, PipelineCorrect, PTL DEF Spec

(* The items of a reviewed row, in a step that is no removal by the user. *)
LEMMA ItemsStep ==
    ASSUME PipelineInvariant, StampInvariant, UnusedUnreviewed, [Next]_vars,
           NEW r \in Receipts, Reviewed(r), userOps' = userOps
    PROVE  userItems[r] <= userItems'[r] /\ scanItems[r] <= scanItems'[r]
  <1>0. /\ userItems \in [Receipts -> Nat] /\ scanItems \in [Receipts -> Nat]
        /\ scanItems[r] <= 1 /\ userOps \in Nat
    BY DEF PipelineInvariant, TypeOK, StampInvariant, ScanItemsOnce
  <1>1. ASSUME NEW q \in Receipts, ReceiptRequest(q) \/ Expire(q)
        PROVE  userItems[r] <= userItems'[r] /\ scanItems[r] <= scanItems'[r]
    <2>1. ~UserRequest("delete", q) /\ ~UserRequest("item_delete", q)
      BY <1>0 DEF UserRequest
    <2>2. CASE CreateManual(q)
      BY <1>0, <2>2 DEF CreateManual, NextId, UnusedUnreviewed
    <2>3. CASE ItemCommit(q)
      BY <1>0, <2>3 DEF ItemCommit
    <2> QED
      BY <1>0, <1>1, <2>1, <2>2, <2>3 DEF ReceiptRequest, Upload, AddImages, RetryScan,
         DeleteReceipt, ItemInsert, ItemRollback, ItemDelete, Expire, itemVars
  <1>2. ASSUME NEW e \in Editors, PatchStep(e)
        PROVE  userItems[r] <= userItems'[r] /\ scanItems[r] <= scanItems'[r]
    BY <1>0, <1>2 DEF PatchStep, PatchBegin, PatchCommit, PatchAbort, itemVars
  <1>3. ASSUME NEW t \in Ticks, TickStep(t) \/ TickClaimLost(t) \/ TickError(t)
        PROVE  userItems[r] <= userItems'[r] /\ scanItems[r] <= scanItems'[r]
    BY <1>0, <1>3 DEF TickStep, TickReclaim, TickSnapshot, TickClaim, TickClaimLost, TickError,
       ClaimRows, itemVars
  <1>4. ASSUME NEW c \in Claims, ScanStep(c) \/ CommitLost(c) \/ RecordFailureLost(c)
        PROVE  userItems[r] <= userItems'[r] /\ scanItems[r] <= scanItems'[r]
    <2>1. CASE WriteVerify(c)
      BY <1>0, <2>1 DEF WriteVerify
    <2>2. CASE WriteExtraction(c)
      <3>1. c[1] # r
        BY <2>2 DEF WriteExtraction, VerifyMode
      <3> QED
        BY <1>0, <2>2, <3>1 DEF WriteExtraction
    <2>3. CASE UNCHANGED itemVars
      BY <1>0, <2>3 DEF itemVars
    <2> QED
      BY <1>4, <2>1, <2>2, <2>3 DEF ScanStep, ScanSnapshot, ListImages, ProviderReply,
         ProviderScanError, InfraError, ApplyRead, ApplyBegin, ApplyWait, ApplyStale, ApplyChanged,
         RecordFailure, CommitLost, RecordFailureLost, ScanMoves
  <1>5. CASE Crash \/ UNCHANGED vars
    BY <1>0, <1>5 DEF Crash, vars, itemVars
  <1> QED
    BY <1>1, <1>2, <1>3, <1>4, <1>5 DEF Next, FaultStep

(* No scan takes an item off a reviewed receipt, whenever it was claimed   *)
(* and however long it waited: neither the user's items nor those of an    *)
(* earlier scan become fewer without a user's request (the DELETE of       *)
(* writeExtraction runs on unreviewed rows alone).                         *)
THEOREM ReviewedItemsSafe == Spec => ReviewedItemsKept
  <1>1. ASSUME PipelineInvariant, StampInvariant, UnusedUnreviewed, [Next]_vars
        PROVE  \A r \in Receipts :
                   Reviewed(r) /\ (userItems'[r] < userItems[r] \/ scanItems'[r] < scanItems[r]) =>
                       userOps' # userOps
    <2> SUFFICES ASSUME NEW r \in Receipts, Reviewed(r), userOps' = userOps
                 PROVE  ~(userItems'[r] < userItems[r] \/ scanItems'[r] < scanItems[r])
      OBVIOUS
    <2>1. userItems[r] <= userItems'[r] /\ scanItems[r] <= scanItems'[r]
      BY <1>1, ItemsStep
    <2>2. /\ userItems[r] \in Nat /\ scanItems[r] \in Nat
          /\ userItems'[r] \in Nat /\ scanItems'[r] \in Nat
      BY <1>1, NextInvariant DEF PipelineInvariant, TypeOK
    <2> QED
      BY <2>1, <2>2
  <1> QED
    BY <1>1, StampsCorrect, UnusedNeverReviewed, PTL DEF Spec, ReviewedItemsKept

LEMMA LeavesStatsStep ==
    ASSUME PipelineInvariant, StampInvariant, [Next]_vars, NEW r \in Receipts,
           Confirmed(r), Exists(r), Exists(r)', ~Confirmed(r)'
    PROVE  \/ ScanCompletes(r) /\ ~Matches(fields[r], raw'[r].result)
           \/ \E e \in Editors :
                  PatchCommit(e) /\ patch[e].r = r /\ patch[e].ts < proposedAt[r]
  <1>0. /\ reviewedAt \in [Receipts -> Nat] /\ proposedAt \in [Receipts -> Nat]
        /\ ~(reviewedAt'[r] = reviewedAt[r] /\ proposedAt'[r] = proposedAt[r])
    BY DEF PipelineInvariant, TypeOK, Confirmed
  <1>1. ASSUME NEW q \in Receipts, CreateManual(q)
        PROVE  FALSE
    <2>1. q # r
      BY <1>1 DEF CreateManual, NextId, Exists, ScanStates
    <2> QED
      BY <1>0, <1>1, <2>1 DEF CreateManual
  <1>2. ASSUME NEW e \in Editors, PatchCommit(e)
        PROVE  patch[e].r = r /\ patch[e].ts < proposedAt[r]
    <2>0. patch[e] # NoPatch /\ patch[e].ts \in Nat \ {0} /\ proposedAt' = proposedAt
      BY <1>2 DEF PatchCommit, PipelineInvariant, TypeOK
    <2>1. patch[e].r = r
      BY <1>0, <1>2, <2>0 DEF PatchCommit
    <2>2. reviewedAt'[r] = patch[e].ts
      BY <1>0, <1>2, <2>0, <2>1 DEF PatchCommit
    <2> QED
      BY <1>0, <2>0, <2>1, <2>2 DEF Confirmed
  <1>3. ASSUME NEW c \in Claims, WriteVerify(c) \/ WriteExtraction(c)
        PROVE  ScanCompletes(r) /\ ~Matches(fields[r], raw'[r].result)
    <2>1. Complete(c)
      BY <1>3 DEF WriteVerify, WriteExtraction
    <2>2. c[1] = r
      BY <1>0, <1>3, <2>1 DEF WriteVerify, WriteExtraction, Complete
    <2>3. ScanCompletes(r)
      BY <2>1, <2>2 DEF Complete, LockedRow, Live, ScanCompletes, PipelineInvariant, TypeOK
    <2>4. Reviewed(r)
      BY DEF Confirmed, Reviewed
    <2> QED
      BY <2>3, <2>4, VerdictStep
  <1> QED
    BY <1>0, <1>1, <1>2, <1>3, ReviewWriters

(* The two ways a confirmed receipt leaves the stats, and there is no      *)
(* other: a completed scan that finds a mismatch (writeVerify), or an edit *)
(* whose transaction began before the last proposal and commits its older  *)
(* now() as reviewed_at (updateReceipt).                                   *)
THEOREM StatsLeft == Spec => LeavesStatsOnMismatchOrOldEdit
  <1>1. ASSUME PipelineInvariant, StampInvariant, [Next]_vars
        PROVE  \A r \in Receipts : Confirmed(r) /\ Exists(r) /\ Exists(r)' /\ ~Confirmed(r)' =>
                   \/ ScanCompletes(r) /\ ~Matches(fields[r], raw'[r].result)
                   \/ \E e \in Editors :
                          PatchCommit(e) /\ patch[e].r = r /\ patch[e].ts < proposedAt[r]
    BY <1>1, LeavesStatsStep
  <1> QED
    BY <1>1, StampsCorrect, PTL DEF Spec, LeavesStatsOnMismatchOrOldEdit

(* spec.md's claim holds of every system without edits: a confirmed        *)
(* receipt leaves the stats only when a completed scan finds a mismatch,   *)
(* so no attach, retry, failure, reclaim, lost call or crash takes it out. *)
THEOREM StatsLeftWithoutEdits ==
    ASSUME "patch" \notin Requests
    PROVE  Spec => LeavesStatsOnlyOnMismatch
  <1>1. ASSUME PipelineInvariant, StampInvariant, [Next]_vars
        PROVE  \A r \in Receipts : Confirmed(r) /\ Exists(r) /\ Exists(r)' /\ ~Confirmed(r)' =>
                   ScanCompletes(r) /\ ~Matches(fields[r], raw'[r].result)
    <2>1. \A e \in Editors : ~PatchCommit(e)
      BY <1>1 DEF PatchCommit, StampInvariant, EditsRequested
    <2> QED
      BY <1>1, <2>1, LeavesStatsStep
  <1> QED
    BY <1>1, StampsCorrect, PTL DEF Spec, LeavesStatsOnlyOnMismatch

=============================================================================
