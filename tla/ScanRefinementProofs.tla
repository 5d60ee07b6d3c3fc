----------------------- MODULE ScanRefinementProofs -----------------------
(***************************************************************************)
(* Every step of ScanWorker is a step of ReceiptScan, or leaves what the   *)
(* user sees unchanged.                                                    *)
(***************************************************************************)
EXTENDS ScanRefinement, ScanWorkerProofs

(* The phase of a row, case by case. *)
LEMMA PhaseFacts ==
    ASSUME PipelineInvariant, NEW r \in Receipts
    PROVE  /\ scanState[r] = "none" <=> Phase[r] = "none"
           /\ scanState[r] \in {"uploaded", "scanning"} <=> Phase[r] = "waiting"
           /\ scanState[r] = "idle" <=> Phase[r] = "resting"
           /\ scanState[r] = "scan_failed" <=> Phase[r] = "failed"
           /\ scanState[r] = "deleted" <=> Phase[r] = "deleted"
           /\ Exists(r) <=> Promise!There(r)
  <1>1. scanState[r] \in ScanStates \cup {"none", "deleted"}
    BY DEF PipelineInvariant, TypeOK
  <1>2. Phase[r] = PhaseOf(scanState[r])
    BY DEF Phase
  <1> QED
    BY <1>1, <1>2 DEF PhaseOf, Exists, ScanStates, Promise!There

(* One row changes its state: so does its phase, and no other. *)
LEMMA PhaseMoves ==
    ASSUME PipelineInvariant, NEW r \in Receipts, NEW state,
           scanState' = [scanState EXCEPT ![r] = state]
    PROVE  Phase' = [Phase EXCEPT ![r] = PhaseOf(state)]
  BY DEF PipelineInvariant, TypeOK, Phase, PhaseOf

(* The columns a request does not write are not seen to change. *)
LEMMA SeenKept == ASSUME UNCHANGED raw PROVE UNCHANGED Seen
  BY DEF Seen

LEMMA VouchedKept == ASSUME UNCHANGED reviewedAt PROVE UNCHANGED Vouched
  BY DEF Vouched, Reviewed

(* A step that changes no phase and no column the user sees. *)
LEMMA Unseen ==
    ASSUME UNCHANGED <<images, raw, fields, reviewedAt>>, UNCHANGED Phase
    PROVE  UNCHANGED Promise!vars
  BY SeenKept, VouchedKept DEF Promise!vars

LEMMA InitRefines == Init => Promise!Init
  <1> SUFFICES ASSUME Init PROVE Promise!Init
    OBVIOUS
  <1>1. Phase = [r \in Receipts |-> "none"]
    BY DEF Init, Phase, PhaseOf
  <1>2. Seen = [r \in Receipts |-> 0]
    BY DEF Init, Seen, NoRaw
  <1>3. Vouched = [r \in Receipts |-> FALSE]
    BY DEF Init, Vouched, Reviewed
  <1> QED
    BY <1>1, <1>2, <1>3 DEF Init, Promise!Init

LEMMA UploadRefines ==
    ASSUME PipelineInvariant, NEW r \in Receipts, Upload(r)
    PROVE  Promise!Upload(r)
  <1> USE DEF Upload
  <1>1. Phase[r] = "none"
    BY PhaseFacts DEF NextId
  <1>2. Phase' = [Phase EXCEPT ![r] = "waiting"]
    BY PhaseMoves DEF PhaseOf
  <1>3. UNCHANGED <<Seen, Vouched>>
    BY SeenKept, VouchedKept
  <1> QED
    BY <1>1, <1>2, <1>3 DEF Promise!Upload

LEMMA CreateManualRefines ==
    ASSUME PipelineInvariant, NEW r \in Receipts, CreateManual(r)
    PROVE  Promise!Enter(r)
  <1> USE DEF CreateManual
  <1>1. Phase[r] = "none"
    BY PhaseFacts DEF NextId
  <1>2. Phase' = [Phase EXCEPT ![r] = "resting"]
    BY PhaseMoves DEF PhaseOf
  <1>3. Vouched' = [Vouched EXCEPT ![r] = TRUE]
    <2>1. clock + 1 # 0
      BY DEF PipelineInvariant, TypeOK
    <2> QED
      BY <2>1 DEF PipelineInvariant, TypeOK, Vouched, Reviewed
  <1>4. UNCHANGED <<images, Seen>>
    BY SeenKept DEF evidenceVars
  <1> QED
    BY <1>1, <1>2, <1>3, <1>4 DEF Promise!Enter

LEMMA AddImagesRefines ==
    ASSUME PipelineInvariant, NEW r \in Receipts, AddImages(r)
    PROVE  Promise!Attach(r)
  <1> USE DEF AddImages, UserRequest, FitsCap
  <1>1. Promise!There(r)
    BY PhaseFacts
  <1>2. Phase' = [Phase EXCEPT ![r] = "waiting"]
    BY PhaseMoves DEF PhaseOf
  <1>3. UNCHANGED <<Seen, fields, Vouched>>
    BY SeenKept, VouchedKept DEF reviewVars
  <1> QED
    BY <1>1, <1>2, <1>3 DEF Promise!Attach

LEMMA RetryScanRefines ==
    ASSUME PipelineInvariant, NEW r \in Receipts, RetryScan(r)
    PROVE  Promise!Retry(r)
  <1> USE DEF RetryScan
  <1>1. Phase[r] = "failed"
    BY PhaseFacts
  <1>2. Phase' = [Phase EXCEPT ![r] = "waiting"]
    BY PhaseMoves DEF PhaseOf
  <1>3. UNCHANGED <<images, Seen, fields, Vouched>>
    BY SeenKept, VouchedKept DEF evidenceVars
  <1> QED
    BY <1>1, <1>2, <1>3 DEF Promise!Retry

LEMMA DeleteReceiptRefines ==
    ASSUME PipelineInvariant, NEW r \in Receipts, DeleteReceipt(r)
    PROVE  Promise!Delete(r)
  <1> USE DEF DeleteReceipt, UserRequest
  <1>1. Promise!There(r)
    BY PhaseFacts
  <1>2. Phase' = [Phase EXCEPT ![r] = "deleted"]
    BY PhaseMoves DEF PhaseOf
  <1>3. Seen' = [Seen EXCEPT ![r] = 0]
    BY DEF PipelineInvariant, TypeOK, Seen, NoRaw
  <1>4. UNCHANGED <<fields, Vouched>>
    BY VouchedKept DEF reviewVars
  <1> QED
    BY <1>1, <1>2, <1>3, <1>4 DEF Promise!Delete

(* The timestamp of a PATCH is never zero, so "reviewed": true sticks. *)
LEMMA PatchCommitRefines ==
    ASSUME PipelineInvariant, NEW e \in Editors, PatchCommit(e)
    PROVE  \E r \in Receipts : Promise!Edit(r)
  <1> DEFINE r == patch[e].r
  <1> USE DEF PatchCommit
  <1>1. r \in Receipts /\ patch[e].ts \in Nat \ {0}
    BY DEF PipelineInvariant, TypeOK
  <1>2. Promise!There(r)
    BY <1>1, PhaseFacts
  <1>3. \E row \in Entries : fields' = [fields EXCEPT ![r] = row]
    OBVIOUS
  <1>4. \/ Vouched' = [Vouched EXCEPT ![r] = TRUE]
        \/ UNCHANGED Vouched
    <2>1. PICK markReviewed \in BOOLEAN :
              reviewedAt' = [reviewedAt EXCEPT ![r] = IF markReviewed THEN patch[e].ts ELSE @]
      OBVIOUS
    <2>2. CASE markReviewed
      BY <1>1, <2>1, <2>2 DEF PipelineInvariant, TypeOK, Vouched, Reviewed
    <2>3. CASE ~markReviewed
      BY <1>1, <2>1, <2>3 DEF PipelineInvariant, TypeOK, Vouched, Reviewed
    <2> QED
      BY <2>2, <2>3
  <1>5. UNCHANGED <<Phase, images, Seen>>
    BY SeenKept DEF claimVars, evidenceVars, Phase
  <1> HIDE DEF r
  <1>6. Promise!Edit(r)
    BY <1>2, <1>3, <1>4, <1>5 DEF Promise!Edit
  <1> QED
    BY <1>1, <1>6

(* A scan that writes: the row is reviewed or its result was checked, it   *)
(* read every image, and a reviewed row stays reviewed.                    *)
LEMMA CompleteRefines ==
    ASSUME PipelineInvariant, NEW c \in Claims, Complete(c)
    PROVE  /\ Phase[c[1]] = "waiting"
           /\ images[c[1]] > 0
           /\ Phase' = [Phase EXCEPT ![c[1]] = "resting"]
           /\ Seen' = [Seen EXCEPT ![c[1]] = images[c[1]]]
           /\ UNCHANGED images
           /\ scan[c].pc \in Applying
           /\ scan[c].ts # 0
  <1> DEFINE r == c[1]
  <1> USE DEF Complete
  <1>1. r \in Receipts
    BY ClaimParts
  <1>2. Live(c) /\ scan[c].pc \in {"locking", "waiting"}
    BY DEF LockedRow, Locking
  <1>3. scanState[r] = "scanning"
    BY <1>2 DEF Live
  <1>4. Phase[r] = "waiting"
    BY <1>1, <1>3, PhaseFacts
  <1>5. images[r] > 0
    BY <1>1, <1>3 DEF PipelineInvariant, QueuedHasImages
  <1>6. Phase' = [Phase EXCEPT ![r] = "resting"]
    BY <1>1, PhaseMoves DEF PhaseOf
  <1>7. scan[c].imgs = images[r]
    BY <1>2 DEF PipelineInvariant, LiveScansReadAllImages, Reading
  <1>8. Seen' = [Seen EXCEPT ![r] = images[r]]
    BY <1>1, <1>7 DEF PipelineInvariant, TypeOK, Seen
  <1>9. scan[c].ts # 0
    BY <1>2 DEF PipelineInvariant, WritesAreStamped
  <1> QED
    BY <1>2, <1>4, <1>5, <1>6, <1>8, <1>9 DEF Applying

(* Scans only ever apply what a provider answered. *)
LEMMA ScanMovesReal ==
    ASSUME PipelineInvariant, ResultsAreReal, NEW c \in Claims, NEW locals,
           scan' = [scan EXCEPT ![c] = locals],
           locals.pc \in Applying => locals.result \in Results
    PROVE  ResultsAreReal'
  BY DEF ResultsAreReal, PipelineInvariant, TypeOK

LEMMA ScanStepReal ==
    ASSUME PipelineInvariant, ResultsAreReal, NEW c \in Claims, ScanStep(c)
    PROVE  ResultsAreReal'
  <1> USE ScanMovesReal DEF Applying
  <1>0. /\ NoScan.pc \notin Applying
        /\ \A error \in {"scan", "terminal", "infra"} : Failing(error).pc \notin Applying
    BY DEF NoScan, Failing
  <1>1. scan[c] \in ScanLocals
    BY DEF PipelineInvariant, TypeOK
  <1>2. CASE ScanSnapshot(c)
    BY <1>0, <1>1, <1>2 DEF ScanSnapshot, ScanMoves, ScanLocals
  <1>3. CASE ListImages(c)
    BY <1>0, <1>1, <1>3 DEF ListImages, ScanMoves, ScanLocals
  <1>4. ASSUME NEW result \in Results, ProviderReply(c, result)
        PROVE  ResultsAreReal'
    BY <1>1, <1>4 DEF ProviderReply, ScanMoves, ScanLocals
  <1>5. CASE ProviderScanError(c) \/ InfraError(c)
    BY <1>0, <1>5 DEF ProviderScanError, InfraError, ScanMoves
  <1>6. CASE ApplyRead(c)
    BY <1>0, <1>1, <1>6 DEF ApplyRead, ScanMoves, ScanLocals, ResultsAreReal
  <1>7. CASE ApplyBegin(c)
    BY <1>1, <1>7 DEF ApplyBegin, ScanLocals, ResultsAreReal, PipelineInvariant, TypeOK
  <1>8. CASE ApplyWait(c)
    BY <1>1, <1>8 DEF ApplyWait, ScanMoves, ScanLocals, ResultsAreReal
  <1>9. CASE ApplyStale(c)
    BY <1>0, <1>9 DEF ApplyStale, ScanMoves
  <1>10. CASE ApplyChanged(c)
    BY <1>0, <1>1, <1>10 DEF ApplyChanged, LockedRow, Locking, ScanMoves, NoScan, ResultsAreReal
  <1>11. CASE WriteVerify(c) \/ WriteExtraction(c)
    BY <1>0, <1>11 DEF WriteVerify, WriteExtraction, Complete
  <1>12. CASE RecordFailure(c)
    BY <1>0, <1>12 DEF RecordFailure
  <1> QED
    BY <1>2, <1>3, <1>4, <1>5, <1>6, <1>7, <1>8, <1>9, <1>10, <1>11, <1>12 DEF ScanStep

LEMMA ResultsReal == Spec => []ResultsAreReal
  <1>1. Init => ResultsAreReal
    BY DEF Init, ResultsAreReal, NoScan, Applying
  <1>2. PipelineInvariant /\ ResultsAreReal /\ [Next]_vars => ResultsAreReal'
    <2> SUFFICES ASSUME PipelineInvariant, ResultsAreReal, [Next]_vars PROVE ResultsAreReal'
      OBVIOUS
    <2>0. NoScan.pc \notin Applying
      BY DEF NoScan, Applying
    <2>1. ASSUME UNCHANGED scan PROVE ResultsAreReal'
      BY <2>1 DEF ResultsAreReal
    <2>2. ASSUME NEW r \in Receipts, ReceiptRequest(r) \/ Expire(r) PROVE ResultsAreReal'
      BY <2>1, <2>2 DEF ReceiptRequest, Upload, CreateManual, AddImages, RetryScan, DeleteReceipt,
         ItemInsert, ItemCommit, ItemRollback, ItemDelete, Expire
    <2>3. ASSUME NEW e \in Editors, PatchStep(e) PROVE ResultsAreReal'
      BY <2>1, <2>3 DEF PatchStep, PatchBegin, PatchCommit, PatchAbort
    <2>4. ASSUME NEW t \in Ticks, TickStep(t) PROVE ResultsAreReal'
      <3>1. CASE TickReclaim(t) \/ TickSnapshot(t)
        BY <2>1, <3>1 DEF TickReclaim, TickSnapshot
      <3>2. CASE TickClaim(t)
        BY <3>2, <2>0 DEF TickClaim, ResultsAreReal, NoScan, Applying
      <3> QED
        BY <2>4, <3>1, <3>2 DEF TickStep
    <2>5. ASSUME NEW c \in Claims, ScanStep(c) PROVE ResultsAreReal'
      BY <2>5, ScanStepReal
    <2>6. ASSUME FaultStep PROVE ResultsAreReal'
      <3>1. ASSUME NEW t \in Ticks, TickClaimLost(t) \/ TickError(t) PROVE ResultsAreReal'
        BY <2>1, <3>1 DEF TickClaimLost, TickError
      <3>2. ASSUME NEW c \in Claims, CommitLost(c) \/ RecordFailureLost(c) PROVE ResultsAreReal'
        BY <2>0, <3>2, ScanMovesReal DEF CommitLost, RecordFailureLost
      <3>3. CASE Crash
        BY <2>0, <3>3 DEF Crash, ResultsAreReal
      <3> QED
        BY <2>6, <3>1, <3>2, <3>3 DEF FaultStep
    <2>7. CASE UNCHANGED vars
      BY <2>1, <2>7 DEF vars
    <2> QED
      BY <2>2, <2>3, <2>4, <2>5, <2>6, <2>7 DEF Next
  <1> QED
    BY <1>1, <1>2, PipelineCorrect, PTL DEF Spec

(* A verify write fills what is empty; an extraction replaces the row by a *)
(* result whose kind was checked when the row was not reviewed, as it      *)
(* still is not.                                                           *)
LEMMA WriteVerifyRefines ==
    ASSUME PipelineInvariant, ResultsAreReal, NEW c \in Claims, WriteVerify(c)
    PROVE  Promise!Settle(c[1])
  <1> DEFINE r == c[1]
             result == scan[c].result
  <1>1. r \in Receipts
    BY ClaimParts
  <1>2. Complete(c) /\ Reviewed(r)
    BY DEF WriteVerify, VerifyMode
  <1>3. Vouched[r]
    BY <1>1, <1>2 DEF Vouched
  <1>4. result \in Results
    BY <1>2, CompleteRefines DEF ResultsAreReal
  <1>5. fields' = [fields EXCEPT ![r] = Promise!Fill(@, result)]
    <2>1. fields \in [Receipts -> Fields]
      BY DEF PipelineInvariant, TypeOK
    <2>2. fields' = [fields EXCEPT ![r].merchant = Coalesce(@, scan[c].result.merchant)]
      BY DEF WriteVerify
    <2> QED
      BY <1>1, <2>1, <2>2 DEF Promise!Fill, Coalesce, Fields
  <1>6. UNCHANGED Vouched
    <2>1. scan[c].ts # 0
      BY <1>2, CompleteRefines
    <2>2. reviewedAt' = [reviewedAt EXCEPT ![r] = Restamp(c)]
      BY DEF WriteVerify
    <2> QED
      BY <1>1, <1>2, <2>1, <2>2 DEF Restamp, Vouched, Reviewed, PipelineInvariant, TypeOK
  <1>7. /\ Phase[r] = "waiting"
        /\ images[r] > 0
        /\ Phase' = [Phase EXCEPT ![r] = "resting"]
        /\ Seen' = [Seen EXCEPT ![r] = images[r]]
        /\ UNCHANGED images
    BY <1>2, CompleteRefines
  <1> HIDE DEF r, result
  <1>8. \E res \in Results :
            fields' = [fields EXCEPT ![r] = IF Vouched[r] THEN Promise!Fill(@, res) ELSE res]
    BY <1>3, <1>4, <1>5
  <1>9. Promise!Settle(r)
    BY <1>3, <1>6, <1>7, <1>8 DEF Promise!Settle
  <1> QED
    BY <1>9 DEF r

LEMMA WriteExtractionRefines ==
    ASSUME PipelineInvariant, ResultsAreReal, NEW c \in Claims, WriteExtraction(c)
    PROVE  Promise!Settle(c[1])
  <1> DEFINE r == c[1]
             result == scan[c].result
  <1>1. r \in Receipts
    BY ClaimParts
  <1>2. Complete(c) /\ ~Reviewed(r)
    BY DEF WriteExtraction, VerifyMode
  <1>3. ~Vouched[r]
    BY <1>1, <1>2 DEF Vouched
  <1>4. scan[c].pc \in Applying
    BY <1>2, CompleteRefines
  <1>5. result \in Results
    BY <1>4 DEF ResultsAreReal
  <1>6. Scannable(result.kind)
    BY <1>2, <1>4 DEF PipelineInvariant, ResultKindChecked, VerifyingIsReviewed
  <1>7. fields' = [fields EXCEPT ![r] = result] /\ fields'[r] = result
    BY <1>1 DEF WriteExtraction, PipelineInvariant, TypeOK
  <1>8. UNCHANGED Vouched
    BY VouchedKept DEF WriteExtraction
  <1>9. /\ Phase[r] = "waiting"
        /\ images[r] > 0
        /\ Phase' = [Phase EXCEPT ![r] = "resting"]
        /\ Seen' = [Seen EXCEPT ![r] = images[r]]
        /\ UNCHANGED images
    BY <1>2, CompleteRefines
  <1> HIDE DEF r, result
  <1>10. \E res \in Results :
             fields' = [fields EXCEPT ![r] = IF Vouched[r] THEN Promise!Fill(@, res) ELSE res]
    BY <1>3, <1>5, <1>7
  <1>11. Promise!Settle(r)
    BY <1>6, <1>7, <1>8, <1>9, <1>10 DEF Promise!Settle
  <1> QED
    BY <1>11 DEF r

(* Reclaiming gives up the stuck receipts whose budget is spent, all in    *)
(* one UPDATE; the others go on waiting.                                   *)
LEMMA TickReclaimRefines ==
    ASSUME PipelineInvariant, NEW t \in Ticks, TickReclaim(t)
    PROVE  \E gone \in SUBSET Receipts : Promise!GiveUp(gone)
  <1> DEFINE gone == {r \in Receipts :
                        Stuck(r) /\ AfterFailure(reclaimCount[r], MaxReclaims) = "scan_failed"}
  <1>1. \A r \in gone : Phase[r] = "waiting"
    BY PhaseFacts DEF Stuck
  <1>2. Phase' = [r \in Receipts |-> IF r \in gone THEN "failed" ELSE Phase[r]]
    <2>1. ASSUME NEW r \in Receipts
          PROVE  PhaseOf(scanState'[r]) = IF r \in gone THEN "failed" ELSE PhaseOf(scanState[r])
      BY <2>1 DEF TickReclaim, AfterFailure, Stuck, PhaseOf
    <2> HIDE DEF gone
    <2> QED
      BY <2>1 DEF Phase
  <1>3. UNCHANGED <<images, Seen, fields, Vouched>>
    BY SeenKept, VouchedKept DEF TickReclaim, evidenceVars, reviewVars
  <1> HIDE DEF gone
  <1>4. Promise!GiveUp(gone)
    BY <1>1, <1>2, <1>3 DEF Promise!GiveUp
  <1> QED
    BY <1>4 DEF gone

(* A failure that is recorded gives the receipt up or lets it wait again;  *)
(* one of a stale claim is not recorded.                                   *)
LEMMA RecordFailureRefines ==
    ASSUME PipelineInvariant, NEW c \in Claims, RecordFailure(c)
    PROVE  (\E gone \in SUBSET Receipts : Promise!GiveUp(gone)) \/ UNCHANGED Promise!vars
  <1> DEFINE r == c[1]
  <1>1. r \in Receipts
    BY ClaimParts
  <1>2. UNCHANGED <<images, raw, fields, reviewedAt>>
    BY DEF RecordFailure, evidenceVars, reviewVars
  <1>3. CASE UNCHANGED scanState
    BY <1>2, <1>3, Unseen DEF Phase
  <1>4. CASE Live(c) /\ scanState' = [scanState EXCEPT ![r] = "uploaded"]
    <2>1. scanState[r] = "scanning"
      BY <1>4 DEF Live
    <2>2. UNCHANGED Phase
      BY <1>1, <1>4, <2>1 DEF Phase, PhaseOf, PipelineInvariant, TypeOK
    <2> QED
      BY <1>2, <2>2, Unseen
  <1>5. CASE Live(c) /\ scanState' = [scanState EXCEPT ![r] = "scan_failed"]
    <2>1. Phase[r] = "waiting"
      BY <1>1, <1>5, PhaseFacts DEF Live
    <2>2. Phase' = [Phase EXCEPT ![r] = "failed"]
      BY <1>1, <1>5, PhaseMoves DEF PhaseOf
    <2>3. Phase' = [q \in Receipts |-> IF q \in {r} THEN "failed" ELSE Phase[q]]
      BY <1>1, <2>2 DEF Phase
    <2>4. UNCHANGED <<images, Seen, fields, Vouched>>
      BY <1>2, SeenKept, VouchedKept
    <2> HIDE DEF r
    <2>5. Promise!GiveUp({r})
      BY <2>1, <2>3, <2>4 DEF Promise!GiveUp
    <2> QED
      BY <1>1, <2>5
  <1>6. \/ UNCHANGED scanState
        \/ Live(c) /\ scanState' = [scanState EXCEPT ![r] = "uploaded"]
        \/ Live(c) /\ scanState' = [scanState EXCEPT ![r] = "scan_failed"]
    BY DEF RecordFailure, AfterFailure, claimVars
  <1> QED
    BY <1>3, <1>4, <1>5, <1>6

(* Claiming moves receipts from one way of waiting to the other. *)
LEMMA ClaimUnseen ==
    ASSUME PipelineInvariant, NEW t \in Ticks, ClaimRows(t)
    PROVE  UNCHANGED Promise!vars
  <1>1. \A r \in Claimed(t) : scanState[r] = "uploaded"
    BY DEF Claimed, Claimable, Queued
  <1>2. UNCHANGED Phase
    BY <1>1 DEF ClaimRows, Phase, PhaseOf
  <1> QED
    BY <1>2, Unseen DEF ClaimRows, reviewVars, evidenceVars

(* The theorem: ScanWorker implements ReceiptScan for every number of      *)
(* receipts, ticks, editors, images, retries and faults.                   *)
THEOREM ScanWorkerImplementsReceiptScan == Spec => ScansLookAtomic
  <1>1. PipelineInvariant /\ ResultsAreReal /\ [Next]_vars => [Promise!Next]_(Promise!vars)
    <2> SUFFICES ASSUME PipelineInvariant, ResultsAreReal, [Next]_vars
                 PROVE  Promise!Next \/ UNCHANGED Promise!vars
      OBVIOUS
    <2>0. ASSUME UNCHANGED <<scanState, images, raw, fields, reviewedAt>>
          PROVE  UNCHANGED Promise!vars
      BY <2>0, Unseen DEF Phase
    <2>1. ASSUME NEW r \in Receipts, ReceiptRequest(r) \/ Expire(r)
          PROVE  Promise!Next \/ UNCHANGED Promise!vars
      <3>1. CASE Upload(r) \/ CreateManual(r) \/ AddImages(r) \/ RetryScan(r) \/ DeleteReceipt(r)
        BY <3>1, UploadRefines, CreateManualRefines, AddImagesRefines, RetryScanRefines,
           DeleteReceiptRefines DEF Promise!Next
      <3>2. CASE ItemInsert(r) \/ ItemCommit(r) \/ ItemRollback(r) \/ ItemDelete(r) \/ Expire(r)
        BY <2>0, <3>2 DEF ItemInsert, ItemCommit, ItemRollback, ItemDelete, Expire, claimVars,
           reviewVars, evidenceVars
      <3> QED
        BY <2>1, <3>1, <3>2 DEF ReceiptRequest
    <2>2. ASSUME NEW e \in Editors, PatchStep(e)
          PROVE  Promise!Next \/ UNCHANGED Promise!vars
      <3>1. CASE PatchCommit(e)
        BY <3>1, PatchCommitRefines DEF Promise!Next
      <3>2. CASE PatchAbort(e) \/ \E r \in Receipts : PatchBegin(e, r)
        BY <2>0, <3>2 DEF PatchAbort, PatchBegin, claimVars, reviewVars, evidenceVars
      <3> QED
        BY <2>2, <3>1, <3>2 DEF PatchStep
    <2>3. ASSUME NEW t \in Ticks, TickStep(t)
          PROVE  Promise!Next \/ UNCHANGED Promise!vars
      <3>1. CASE TickReclaim(t)
        BY <3>1, TickReclaimRefines DEF Promise!Next
      <3>2. CASE TickSnapshot(t)
        BY <2>0, <3>2 DEF TickSnapshot, claimVars, reviewVars, evidenceVars
      <3>3. CASE TickClaim(t)
        BY <3>3, ClaimUnseen DEF TickClaim
      <3> QED
        BY <2>3, <3>1, <3>2, <3>3 DEF TickStep
    <2>4. ASSUME NEW c \in Claims, ScanStep(c)
          PROVE  Promise!Next \/ UNCHANGED Promise!vars
      <3>0. c[1] \in Receipts
        BY ClaimParts
      <3>1. CASE WriteVerify(c) \/ WriteExtraction(c)
        BY <3>0, <3>1, WriteVerifyRefines, WriteExtractionRefines DEF Promise!Next
      <3>2. CASE RecordFailure(c)
        BY <3>2, RecordFailureRefines DEF Promise!Next
      <3>3. ASSUME NEW locals, ScanMoves(c, locals)
            PROVE  UNCHANGED Promise!vars
        BY <2>0, <3>3 DEF ScanMoves, claimVars, reviewVars, evidenceVars
      <3>4. CASE ApplyBegin(c)
        BY <2>0, <3>4 DEF ApplyBegin, claimVars, reviewVars, evidenceVars
      <3>5. ASSUME NEW result \in Results, ProviderReply(c, result)
            PROVE  UNCHANGED Promise!vars
        BY <3>3, <3>5 DEF ProviderReply
      <3>6. CASE ScanSnapshot(c) \/ ListImages(c) \/ ProviderScanError(c) \/ InfraError(c)
        BY <3>3, <3>6 DEF ScanSnapshot, ListImages, ProviderScanError, InfraError
      <3>7. CASE ApplyRead(c) \/ ApplyWait(c) \/ ApplyStale(c) \/ ApplyChanged(c)
        BY <3>3, <3>7 DEF ApplyRead, ApplyWait, ApplyStale, ApplyChanged
      <3> QED
        BY <2>4, <3>1, <3>2, <3>4, <3>5, <3>6, <3>7 DEF ScanStep
    <2>5. ASSUME FaultStep
          PROVE  UNCHANGED Promise!vars
      <3>1. ASSUME NEW t \in Ticks, TickClaimLost(t) PROVE UNCHANGED Promise!vars
        BY <3>1, ClaimUnseen DEF TickClaimLost
      <3>2. ASSUME NEW t \in Ticks, TickError(t) PROVE UNCHANGED Promise!vars
        BY <2>0, <3>2 DEF TickError, claimVars, reviewVars, evidenceVars
      <3>3. ASSUME NEW c \in Claims, CommitLost(c) \/ RecordFailureLost(c)
            PROVE  UNCHANGED Promise!vars
        BY <2>0, <3>3 DEF CommitLost, RecordFailureLost, claimVars, reviewVars, evidenceVars
      <3>4. CASE Crash
        BY <2>0, <3>4 DEF Crash, claimVars, reviewVars, evidenceVars
      <3> QED
        BY <2>5, <3>1, <3>2, <3>3, <3>4 DEF FaultStep
    <2>6. CASE UNCHANGED vars
      BY <2>0, <2>6 DEF vars, claimVars, reviewVars, evidenceVars
    <2> QED
      BY <2>1, <2>2, <2>3, <2>4, <2>5, <2>6 DEF Next
  <1> QED
    BY <1>1, InitRefines, PipelineCorrect, ResultsReal, PTL DEF Spec, ScansLookAtomic, Promise!Spec

=============================================================================
