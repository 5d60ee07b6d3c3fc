----------------------------- MODULE ScanWorker -----------------------------
(***************************************************************************)
(* The scan pipeline of receipt-scanner: the receipts rows in Postgres,    *)
(* the timer ticks and scan coroutines of src/scan/ScanWorker.cpp, and the *)
(* HTTP handlers of src/receipts/ that write the same rows while a scan is *)
(* in flight.                                                              *)
(*                                                                         *)
(* Every step is one SQL statement, one transaction, or one awaited call,  *)
(* the units at which the coroutines of the server interleave.  A scan is  *)
(* known by its claim: a receipt and the scan_started_at it was claimed    *)
(* with.  scan_started_at of a row grows from claim to claim, so it is     *)
(* modelled by the number of the claim on that row.                        *)
(***************************************************************************)
EXTENDS Integers, FiniteSets, Kinds

CONSTANTS
    Receipts,         \* receipt ids; a smaller id was created earlier
    Ticks,            \* tick() coroutines that may be running at once
    Requests,         \* the requests users make: a subset of RequestKinds
    Editors,          \* PATCH /receipts/:id requests that may be in flight at once
    Totals,           \* total_cents and currency of a document, 0 the column defaults
    Merchants,        \* merchant (it also stands for purchase_date: nullable, compared)
    NULL,             \* SQL NULL of a nullable column
    Similar,          \* the pairs of merchants MerchantMatcher puts over the threshold
    EntryKinds,       \* kinds the users enter
    ResultKinds,      \* kinds the provider may answer with
    MaxImages,        \* MAX_IMAGES_PER_RECEIPT
    Concurrency,      \* SCAN_CONCURRENCY
    MaxScanAttempts,  \* SCAN_MAX_ATTEMPTS
    MaxReclaims,      \* SCAN_MAX_RECLAIMS
    MaxClaims,        \* bound: claims of one receipt
    MaxUserOps,       \* bound: requests that change an existing receipt
    MaxFaults         \* bound: crashes and lost or failed database calls

RequestKinds == {"upload", "manual", "add_images", "retry", "delete", "patch", "item_create",
                 "item_delete"}

ASSUME RequestsAssumption == Requests \subseteq RequestKinds

ASSUME ReceiptsAssumption == Receipts \subseteq Nat \ {0} /\ IsFiniteSet(Receipts)

ASSUME TicksAssumption == IsFiniteSet(Ticks)

ASSUME DocumentAssumption ==
    /\ Totals \subseteq Nat
    /\ 0 \in Totals
    /\ NULL \notin Merchants
    /\ Similar \subseteq Merchants \X Merchants
    /\ EntryKinds \subseteq KnownKinds

ASSUME LimitsAssumption ==
    /\ MaxImages \in Nat \ {0}
    /\ Concurrency \in Nat
    /\ MaxScanAttempts \in Nat \ {0}
    /\ MaxReclaims \in Nat \ {0}
    /\ MaxClaims \in Nat
    /\ MaxUserOps \in Nat
    /\ MaxFaults \in Nat

VARIABLES
    \* the receipts table and its children, one function per column
    scanState,        \* scan_state, or "none" / "deleted" for a row that does not exist
    startedAt,        \* scan_started_at: the claim token, 0 for NULL
    scanAttempts,     \* scan_attempts
    reclaimCount,     \* reclaim_count
    proposedAt,       \* proposed_at, 0 for NULL
    reviewedAt,       \* reviewed_at, 0 for NULL
    updatedAt,        \* updated_at
    fields,           \* kind, total, merchant
    raw,              \* raw_ocr_json: the latest scan result and how many images it read
    images,           \* count of receipt_images rows
    userItems,        \* items rows the user wrote
    scanItems,        \* items rows a scan wrote
    itemTxn,          \* an item INSERT is uncommitted: KEY SHARE lock on the receipt
    \* time
    clock,            \* now() of the latest transaction that stamped one
    claims,           \* claims made of the receipt so far
    expired,          \* the latest claim older than reclaimAfterSeconds
    \* in-process state, lost in a crash
    tick, scan, patch,
    \* counters that only bound the model
    userOps, faults

claimVars == <<scanState, startedAt, scanAttempts, reclaimCount>>
reviewVars == <<proposedAt, reviewedAt, updatedAt, fields>>
itemVars == <<userItems, scanItems, itemTxn>>
evidenceVars == <<raw, images>>
timeVars == <<clock, claims, expired>>
boundVars == <<userOps, faults>>
vars == <<claimVars, reviewVars, itemVars, evidenceVars, timeVars, tick, scan, patch, boundVars>>

-----------------------------------------------------------------------------
(* Domains.                                                                *)

ScanStates == {"idle", "uploaded", "scanning", "scan_failed"}
Claims == Receipts \X (1..MaxClaims)

Fields == [kind : KnownKinds, total : Totals, merchant : Merchants \cup {NULL}]
Entries == [kind : EntryKinds, total : Totals, merchant : Merchants \cup {NULL}]
Results == [kind : ResultKinds, total : Totals, merchant : Merchants \cup {NULL}]
NoResult == [kind |-> "none", total |-> 0, merchant |-> NULL]
NoRaw == [imgs |-> 0, result |-> NoResult]

(* The row of a fresh upload, and of an id that is not in use. *)
BlankFields == [kind |-> DefaultKind, total |-> 0, merchant |-> NULL]

(* What applyResult() compares of the row it read before its transaction. *)
NoSnapshot == [updatedAt |-> 0, reviewed |-> FALSE, count |-> 0]

(* A scan coroutine: where it is, and its locals. *)
NoScan ==
    [pc |-> "done", verifying |-> FALSE, imgs |-> 0, result |-> NoResult, attempt |-> 0,
     before |-> NoSnapshot, matched |-> FALSE, ts |-> 0, count |-> 0, error |-> "none"]

NoTick == [pc |-> "idle", free |-> 0, queued |-> {}]
NoPatch == [r |-> 0, ts |-> 0]

-----------------------------------------------------------------------------
(* Derived state.                                                          *)

Exists(r) == scanState[r] \in ScanStates
Reviewed(r) == reviewedAt[r] # 0

(* v_receipt_state, is_confirmed: derived from two timestamps. *)
Confirmed(r) == reviewedAt[r] # 0 /\ (proposedAt[r] = 0 \/ reviewedAt[r] >= proposedAt[r])

ItemCount(r) == userItems[r] + scanItems[r]

(* The WHERE clause of readSnapshot and recordFailure: the row still is in *)
(* `scanning` under this claim's token.                                    *)
MutantLiveById(c) == Exists(c[1])
MutantLiveAnyToken(c) == scanState[c[1]] = "scanning"
Live(c) == scanState[c[1]] = "scanning" /\ startedAt[c[1]] = c[2]

(* applyResult's comparison of a reviewed row with the scan: the total is  *)
(* exact, an empty field is not compared.                                  *)
Matches(row, result) ==
    /\ row.total = result.total
    /\ row.merchant # NULL /\ result.merchant # NULL =>
           <<row.merchant, result.merchant>> \in Similar

Coalesce(a, b) == IF a = NULL THEN b ELSE a

-----------------------------------------------------------------------------
(* HTTP handlers.                                                          *)

(* Ids are serial: the next row is the smallest id not in use yet. *)
NextId(r) == scanState[r] = "none" /\ \A q \in Receipts : q < r => scanState[q] # "none"

(* uploadReceipt: a provisional row in `uploaded` with its images, in one  *)
(* transaction.                                                            *)
Upload(r) ==
    /\ "upload" \in Requests
    /\ NextId(r)
    /\ \E n \in 1..MaxImages : images' = [images EXCEPT ![r] = n]
    /\ scanState' = [scanState EXCEPT ![r] = "uploaded"]
    /\ clock' = clock + 1
    /\ updatedAt' = [updatedAt EXCEPT ![r] = clock + 1]
    /\ UNCHANGED <<startedAt, scanAttempts, reclaimCount, proposedAt, reviewedAt, fields, raw,
                   itemVars, claims, expired, tick, scan, patch, boundVars>>

(* createManual: born reviewed and idle, with at least one item, no image. *)
CreateManual(r) ==
    /\ "manual" \in Requests
    /\ NextId(r)
    /\ \E row \in Entries : fields' = [fields EXCEPT ![r] = row]
    /\ scanState' = [scanState EXCEPT ![r] = "idle"]
    /\ userItems' = [userItems EXCEPT ![r] = 1]
    /\ clock' = clock + 1
    /\ updatedAt' = [updatedAt EXCEPT ![r] = clock + 1]
    /\ reviewedAt' = [reviewedAt EXCEPT ![r] = clock + 1]
    /\ UNCHANGED <<startedAt, scanAttempts, reclaimCount, proposedAt, evidenceVars, scanItems,
                   itemTxn, claims, expired, tick, scan, patch, boundVars>>

UserRequest(kind, r) ==
    /\ kind \in Requests
    /\ Exists(r)
    /\ userOps < MaxUserOps
    /\ userOps' = userOps + 1
    /\ UNCHANGED faults

(* One more image still fits under the cap. *)
MutantFitsCapOffByOne(r) == images[r] <= MaxImages
FitsCap(r) == images[r] < MaxImages

(* addImages: the image row and the re-queueing commit together.  Neither  *)
(* scan_started_at, the budgets nor updated_at is touched.                 *)
AddImages(r) ==
    /\ UserRequest("add_images", r)
    /\ FitsCap(r)
    /\ images' = [images EXCEPT ![r] = @ + 1]
    /\ scanState' = [scanState EXCEPT ![r] = "uploaded"]
    /\ UNCHANGED <<startedAt, scanAttempts, reclaimCount, reviewVars, itemVars, raw, timeVars,
                   tick, scan, patch>>

(* retryScan: a failed row is re-queued with both budgets fresh. *)
RetryScan(r) ==
    /\ UserRequest("retry", r)
    /\ scanState[r] = "scan_failed"
    /\ scanState' = [scanState EXCEPT ![r] = "uploaded"]
    /\ scanAttempts' = [scanAttempts EXCEPT ![r] = 0]
    /\ reclaimCount' = [reclaimCount EXCEPT ![r] = 0]
    /\ clock' = clock + 1
    /\ updatedAt' = [updatedAt EXCEPT ![r] = clock + 1]
    /\ UNCHANGED <<startedAt, proposedAt, reviewedAt, fields, itemVars, evidenceVars, claims,
                   expired, tick, scan, patch>>

(* deleteReceipt: the row goes, and its images and items by cascade.  It   *)
(* waits for an uncommitted item INSERT, whose foreign key locks the row.  *)
DeleteReceipt(r) ==
    /\ UserRequest("delete", r)
    /\ ~itemTxn[r]
    /\ scanState' = [scanState EXCEPT ![r] = "deleted"]
    /\ startedAt' = [startedAt EXCEPT ![r] = 0]
    /\ images' = [images EXCEPT ![r] = 0]
    /\ raw' = [raw EXCEPT ![r] = NoRaw]
    /\ userItems' = [userItems EXCEPT ![r] = 0]
    /\ scanItems' = [scanItems EXCEPT ![r] = 0]
    /\ UNCHANGED <<scanAttempts, reclaimCount, reviewVars, itemTxn, timeVars, tick, scan, patch>>

(* updateReceipt, BEGIN: now() is fixed here, before the row is locked. *)
PatchBegin(e, r) ==
    /\ patch[e] = NoPatch
    /\ UserRequest("patch", r)
    /\ clock' = clock + 1
    /\ patch' = [patch EXCEPT ![e] = [r |-> r, ts |-> clock + 1]]
    /\ UNCHANGED <<claimVars, reviewVars, itemVars, evidenceVars, claims, expired, tick, scan>>

(* updateReceipt, the rest: SELECT ... FOR UPDATE, the patch applied to    *)
(* the row as it is under the lock, UPDATE, COMMIT.  {"reviewed": true}    *)
(* stamps reviewed_at with the transaction's now().                        *)
PatchCommit(e) ==
    LET r == patch[e].r IN
    /\ patch[e] # NoPatch
    /\ Exists(r)
    /\ ~itemTxn[r]
    /\ \E row \in Entries, markReviewed \in BOOLEAN :
           /\ fields' = [fields EXCEPT ![r] = row]
           /\ reviewedAt' = [reviewedAt EXCEPT ![r] = IF markReviewed THEN patch[e].ts ELSE @]
    /\ updatedAt' = [updatedAt EXCEPT ![r] = patch[e].ts]
    /\ patch' = [patch EXCEPT ![e] = NoPatch]
    /\ UNCHANGED <<claimVars, proposedAt, itemVars, evidenceVars, timeVars, tick, scan, boundVars>>

(* updateReceipt, every other exit: 404 or a validation error, rolled back. *)
PatchAbort(e) ==
    /\ patch[e] # NoPatch
    /\ patch' = [patch EXCEPT ![e] = NoPatch]
    /\ UNCHANGED <<claimVars, reviewVars, itemVars, evidenceVars, timeVars, tick, scan, boundVars>>

(* ItemService::create, the INSERT: its foreign key takes KEY SHARE on the *)
(* receipt until COMMIT.  An item never moves receipts.updated_at.         *)
ItemInsert(r) ==
    /\ UserRequest("item_create", r)
    /\ ~itemTxn[r]
    /\ itemTxn' = [itemTxn EXCEPT ![r] = TRUE]
    /\ UNCHANGED <<claimVars, reviewVars, userItems, scanItems, evidenceVars, timeVars, tick, scan,
                   patch>>

ItemCommit(r) ==
    /\ itemTxn[r]
    /\ itemTxn' = [itemTxn EXCEPT ![r] = FALSE]
    /\ userItems' = [userItems EXCEPT ![r] = @ + 1]
    /\ UNCHANGED <<claimVars, reviewVars, scanItems, evidenceVars, timeVars, tick, scan, patch,
                   boundVars>>

(* A tag that does not exist fails the request after the INSERT. *)
ItemRollback(r) ==
    /\ itemTxn[r]
    /\ itemTxn' = [itemTxn EXCEPT ![r] = FALSE]
    /\ UNCHANGED <<claimVars, reviewVars, userItems, scanItems, evidenceVars, timeVars, tick, scan,
                   patch, boundVars>>

(* ItemService::remove of an item the user or a scan wrote. *)
ItemDelete(r) ==
    /\ UserRequest("item_delete", r)
    /\ \/ userItems[r] > 0 /\ userItems' = [userItems EXCEPT ![r] = @ - 1] /\ UNCHANGED scanItems
       \/ scanItems[r] > 0 /\ scanItems' = [scanItems EXCEPT ![r] = @ - 1] /\ UNCHANGED userItems
    /\ UNCHANGED <<claimVars, reviewVars, itemTxn, evidenceVars, timeVars, tick, scan, patch>>

-----------------------------------------------------------------------------
(* tick(): reclaimStuck, then claim.  The timer starts a tick without      *)
(* waiting for the previous one.                                           *)

(* The claim of a row in `scanning` grows older than reclaimAfterSeconds. *)
Expire(r) ==
    /\ scanState[r] = "scanning"
    /\ expired[r] < startedAt[r]
    /\ expired' = [expired EXCEPT ![r] = startedAt[r]]
    /\ UNCHANGED <<claimVars, reviewVars, itemVars, evidenceVars, clock, claims, tick, scan, patch,
                   boundVars>>

(* The CASE of reclaimStuck and recordFailure. *)
MutantAfterFailureEarly(spent, cap) == IF spent + 2 >= cap THEN "scan_failed" ELSE "uploaded"
AfterFailure(spent, cap) == IF spent + 1 >= cap THEN "scan_failed" ELSE "uploaded"

(* scan_started_at < now() - reclaimAfterSeconds. *)
MutantStuckNever(r) == scanState[r] = "scanning" /\ startedAt[r] < expired[r]
Stuck(r) == scanState[r] = "scanning" /\ startedAt[r] <= expired[r]

(* reclaimStuck: one UPDATE over every row stuck past the timeout. *)
TickReclaim(t) ==
    /\ tick[t].pc = "idle"
    /\ tick' = [tick EXCEPT ![t].pc = "reclaimed"]
    /\ scanState' = [r \in Receipts |->
           IF Stuck(r) THEN AfterFailure(reclaimCount[r], MaxReclaims) ELSE scanState[r]]
    /\ reclaimCount' = [r \in Receipts |-> reclaimCount[r] + (IF Stuck(r) THEN 1 ELSE 0)]
    /\ startedAt' = [r \in Receipts |-> IF Stuck(r) THEN 0 ELSE startedAt[r]]
    /\ UNCHANGED <<scanAttempts, reviewVars, itemVars, evidenceVars, timeVars, scan, patch,
                   boundVars>>

Scanning == {r \in Receipts : scanState[r] = "scanning"}
Queued == {r \in Receipts : scanState[r] = "uploaded"}

(* GREATEST(concurrency - count(scanning), 0). *)
FreeSlots ==
    IF Cardinality(Scanning) < Concurrency THEN Concurrency - Cardinality(Scanning) ELSE 0

(* claim(): the statement's snapshot, in which the free slots are counted. *)
TickSnapshot(t) ==
    /\ tick[t].pc = "reclaimed"
    /\ tick' = [tick EXCEPT ![t] = [pc |-> "claiming", free |-> FreeSlots, queued |-> Queued]]
    /\ UNCHANGED <<claimVars, reviewVars, itemVars, evidenceVars, timeVars, scan, patch, boundVars>>

(* Rows of the snapshot that still are in `uploaded` when the row lock is  *)
(* taken, and that nobody has locked (FOR UPDATE SKIP LOCKED).             *)
Claimable(t) ==
    {r \in tick[t].queued \cap Queued : ~itemTxn[r] /\ claims[r] < MaxClaims}

(* ORDER BY created_at, id LIMIT free. *)
Claimed(t) ==
    {r \in Claimable(t) : Cardinality({q \in Claimable(t) : q < r}) < tick[t].free}

(* claim(): the UPDATE, for the tick that sees its rows and for the one    *)
(* whose answer is lost.                                                   *)
ClaimRows(t) ==
    /\ tick[t].pc = "claiming"
    /\ tick' = [tick EXCEPT ![t] = NoTick]
    /\ scanState' = [r \in Receipts |-> IF r \in Claimed(t) THEN "scanning" ELSE scanState[r]]
    /\ startedAt' = [r \in Receipts |-> IF r \in Claimed(t) THEN claims[r] + 1 ELSE startedAt[r]]
    /\ claims' = [r \in Receipts |-> claims[r] + (IF r \in Claimed(t) THEN 1 ELSE 0)]
    /\ UNCHANGED <<scanAttempts, reclaimCount, reviewVars, itemVars, evidenceVars, clock, expired,
                   patch, userOps>>

(* tick(): a process() coroutine is started for every claim. *)
TickClaim(t) ==
    /\ ClaimRows(t)
    /\ scan' = [c \in Claims |->
           IF c[1] \in Claimed(t) /\ c[2] = claims[c[1]] + 1
               THEN [NoScan EXCEPT !.pc = "snapshot"] ELSE scan[c]]
    /\ UNCHANGED faults

Fault == faults < MaxFaults /\ faults' = faults + 1

(* The claim committed but its answer was lost: the tick ends and the rows *)
(* are in `scanning` with nobody scanning them.                            *)
TickClaimLost(t) ==
    /\ Fault
    /\ Claimed(t) # {}
    /\ ClaimRows(t)
    /\ UNCHANGED scan

(* A failed statement ends the tick. *)
TickError(t) ==
    /\ Fault
    /\ tick[t].pc # "idle"
    /\ tick' = [tick EXCEPT ![t] = NoTick]
    /\ UNCHANGED <<claimVars, reviewVars, itemVars, evidenceVars, timeVars, scan, patch, userOps>>

-----------------------------------------------------------------------------
(* process(): one scan, from its claim to its result or failure.           *)

(* The coroutine moves on; no row changes. *)
ScanMoves(c, locals) ==
    /\ scan' = [scan EXCEPT ![c] = locals]
    /\ UNCHANGED <<claimVars, reviewVars, itemVars, evidenceVars, timeVars, tick, patch, boundVars>>

Failing(error) == [NoScan EXCEPT !.pc = "failing", !.error = error]

(* readSnapshot: is the row reviewed (a verify scan) at this moment?  A    *)
(* claim gone stale ends the scan.                                         *)
ScanSnapshot(c) ==
    /\ scan[c].pc = "snapshot"
    /\ ScanMoves(c, IF Live(c) THEN [scan[c] EXCEPT !.pc = "list", !.verifying = Reviewed(c[1])]
                               ELSE NoScan)

(* The receipt's image keys.  With none left the failure is terminal. *)
ListImages(c) ==
    /\ scan[c].pc = "list"
    /\ ScanMoves(c, IF images[c[1]] = 0 THEN Failing("terminal")
                    ELSE [scan[c] EXCEPT !.pc = "calling", !.imgs = images[c[1]]])

(* scanReceipt answers and validateResult lets the result pass: the kind   *)
(* is checked only when the row was not reviewed at readSnapshot.          *)
ProviderReply(c, result) ==
    /\ scan[c].pc = "calling"
    /\ scan[c].verifying \/ Scannable(result.kind)
    /\ ScanMoves(c, [scan[c] EXCEPT !.pc = "apply", !.result = result])

(* A ScanError: refused by the provider, unparseable, or unusable (an      *)
(* unscannable kind, a negative amount, a malformed date or currency).     *)
ProviderScanError(c) ==
    /\ scan[c].pc = "calling"
    /\ ScanMoves(c, Failing("scan"))

(* Any other exception, at any await of the scan: S3, the network, the     *)
(* database.  An open transaction is rolled back.                          *)
InfraError(c) ==
    /\ scan[c].pc \in {"snapshot", "list", "calling", "apply", "begin", "locking", "waiting"}
    /\ ScanMoves(c, Failing("infra"))

(* applyResult, one attempt: the row as it is now, and for a reviewed row  *)
(* the verdict of the comparison.                                          *)
ApplyRead(c) ==
    LET r == c[1] IN
    /\ scan[c].pc = "apply"
    /\ ScanMoves(c,
           IF Live(c)
           THEN [scan[c] EXCEPT
                    !.pc = "begin",
                    !.before = [updatedAt |-> updatedAt[r], reviewed |-> Reviewed(r),
                                count |-> ItemCount(r)],
                    !.matched = Reviewed(r) => Matches(fields[r], scan[c].result)]
           ELSE NoScan)

(* BEGIN fixes now() for the transaction. *)
ApplyBegin(c) ==
    /\ scan[c].pc = "begin"
    /\ clock' = clock + 1
    /\ scan' = [scan EXCEPT ![c].pc = "locking", ![c].ts = clock + 1]
    /\ UNCHANGED <<claimVars, reviewVars, itemVars, evidenceVars, claims, expired, tick, patch,
                   boundVars>>

(* SELECT ... FOR UPDATE has to wait for an uncommitted item INSERT.  The  *)
(* item count it returns is that of the statement's snapshot, taken before *)
(* the wait; the row's own columns are those of the locked version.        *)
ApplyWait(c) ==
    /\ scan[c].pc = "locking"
    /\ Live(c)
    /\ itemTxn[c[1]]
    /\ ScanMoves(c, [scan[c] EXCEPT !.pc = "waiting", !.count = ItemCount(c[1])])

Locking(c) == scan[c].pc = "locking" \/ (scan[c].pc = "waiting" /\ ~itemTxn[c[1]])

LockedCount(c) == IF scan[c].pc = "waiting" THEN scan[c].count ELSE ItemCount(c[1])

(* The row lock is held and the row is the claim's and unchanged. *)
LockedRow(c) == Locking(c) /\ Live(c) /\ ~itemTxn[c[1]]
MutantUnchangedNoTimestamp(c) ==
    /\ scan[c].before.reviewed = Reviewed(c[1])
    /\ scan[c].before.count = LockedCount(c)
Unchanged(c) ==
    scan[c].before = [updatedAt |-> updatedAt[c[1]], reviewed |-> Reviewed(c[1]),
                      count |-> LockedCount(c)]

(* The claim went stale: rollback, and nothing is written. *)
ApplyStale(c) ==
    /\ Locking(c)
    /\ ~Live(c)
    /\ ScanMoves(c, NoScan)

(* The row changed since it was compared: start over once, then give up. *)
ApplyChanged(c) ==
    /\ LockedRow(c)
    /\ ~Unchanged(c)
    /\ ScanMoves(c, IF scan[c].attempt = 0
                    THEN [NoScan EXCEPT !.pc = "apply", !.attempt = 1,
                              !.verifying = scan[c].verifying, !.imgs = scan[c].imgs,
                              !.result = scan[c].result]
                    ELSE Failing("infra"))

(* What both writes do to the row: back to idle, the result kept as        *)
(* evidence, proposed_at and updated_at stamped with the transaction time. *)
Complete(c) ==
    LET r == c[1] IN
    /\ LockedRow(c)
    /\ Unchanged(c)
    /\ scanState' = [scanState EXCEPT ![r] = "idle"]
    /\ startedAt' = [startedAt EXCEPT ![r] = 0]
    /\ proposedAt' = [proposedAt EXCEPT ![r] = scan[c].ts]
    /\ updatedAt' = [updatedAt EXCEPT ![r] = scan[c].ts]
    /\ raw' = [raw EXCEPT ![r] = [imgs |-> scan[c].imgs, result |-> scan[c].result]]
    /\ scan' = [scan EXCEPT ![c] = NoScan]
    /\ UNCHANGED <<scanAttempts, reclaimCount, itemTxn, images, timeVars, tick, patch, boundVars>>

(* The mode follows the row under the lock, not the row at claim time. *)
MutantVerifyModeOfClaim(c) == scan[c].verifying
VerifyMode(c) == Reviewed(c[1])

(* A match re-stamps reviewed_at along with proposed_at. *)
MutantRestampNever(c) == reviewedAt[c[1]]
Restamp(c) == IF scan[c].matched THEN scan[c].ts ELSE reviewedAt[c[1]]

(* writeVerify: fill only what is empty; a match keeps the row confirmed. *)
WriteVerify(c) ==
    LET r == c[1] IN
    /\ Complete(c)
    /\ VerifyMode(c)
    /\ fields' = [fields EXCEPT ![r].merchant = Coalesce(@, scan[c].result.merchant)]
    /\ reviewedAt' = [reviewedAt EXCEPT ![r] = Restamp(c)]
    /\ scanItems' = [scanItems EXCEPT ![r] = IF LockedCount(c) = 0 THEN 1 ELSE @]
    /\ UNCHANGED userItems

(* writeExtraction: the scan's fields and items replace the row's. *)
WriteExtraction(c) ==
    LET r == c[1] IN
    /\ Complete(c)
    /\ ~VerifyMode(c)
    /\ fields' = [fields EXCEPT ![r] = scan[c].result]
    /\ userItems' = [userItems EXCEPT ![r] = 0]
    /\ scanItems' = [scanItems EXCEPT ![r] = 1]
    /\ UNCHANGED reviewedAt

(* The transaction commits in its destructor, where nobody sees a failure: *)
(* the scan ends as if written, and the row stays in `scanning`.           *)
CommitLost(c) ==
    /\ Fault
    /\ LockedRow(c)
    /\ Unchanged(c)
    /\ scan' = [scan EXCEPT ![c] = NoScan]
    /\ UNCHANGED <<claimVars, reviewVars, itemVars, evidenceVars, timeVars, tick, patch, userOps>>

(* recordFailure: one unit of the matching budget, if the claim is live. *)
RecordFailure(c) ==
    LET r == c[1]
        spendsAttempt == scan[c].error \in {"scan", "terminal"}
        cap == CASE scan[c].error = "terminal" -> 0
                 [] scan[c].error = "scan" -> MaxScanAttempts
                 [] OTHER -> MaxReclaims
    IN
    /\ scan[c].pc = "failing"
    /\ scan' = [scan EXCEPT ![c] = NoScan]
    /\ \/ /\ Live(c)
          /\ startedAt' = [startedAt EXCEPT ![r] = 0]
          /\ IF spendsAttempt
             THEN /\ scanAttempts' = [scanAttempts EXCEPT ![r] = @ + 1]
                  /\ scanState' = [scanState EXCEPT ![r] = AfterFailure(scanAttempts[r], cap)]
                  /\ UNCHANGED reclaimCount
             ELSE /\ reclaimCount' = [reclaimCount EXCEPT ![r] = @ + 1]
                  /\ scanState' = [scanState EXCEPT ![r] = AfterFailure(reclaimCount[r], cap)]
                  /\ UNCHANGED scanAttempts
       \/ ~Live(c) /\ UNCHANGED claimVars
    /\ UNCHANGED <<reviewVars, itemVars, evidenceVars, timeVars, tick, patch, boundVars>>

(* recordFailure itself fails: the row is left in `scanning`. *)
RecordFailureLost(c) ==
    /\ Fault
    /\ scan[c].pc = "failing"
    /\ scan' = [scan EXCEPT ![c] = NoScan]
    /\ UNCHANGED <<claimVars, reviewVars, itemVars, evidenceVars, timeVars, tick, patch, userOps>>

(* The process dies: coroutines are gone, open transactions roll back. *)
Crash ==
    /\ Fault
    /\ tick' = [t \in Ticks |-> NoTick]
    /\ scan' = [c \in Claims |-> NoScan]
    /\ patch' = [e \in Editors |-> NoPatch]
    /\ itemTxn' = [r \in Receipts |-> FALSE]
    /\ UNCHANGED <<claimVars, reviewVars, userItems, scanItems, evidenceVars, timeVars, userOps>>

-----------------------------------------------------------------------------
Init ==
    /\ scanState = [r \in Receipts |-> "none"]
    /\ startedAt = [r \in Receipts |-> 0]
    /\ scanAttempts = [r \in Receipts |-> 0]
    /\ reclaimCount = [r \in Receipts |-> 0]
    /\ proposedAt = [r \in Receipts |-> 0]
    /\ reviewedAt = [r \in Receipts |-> 0]
    /\ updatedAt = [r \in Receipts |-> 0]
    /\ fields = [r \in Receipts |-> BlankFields]
    /\ raw = [r \in Receipts |-> NoRaw]
    /\ images = [r \in Receipts |-> 0]
    /\ userItems = [r \in Receipts |-> 0]
    /\ scanItems = [r \in Receipts |-> 0]
    /\ itemTxn = [r \in Receipts |-> FALSE]
    /\ clock = 0
    /\ claims = [r \in Receipts |-> 0]
    /\ expired = [r \in Receipts |-> 0]
    /\ tick = [t \in Ticks |-> NoTick]
    /\ scan = [c \in Claims |-> NoScan]
    /\ patch = [e \in Editors |-> NoPatch]
    /\ userOps = 0
    /\ faults = 0

ReceiptRequest(r) ==
    \/ Upload(r) \/ CreateManual(r) \/ AddImages(r) \/ RetryScan(r) \/ DeleteReceipt(r)
    \/ ItemInsert(r) \/ ItemCommit(r) \/ ItemRollback(r) \/ ItemDelete(r)

PatchStep(e) ==
    \/ \E r \in Receipts : PatchBegin(e, r)
    \/ PatchCommit(e)
    \/ PatchAbort(e)

TickStep(t) == TickReclaim(t) \/ TickSnapshot(t) \/ TickClaim(t)

ScanStep(c) ==
    \/ ScanSnapshot(c) \/ ListImages(c)
    \/ \E result \in Results : ProviderReply(c, result)
    \/ ProviderScanError(c) \/ InfraError(c)
    \/ ApplyRead(c) \/ ApplyBegin(c) \/ ApplyWait(c) \/ ApplyStale(c) \/ ApplyChanged(c)
    \/ WriteVerify(c) \/ WriteExtraction(c) \/ RecordFailure(c)

FaultStep ==
    \/ \E t \in Ticks : TickClaimLost(t) \/ TickError(t)
    \/ \E c \in Claims : CommitLost(c) \/ RecordFailureLost(c)
    \/ Crash

Next ==
    \/ \E r \in Receipts : ReceiptRequest(r) \/ Expire(r)
    \/ \E e \in Editors : PatchStep(e)
    \/ \E t \in Ticks : TickStep(t)
    \/ \E c \in Claims : ScanStep(c)
    \/ FaultStep

Spec == Init /\ [][Next]_vars

(* The timer keeps ticking, time passes for a stuck scan, and an item      *)
(* transaction ends.  Nothing is assumed of the scans themselves: a        *)
(* provider may hang for ever.                                             *)
Fairness ==
    /\ \A t \in Ticks : WF_vars(TickStep(t))
    /\ \A r \in Receipts : WF_vars(Expire(r))
    /\ \A r \in Receipts : WF_vars(ItemCommit(r) \/ ItemRollback(r))

FairSpec == Spec /\ Fairness

-----------------------------------------------------------------------------
(* Properties.                                                             *)

ScanPcs == {"snapshot", "list", "calling", "apply", "begin", "locking", "waiting", "failing", "done"}
Snapshots == [updatedAt : Nat, reviewed : BOOLEAN, count : Nat]
ScanLocals ==
    [pc : ScanPcs, verifying : BOOLEAN, imgs : 0..MaxImages, result : Results \cup {NoResult},
     attempt : 0..1, before : Snapshots, matched : BOOLEAN, ts : Nat, count : Nat,
     error : {"none", "scan", "terminal", "infra"}]

(* The domain of every column and local variable.  Among them the database *)
(* CHECKs on scan_state and kind, and MAX_IMAGES_PER_RECEIPT.              *)
TypeOK ==
    /\ scanState \in [Receipts -> ScanStates \cup {"none", "deleted"}]
    /\ startedAt \in [Receipts -> 0..MaxClaims]
    /\ scanAttempts \in [Receipts -> Nat]
    /\ reclaimCount \in [Receipts -> Nat]
    /\ proposedAt \in [Receipts -> Nat]
    /\ reviewedAt \in [Receipts -> Nat]
    /\ updatedAt \in [Receipts -> Nat]
    /\ fields \in [Receipts -> Fields]
    /\ raw \in [Receipts -> [imgs : 0..MaxImages, result : Results \cup {NoResult}]]
    /\ images \in [Receipts -> 0..MaxImages]
    /\ userItems \in [Receipts -> Nat]
    /\ scanItems \in [Receipts -> Nat]
    /\ itemTxn \in [Receipts -> BOOLEAN]
    /\ clock \in Nat
    /\ claims \in [Receipts -> 0..MaxClaims]
    /\ expired \in [Receipts -> 0..MaxClaims]
    /\ tick \in [Ticks -> [pc : {"idle", "reclaimed", "claiming"}, free : 0..Concurrency,
                           queued : SUBSET Receipts]]
    /\ scan \in [Claims -> ScanLocals]
    /\ patch \in [Editors -> [r : Receipts, ts : Nat \ {0}] \cup {NoPatch}]
    /\ userOps \in 0..MaxUserOps
    /\ faults \in 0..MaxFaults

(* A receipt at rest after a scan has been scanned from ALL its images: an *)
(* image added while a scan is in flight is never left out, whichever way  *)
(* the upload, the late answer, a reclaim and a second scan interleave     *)
(* (ReceiptService::addImages, ScanWorker::applyResult).                   *)
IdleEvidenceIsComplete ==
    \A r \in Receipts : scanState[r] = "idle" => raw[r].imgs = images[r]

(* A receipt fails only once a budget is spent; in particular the terminal *)
(* "receipt has no images" failure, which has cap 0, never reaches a row   *)
(* that still exists, whatever is deleted or added meanwhile.              *)
FailedOnlyWhenBudgetSpent ==
    \A r \in Receipts : scanState[r] = "scan_failed" =>
        scanAttempts[r] >= MaxScanAttempts \/ reclaimCount[r] >= MaxReclaims

(* Where a scan has listed its images, and where it holds a result. *)
Reading == {"calling", "apply", "begin", "locking", "waiting"}
Applying == {"apply", "begin", "locking", "waiting"}

(* A result on its way to writeExtraction has a kind with a canonical      *)
(* direction, although the kind was checked (or not) by the mode of claim  *)
(* time and the write picks the mode anew: *rules.canonicalDirection is    *)
(* never an empty optional.                                                *)
ExtractionKindHasDirection ==
    \A c \in Claims :
        scan[c].pc \in Applying /\ Live(c) /\ ~Reviewed(c[1]) =>
            /\ Scannable(scan[c].result.kind)
            /\ RulesFor(scan[c].result.kind).canonicalDirection \in Directions

(* What the three invariants above rest on, each needed by the step of one  *)
(* action.  A row not created yet has no evidence; a live scan that has    *)
(* listed its images has listed all of them; a queued row has images, so   *)
(* only a scan whose row is gone finds none; a claim not made yet has no   *)
(* scan, so a claim whose answer is lost wakes nobody; a verify scan's row *)
(* is reviewed for good, and any other result was checked for its kind; a  *)
(* write transaction has begun; a row in `scanning` is held by its latest  *)
(* claim.                                                                  *)
UnusedRowsBlank == \A r \in Receipts : scanState[r] = "none" => raw[r].imgs = images[r]
LiveScansReadAllImages ==
    \A c \in Claims : Live(c) /\ scan[c].pc \in Reading => scan[c].imgs = images[c[1]]
QueuedHasImages ==
    \A r \in Receipts : scanState[r] \in {"uploaded", "scanning", "scan_failed"} => images[r] > 0
TerminalOnlyWhenGone == \A c \in Claims : scan[c].error = "terminal" => ~Live(c)
FutureClaimsUnused == \A c \in Claims : c[2] > claims[c[1]] => scan[c] = NoScan
VerifyingIsReviewed == \A c \in Claims : scan[c].verifying => Reviewed(c[1])
ResultKindChecked ==
    \A c \in Claims : scan[c].pc \in Applying => scan[c].verifying \/ Scannable(scan[c].result.kind)
WritesAreStamped == \A c \in Claims : scan[c].pc \in {"locking", "waiting"} => scan[c].ts # 0
HolderIsLatestClaim ==
    \A r \in Receipts : scanState[r] = "scanning" => startedAt[r] = claims[r] /\ claims[r] > 0

(* The inductive invariant of the scan pipeline: the invariants above and  *)
(* their supports hold of every interleaving of ticks, scans, requests and *)
(* faults.                                                                 *)
PipelineInvariant ==
    /\ TypeOK
    /\ IdleEvidenceIsComplete
    /\ UnusedRowsBlank
    /\ LiveScansReadAllImages
    /\ QueuedHasImages
    /\ TerminalOnlyWhenGone
    /\ FutureClaimsUnused
    /\ VerifyingIsReviewed
    /\ ResultKindChecked
    /\ WritesAreStamped
    /\ HolderIsLatestClaim
    /\ FailedOnlyWhenBudgetSpent

(* The units of its budgets a receipt has spent, and a step that charges   *)
(* it one: for the failure or the age of the claim that holds it, its      *)
(* latest, which gives the receipt up.                                     *)
Spent(r) == scanAttempts[r] + reclaimCount[r]
ChargesHolder(r) ==
    /\ Spent(r)' = Spent(r) + 1
    /\ scanState[r] = "scanning" /\ startedAt[r] = claims[r]
    /\ startedAt'[r] = 0
    /\ \/ expired[r] >= startedAt[r]
       \/ scan[<<r, startedAt[r]>>].pc = "failing" /\ scan'[<<r, startedAt[r]>>].pc = "done"

(* A claim is charged at most once, and no claim for another: whatever     *)
(* goes up by a unit, the receipt is held by its latest claim, that claim  *)
(* is the one that failed or grew too old, and it gives the receipt up.  A *)
(* scan that was reclaimed, or lost its receipt to an added image, and     *)
(* fails later costs the next claim nothing (reclaimStuck and              *)
(* recordFailure against the claim token).                                 *)
ChargesHoldingClaim ==
    [][\A r \in Receipts : Spent(r)' > Spent(r) => ChargesHolder(r)]_vars

ScanCompletes(r) == scanState[r] = "scanning" /\ scanState'[r] = "idle"

(* Trust-gated scan mode: a scan that completes on a row reviewed by then, *)
(* even one claimed before the review, overwrites no field of the user     *)
(* (writeVerify against writeExtraction).                                  *)
ReviewedFieldsKept ==
    [][\A r \in Receipts : ScanCompletes(r) /\ Reviewed(r) =>
           /\ fields'[r].kind = fields[r].kind
           /\ fields'[r].total = fields[r].total
           /\ fields[r].merchant # NULL => fields'[r].merchant = fields[r].merchant]_vars

(* An item of a reviewed receipt goes only when a user removes it or the   *)
(* receipt: no scan replaces it, not even one that waited for the item's   *)
(* own transaction or was claimed before the review (the DELETE of         *)
(* writeExtraction).                                                       *)
ReviewedItemsKept ==
    [][\A r \in Receipts :
           Reviewed(r) /\ (userItems'[r] < userItems[r] \/ scanItems'[r] < scanItems[r]) =>
               userOps' # userOps]_vars

(* The verdict is about the row the scan is written to: a reviewed row is  *)
(* confirmed after a scan exactly if the stored result matches the row as  *)
(* the user last left it, although the comparison ran before the lock.     *)
VerdictMatchesEvidence ==
    [][\A r \in Receipts : ScanCompletes(r) /\ Reviewed(r) =>
           (Confirmed(r)' <=> Matches(fields[r], raw'[r].result))]_vars

(* spec.md, two-axis state: a confirmed receipt "leaves stats only at the  *)
(* instant a completed scan finds a mismatch" - no attach, failure, crash, *)
(* reclaim or edit takes it out.                                           *)
LeavesStatsOnlyOnMismatch ==
    [][\A r \in Receipts : Confirmed(r) /\ Exists(r) /\ Exists(r)' /\ ~Confirmed(r)' =>
           ScanCompletes(r) /\ ~Matches(fields[r], raw'[r].result)]_vars

(* writeVerify's comment: a verify scan fills "only what's empty (merchant, *)
(* store name, date, and items if there are none)".                        *)
ItemsFilledOnlyIfNone ==
    [][\A r \in Receipts : ScanCompletes(r) /\ Reviewed(r) /\ ItemCount(r) > 0 =>
           scanItems'[r] = scanItems[r]]_vars

(* Racing claims exceed the slots by no more than one tick's worth for     *)
(* each tick beyond the first (the count of claim() is a stale snapshot).  *)
ScansBoundedByTicks == Cardinality(Scanning) <= Concurrency * Cardinality(Ticks)

(* claim()'s comment: "the cap is soft by at most one tick's worth of      *)
(* claims".                                                                *)
CapSoftByOneTick == Cardinality(Scanning) <= 2 * Concurrency

(* Zero-loss: a queued receipt is eventually scanned, failed or deleted,   *)
(* through hung scans, crashes and lost calls.                             *)
QueuedReceiptSettles ==
    \A r \in Receipts :
        scanState[r] \in {"uploaded", "scanning"} ~>
            scanState[r] \in {"idle", "scan_failed", "deleted"}

=============================================================================
