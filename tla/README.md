# A verification of receipt-scanner

TLA+ modules for the parts of receipt-scanner that are hard to test: the scan
worker and everything that writes a receipt while a scan of it is in flight,
the upload path between Postgres and S3, one call of the Anthropic provider,
the rules between the fields of a receipt and between receipts that offset
each other, the agreement between item categories and receipt kinds, and
accounts with their sessions and tokens. TLC checks them on small instances;
TLAPS proves their safety properties, and that the scan pipeline and the
transactions of the ledger implement their contracts, for every value of the
constants.

Run from this directory:

    tlc -workers 2 -config ScanBudgets.cfg MCScanWorker
    tlapm ScanWorkerProofs.tla

The table of runs below names the module for each configuration.
`PROJECT.json` maps every definition to the source lines it models and lists
the hazards, mutants, findings and theorems.

## 1. The system

receipt-scanner is a C++ server (Drogon, coroutines on an event loop) over one
Postgres database and one S3 bucket. All shared state is in the database; a
coroutine gives way at every `co_await`, so handlers, timer ticks and scans
interleave between any two SQL statements. Transactions run at READ COMMITTED,
and Drogon's `Transaction` **commits in its destructor** unless it was rolled
back, with nobody to see a commit that fails.

| Component | State it keeps | Operations | Interacts with |
|---|---|---|---|
| Scan worker (`scan/ScanWorker.cpp`) | `scan_state`, `scan_started_at`, `scan_attempts`, `reclaim_count`, `proposed_at`, `raw_ocr_json` of `receipts`; coroutine locals | `tick` = `reclaimStuck` + `claim`; `process`, `applyResult`, `recordFailure` | provider, S3, and every handler that writes the same row |
| Receipt service (`receipts/ReceiptService.cpp`) | `receipts`, `receipt_images` | `uploadReceipt`, `addImages`, `createManual`, `updateReceipt`, `retryScan`, `deleteReceipt` | S3; queues work for the scan worker through `scan_state` |
| Item service (`receipts/ItemService.cpp`) | `items`, `item_tags` | `create`, `update`, `remove` | locks receipts through a foreign key, categories explicitly |
| Reference data (`receipts/ReferenceDataService.cpp`) | `categories`, `tags`, `payment_methods` | create, update, remove of each | a category's side must agree with the kinds of the receipts that use it |
| Anthropic provider (`scan/AnthropicScanProvider.cpp`) | none beyond the call | `scanReceipt`, `send`, `parseResponse`, `itemsAddUp` | the API; its time bound protects the worker's reclaim window |
| Kind table (`receipts/Kinds.h`) | constant | `rulesFor`, `scannable` | consulted by everything above |
| Views (`db/migrations`) | derived | `v_receipt_state`, `v_countable_spend`, `v_income` | define what "confirmed" and "in the stats" mean |
| Ledger input (`receipts/LedgerInput.cpp`) | none | `parseManualEntry`, `applyReceiptPatch`, `validateReceipt`, `audEquivalentCents` | turns a request body and a row into the row to write |
| S3 store, controllers | objects; none | put/get/remove; parsing | used by and in front of the services |
| Authentication (`auth/`), `AuthController` | `users`, `sessions`, `auth_tokens` | `registerUser`, login, `validateSession`, logout, reset and verification of an email | the filter is in front of every other handler |
| Rate limiter (`auth/RateLimiter.h`) | a map in memory | `allow` | in front of login and registration |
| Image normalizer, SigV4 signer, merchant matcher, notifier | none | pure functions or a no-op | used by the above |
| Recurring transactions | tables only | none in this version | |

### What is hard, and what correctness means

* **Ownership of a scan.** A row in `scanning` is owned by whoever holds its
  `scan_started_at`. A scan may be reclaimed, superseded, or pre-empted by an
  attach while its provider call runs for minutes. Correct: a late answer
  changes nothing, no image is left unscanned, and a claim is charged once.
* **Trust.** Once a user reviewed a row, scans may only verify it. The mode
  chosen at the claim is stale by the time of the write. Correct: the write
  follows the row as it is under the lock, and so does the verdict.
* **Budgets.** `scan_attempts` and `reclaim_count` are spent by different
  failures. Correct: `scan_failed` only when one is used up.
* **Zero loss.** Crashes, lost commits, hung provider calls. Correct: a queued
  receipt always settles.
* **Two stores, no common transaction.** Rows in Postgres name objects in S3.
  Correct: never a row without its object, no partial batch, no receipt over
  the cap, no duplicate through a double-tap.
* **Time.** A provider call with retries, backoff and a rescan must end before
  the worker reclaims its row.
* **Agreement kept by several checks.** An item's category is on the side its
  receipt's kind uses. Five code paths each check their half.
* **Fields that constrain each other.** Kind, direction, currency, rate and
  offset link are validated against a row that a scan may rewrite, and the
  target of a link is read without a lock. Correct: no write that the schema's
  CHECKs would refuse, no reviewed row that breaks the rules, no dangling or
  mutual link.
* **Commits nobody waits for.** `registerUser` answers after a token INSERT on
  another connection, while its own transaction commits in a destructor.
  Correct: a 201 is about an account that is there, with its seeds. A session
  is read in one statement and extended in the next. Correct: what a reset
  deleted stays deleted, and expiry slides within its bounds.

The full list, line by line, is `hazards` in `PROJECT.json`.

## 2. The modules

| Module | Models |
|---|---|
| `Kinds` | the kind table |
| `ScanWorker` | the scan pipeline with the handlers that write the same rows |
| `ReceiptScan` | the contract of the pipeline: a waiting receipt is settled by one scan in one step |
| `ScanRefinement` | `ScanWorker` as an implementation of `ReceiptScan` |
| `Uploads` | upload, attach and delete, call by call, over Postgres and S3 |
| `ScanProvider` | one `scanReceipt` call: time, retries, rescan, amounts |
| `Ledger` | items, categories and kinds under concurrent transactions |
| `AtomicLedger` | the contract of those transactions: each request in one step |
| `LedgerRefinement` | `Ledger` as an implementation of `AtomicLedger` |
| `ReceiptFields` | kind, direction, currency, rate and offset link of receipts under everything that writes them |
| `RateLimiter`, `Auth` | the fixed-window limiter; accounts, sessions and tokens |
| `MCScanWorker`, `MCScanProvider`, `MCLedger`, `MCReceiptFields`, `MCAuth` | small instances for TLC (`Uploads` needs none) |
| `ScanWorkerProofs`, `ScanSlotsProofs`, `ScanRefinementProofs`, `ScanProviderProofs`, `UploadsProofs`, `LedgerProofs`, `ReceiptFieldsProofs`, `AuthProofs` | theorems and proofs |

`ScanWorker` is the composition of the worker with the receipt and item
services: they share the `receipts` row and nothing else. `Uploads` opens up
what `ScanWorker` takes as one step (`Upload`, `AddImages`, `DeleteReceipt`),
`ScanProvider` what it takes as one step (`ProviderReply`,
`ProviderScanError`, `InfraError`), `Ledger` the categories that `ScanWorker`
leaves out of an item, and `ReceiptFields` the fields it leaves out of a row.
`Uploads!ReceiptsHaveImages` discharges what `ScanWorker` takes for granted
when `Upload` creates a row with at least one image, and
`ScanProvider!CallFitsReclaimWindow` is why a reclaimed scan is the exception.
`Auth` includes `RateLimiter`, whose operators it applies to its four maps.

### ScanWorker

One function per column of `receipts`; `scan` holds the locals of each
`process` coroutine, keyed by its claim; `tick` and `patch` those of the ticks
and of PATCH requests. An action is one statement, one transaction or one
awaited call:

* `TickReclaim`, `TickSnapshot`, `TickClaim`: `reclaimStuck`, then the claim,
  split between the snapshot in which slots are counted and the rows locked
  with SKIP LOCKED;
* `ScanSnapshot`, `ListImages`, `ProviderReply`, `ProviderScanError`,
  `InfraError`: `process` up to a result or a failure;
* `ApplyRead`, `ApplyBegin`, `ApplyWait`, `ApplyStale`, `ApplyChanged`,
  `WriteVerify`, `WriteExtraction`: `applyResult`, with its comparison outside
  the transaction, the re-read under the lock and the one repetition;
* `RecordFailure`: the charge to a budget;
* `Upload`, `CreateManual`, `AddImages`, `RetryScan`, `DeleteReceipt`,
  `PatchBegin`/`PatchCommit`/`PatchAbort`, `ItemInsert`/`ItemCommit`/
  `ItemRollback`, `ItemDelete`: the handlers;
* `TickError`, `TickClaimLost`, `CommitLost`, `RecordFailureLost`, `Crash`:
  failed statements, answers lost after a commit, commits lost in a destructor,
  process death.

Abstractions. `scan_started_at` is the number of the claim on that row (it
only grows, and is only compared for equality and age). Each row's claim
expires on its own (`Expire`). Timestamps are a counter that every stamping
transaction advances at its BEGIN, which is when Postgres fixes `now()`. An id
orders rows as `created_at` does. A document is a kind, a total and a
merchant; the merchant stands for every nullable compared column, and the
matcher is the relation `Similar`. A result carries one item. A row lock is
visible only where the code lets it be held across an await: an item INSERT
(KEY SHARE through the foreign key); the other transactions take their lock
and commit in one step. `AddImages` adds one image per call and is such a step
too: the worker only sees that a row has more images than its scan read, and a
batch, with the KEY SHARE that `addImages` holds across its S3 calls, is the
business of `Uploads`.

### ReceiptScan and ScanRefinement

`ReceiptScan` is what `ReceiptService.h` and `ScanWorker.h` promise a user,
with no claims, ticks, retries, transactions or crashes: `Upload`, `Enter`,
`Attach`, `Edit`, `Retry`, `Delete` by the user, `Settle` (one scan of all the
images the receipt has at that step; it replaces fields nobody vouches for and
completes the others) and `GiveUp`. `ScanRefinement` maps `uploaded` and
`scanning` to "waiting", `reviewed_at IS NOT NULL` to `reviewed` and the image
count of `raw_ocr_json` to `seen`. The property is `ScansLookAtomic`.

### Uploads

Every awaited statement and S3 call of `uploadReceipt`, `addImages` and
`deleteReceipt` is an action. Rows inserted by an open transaction are local
to its request; the advisory lock of `lockUserImages` is `lock`. Failures
(`LockFails`, `CallFails`, `RemoveFails`) may strike any call, a failed PUT may
have stored its object, and `Crash` rolls everything back. The last UPDATE of
an attach, which queues the receipt, is one step with its commit. An object key is named after
the image it is generated for, which says only that random keys never collide.
`OrphansAreExplained` says which objects no row names may be left behind when
nothing fails: those of an attach whose receipt was taken by a delete that had
not listed them (the history field `listed` keeps what the SELECT saw), because
the attach committed between the delete's SELECT of the keys and its DELETE or
was refused after it. A key that a delete has listed is removed by it.

### ScanProvider

Seconds are counted in whole numbers, amounts in tenths of a cent so that the
rounding of `toCents` shows. `Delay` is `send`'s backoff with the clamp of
`retry-after`. The items of a result are a function of the positions of the
lines that are kept, which is `parseResponse`'s loop without the recursion.
`OutputsAssumption` says that what parsed has numbers where the schema asks
for them. The prompt, the output schema and base64 are left out. Bounded
by `Durations`, `RetryAfters` and `Outputs`, all CONSTANTS. That an attempt
ends within the timeout it was given (`Durations`) is a promise of Drogon's
client, and only for a positive timeout: `SCAN_TIMEOUT_SECONDS=0` passes the
start-up check and means that an attempt may take for ever, so the module
assumes `Timeout > 0` and says nothing about that setting.

`ReturnsLatestReading` relates what leaves the call to what was read last
(`document`) without the operators that compute it: every amount is the cent
nearest to the printed amount's magnitude, half a cent going up; the lines are
those a receipt of that kind keeps; and it is the rescan's reply if there was
one, else the first.

### Ledger

A transaction is a record of its locals and of the locks it holds: FOR UPDATE
and KEY SHARE of a receipt, FOR UPDATE and FOR SHARE of a category, item rows.
Writes become visible at commit. `PatchRead`/`PatchCheck` are the one
`SELECT ... FOR SHARE OF c`, split between its snapshot and its locks, as are
`CategoryRemove`/`CategoryRemoved` between the DELETE and its ON DELETE SET
NULL. `LockWait` is `readSnapshot` waiting for an item's INSERT: the row is
read again once the lock is granted, the item count stays that of the
statement's snapshot (`sawNone`), which is the staleness of the finding
`scan_item_race`. `Abort` stands for every exit that rolls back, a deadlock Postgres
breaks included. An entry and a scan carry at most one item. The token of a
scan is not modelled here: a scan without it would write nothing, so letting
every scan write is the larger set of behaviours.

`Mixes` chooses which requests run together; `mix` is the choice of a
behaviour and never changes. `KindChangesAlone` says of it that item writes and
changes of a receipt's kind (a PATCH, a scan) do not come together: there
`CategoryFits` holds, which is the property `SidesAgree`, and where they do it
does not (section 4). `Together` has one mix with every item write, one with
every kind change, and one with item INSERTs beside the scans that wait for
them, in which only `ReferencesExist` is claimed.

### AtomicLedger and LedgerRefinement

`AtomicLedger` is what `ItemService.h`, `ReferenceDataService.h`,
`ReceiptService.h` and the two writes of the scan worker promise together, with
no transactions, locks, snapshots or aborts: a request takes effect in one
step, and its conditions are conditions on the tables in that step. An item
suits its receipt (`AddItem`, `Categorize`, `Enter`), an edit suits every item
its receipt has (`Edit`), a category in use does not change sides (`Flip`),
`Verify` gives items to a reviewed receipt that has none, `Extract` replaces
what nobody vouches for. The tables are the same in both modules, so that the
refinement only hides `txn`, `mix` and `requests`; the step of a request is
its commit. The property is `LedgerLooksAtomic`, of the behaviours in which
`KindChangesAlone`; `ledger_kind_race` and `scan_item_race` are why not of
the others. It says more than `SidesAgree`: an extraction that left an item of
its receipt behind, or one that a review overtook, would agree on all sides
and not be a step of the contract.

### ReceiptFields

A row is `EditableReceipt` with the AUD equivalent and whether it is reviewed.
A request body is a record whose keys may be `Absent`; `Merge` is
`applyReceiptPatch`, `DirectionOf` and `Given` its parts, `Complete` and
`ValidRow` are `parseManualEntry` and `validateReceipt`, `Extracted` is the
UPDATE of `writeExtraction`. The locks are FOR UPDATE of the row that is
written and KEY SHARE of a link's target, which the foreign key takes when the
link changes. `CheckTarget` is `validateReferences`, without a lock. The
CHECKs of the schema are *not* guards of the actions: that no write would fail
one is `RowsPassChecks`. Rates are in hundredths and `AudEquivalent` rounds as
`llround` does; an equivalent beyond a BIGINT is not modelled.

What the model shows and no property forbids: an extraction leaves a stale
rate and equivalent behind, so that a row it turned to AUD refuses every PATCH
that does not also clear the rate (which is why `ReviewedRowsSound` holds);
and a link's target may change its kind afterwards, so that a chain, or a
cycle of three, can form.

### Auth and RateLimiter

A request occupies a call, every awaited statement of it is an action. The
transactions of `registerUser` and `confirmPasswordReset` commit in their
destructors (`RegisterCommit`, `ResetCommit`), which may come late, never
(`CommitLost`) or after the request has gone on. `Uncontended` and `Doomed`
are the unique index, the row lock of an account and deleted sessions that
others wait for; an UPDATE that waits goes by the `now()` of its beginning
(`TouchWait`). A token is the number of its drawing, a password a value, an
account its email. A request sends a spelling of an email: the database, whose
`users.email` is CITEXT, takes it for the account `Account[n]`, while the
limiter's key is the string itself. So an account has as many windows as its
email has spellings, and what the limiter bounds is the logins of a peer
address and of a spelling, not those of an account. The limiter check of login and its SELECT are one step (the
first is in memory), as are the SELECT and the INSERT of
`requestPasswordReset` (an account's id never changes). `created`, `swept` and
`admitted` (per limiter key, the times of the logins that were let through, in
order) are history that only properties read. `requests` is what is still to
come: the kinds of requests, the limiter keys they use and how many; `Loads`
are its initial values, a bound of the instance and not of the code. `allow` reads its clock before
it takes the mutex; the model takes both in one step.

## 3. The runs

| Run | Configuration | Bounds | Shows |
|---|---|---|---|
| `scan_budgets` | `ScanBudgets` / `MCScanWorker` | 1 receipt, 2 images, 2 claims, 3 requests, 2 faults | `TypeOK`, `IdleEvidenceIsComplete`, `FailedOnlyWhenBudgetSpent`, `ChargesHoldingClaim`, `LeavesStatsOnlyOnMismatch` when nobody edits, `ScansLookAtomic` |
| `scan_review` | `ScanReview` / `MCScanWorker` | 1 receipt, 1 claim, 3 requests incl. PATCH and items, 2 totals, 2 kinds | `ExtractionKindHasDirection`, `ReviewedFieldsKept`, `ReviewedItemsKept`, `VerdictMatchesEvidence` |
| `scan_recovery` | `ScanRecovery` / `MCScanWorker` | 2 receipts, 1 slot, 1 tick, 3 claims, 2 requests incl. an attach, 1 fault | `QueuedReceiptSettles` through requeues and across receipts |
| `uploads` | `Uploads` / `Uploads` | 2 users, 2 requests, 1 delete, batches of 2, cap 2, 1 fault | `RowsHaveImages`, `BatchAllOrNothing`, `CapHolds`, `ReceiptsHaveImages`, `RowsBelongToOwner`, `OrphansAreExplained`, `UnforcedAddsNoDuplicate`, `EveryRequestEnds`; no deadlock |
| `scan_call` | `ScanCall` / `MCScanProvider` | the program's default timings | `CallFitsReclaimWindow`, `RequestsBounded`, `ReturnsLatestReading`, `FirstScanStands` |
| `ledger` | `Ledger` / `MCLedger` | 1 receipt, 2 categories, 2 items, 3 transactions at a time, 6 requests in one of 3 mixes | `SidesAgree`, `ReferencesExist`, `LedgerLooksAtomic` |
| `receipt_fields` | `ReceiptFields` / `MCReceiptFields` | 2 receipts, 2 transactions at a time, 5 requests | `RowsPassChecks`, `ReviewedRowsSound`, `LinksHold`, `NoMutualOffsets` |
| `auth` | `Auth` / `MCAuth` | 2 emails, one of them registered, 2 requests in flight out of 4, 2 ticks, 1 fault; or 6 logins from 2 addresses under 2 spellings of an email | `SlidingExpiry`, `AnsweredAccountsExist`, `AccountsAreSeeded`, `VerifiedByRegistration`, `ResetEndsOlderSessions`, `LoginBurstBounded`, `EveryCallAnswers` |
| `scan_edit_race`, `scan_item_race`, `scan_cap_race`, `ledger_kind_race` | as named | the smallest instance of each | section 4 |

Why the bounds are enough to be interesting. Two claims of one receipt are
what a late answer, a reclaim and a second scan need; the worker's actions on
different receipts meet only in the count of slots: with one tick the cap is
hard, three ticks are the run `scan_cap_race`, any number the theorem
`ScansBounded`. Two faults let a lost
answer be followed by a crash. Budgets of 2 let a claim fail with a unit to
spare, so that a charge to the wrong claim shows, and the second failure meets
the limit. In `uploads` two requests with batches of two
reach the cap from both sides, and the same image may come twice in a batch,
across requests and across users. In `ledger` every check of the code is
between a pair of transactions; a third may end, abort or hold a lock while
the pair is at it. In `receipt_fields` two receipts are what a link and its
opposite need, and the bodies are those whose keys constrain each other. In
`auth` two calls race for one email, for one account and for one session; a
lifetime of 2 ticks with a touch interval of 1 puts every comparison of times
on both sides; one password suffices because only its presence is compared by
a property, and `MaxTokens = MaxMixed` never stops a call (a request draws
at most one). In its behaviours of logins only the window is 1 tick and the limit 2, so that
the property is about four admissions of one key in a row and two of the six
requests can be ones that are refused: two addresses and two spellings let either
limiter refuse what the other would admit. Symmetry is declared where no
constant of the set is named or ordered (transactions and categories in
`Ledger`, receipts and transactions in `ReceiptFields`) and never in a run
with a liveness property.

The runs of `ScanWorker`, `Uploads` and `ReceiptFields` also check `TypeOK`;
that of `Ledger`, `Auth` and `ScanProvider` is only proved.

Deadlock is checked except in the `Ledger` and `ReceiptFields` configurations,
where a behaviour stops when its `MaxRequests` requests are used up. In
`ScanWorker` there is always a next tick; `Uploads`, `Auth` and `ScanProvider`
have an explicit final step.

**Fairness.** `ScanWorker!FairSpec`: weak fairness of each tick (the timer of
`startScanWorker` fires every `SCAN_POLL_SECONDS` whatever became of earlier
ticks), of `Expire` (time passes) and of ending an item transaction (it awaits
only the database). Nothing is assumed of scans (a provider call may hang for
ever), of users or of faults. `MaxClaims` covers the budgets, the attach and
the fault of the run, so that the bound never stops the queue.
`Uploads!FairSpec` and `Auth!FairSpec`: weak fairness of the steps of each
request in flight, which says that statements and S3 calls return, with an
answer or an error. For statements that is the database client's promise; for
S3 it is an assumption, since the code sets no timeout (see `hazards`).

## 4. Where the code and its documentation part

Four runs refute what a comment or the specification says; each is a small
window, and each is described under `findings`.

* `scan_edit_race`: `spec.md` says a reviewed receipt leaves the stats only
  when a completed scan finds a mismatch. A PATCH with `reviewed: true` stamps
  the `now()` of its BEGIN; if a matching verify scan begins later and commits
  first, `proposed_at` stays ahead and the receipt needs review.
* `scan_item_race`: `writeVerify` fills items "if there are none". Its count
  is a subquery of the SELECT ... FOR UPDATE, which after waiting for an item
  INSERT still counts without it, and both reads agree on 0.
* `scan_cap_race`: the cap is "soft by at most one tick's worth of claims".
  Ticks overlap without limit; three exceed it by two.
* `ledger_kind_race`: "the fit checked here is the fit that's stored" holds
  for the category, which is locked, and not for the receipt's kind, which is
  read without a lock.

## 5. What is proved

`ScanWorkerProofs`, from the assumptions of `ScanWorker` only (finite set of
receipt ids, natural limits, budgets of at least 1), for any number of
receipts, ticks, editors, images, requests, claims and faults:

| Theorem | States |
|---|---|
| `PipelineCorrect` | `Spec => []PipelineInvariant` |
| `TypeCorrect` | `[]TypeOK`, with MAX_IMAGES_PER_RECEIPT |
| `EvidenceComplete` | `[]IdleEvidenceIsComplete` |
| `ChargedOnce` | `ChargesHoldingClaim`, an action property |
| `FailedMeansSpent` | `[]FailedOnlyWhenBudgetSpent` |
| `DirectionNeverEmpty` | `[]ExtractionKindHasDirection` |
| `ReviewedFieldsSafe` | `ReviewedFieldsKept`, an action property |

The argument is one inductive invariant. `IdleEvidenceIsComplete` is not
inductive: a write is safe only because a live scan has listed *all* images of
its row (`LiveScansReadAllImages`), which attaches preserve because they take
the row out of `scanning`, and claims because a claim number not used yet has
no scan (`FutureClaimsUnused`). `FailedOnlyWhenBudgetSpent` needs that the
"no images" failure, with its cap of 0, never meets a live row
(`TerminalOnlyWhenGone`), which rests on queued rows having images
(`QueuedHasImages`). `ExtractionKindHasDirection` needs that a result was
either checked for its kind or belongs to a row reviewed for good
(`ResultKindChecked`, `VerifyingIsReviewed`), the latter because a restamped
`reviewed_at` is never NULL (`WritesAreStamped`). `ChargesHoldingClaim` needs
that a row in `scanning` carries the number of its latest claim
(`HolderIsLatestClaim`): whoever passes the token check is then that claim.
There is one lemma per
action; the steps of `process` that touch no row share `ScanAloneStep`.

Five more theorems of the module are about what a scan and an edit of the same
row may do to each other:

| Theorem | States |
|---|---|
| `StampsCorrect` | `Spec => []StampInvariant` |
| `VerdictSound` | `VerdictMatchesEvidence`, an action property |
| `ReviewedItemsSafe` | `ReviewedItemsKept`, an action property |
| `StatsLeft` | `LeavesStatsOnMismatchOrOldEdit`: a confirmed receipt leaves the stats when a completed scan finds a mismatch, or when an edit commits that began before the last proposal |
| `StatsLeftWithoutEdits` | `LeavesStatsOnlyOnMismatch`, if no request is a PATCH |

The worker compares outside its transaction and writes only if `updated_at` is
still what it compared with. That is sound because a stamp identifies a write:
no stamp is in the future (`StampsArePast`), and the stamp of an edit under
way is on no row, in no snapshot and in no other transaction
(`EditStampsFresh`), so a row whose stamp a live scan finds again is the row
it compared (`ComparedRowStands`). `StatsLeft` is the exact form of the
sentence of `spec.md` that `scan_edit_race` refutes; `StatsLeftWithoutEdits`
is the sentence as it stands, and its hypothesis is that of the run
`scan_budgets`.

`ScanSlotsProofs` adds `ScansBounded`: `[]ScansBoundedByTicks`, however many
ticks overlap. No run checks it: the interesting instances have several ticks
and more receipts than slots, and the theorem is about all of them. Counting alone is not inductive. The invariant is
`SlotsReserved`: there is an injection of the rows in `scanning` into
`Ticks \X (1..Concurrency)` that leaves free what a tick has counted and not
yet claimed; a claim seats its rows by their rank in the tick's snapshot.

`ScanRefinementProofs` proves `ScanWorkerImplementsReceiptScan`:
`Spec => ScansLookAtomic`. It needs `PipelineInvariant` (a write that settles
has seen all images) and that a result being applied came from the provider
(`ResultsAreReal`). Each action of `ScanWorker` is shown to be the action of
`ReceiptScan` it looks like, or to leave phase, images, fields and review as
they are (`Unseen`).

`ScanProviderProofs`, from `TimesAssumption`, `BackoffAssumption` (every
backoff is below the clamp, true of the default two retries) and
`StartupAssumption` (the check `checkedAnthropicConfig` makes before the
server starts):

| Theorem | States |
|---|---|
| `CallFits` | `[]CallFitsReclaimWindow`: the start-up check is sufficient |
| `CallRequestsBounded` | `[]RequestsBounded` |
| `CallTypeCorrect` | `[]TypeOK` |
| `ReadingCorrect` | `[]ReturnsLatestReading`, for every output of the model (`OutputsAssumption`) |
| `FirstResultStands` | `FirstScanStands`, an action property |

Its inductive part is `TimeSpent`: what has elapsed is bounded by a slot of
timeout plus longest backoff per attempt, and a rescan starts after at most
all attempts of the first request and is a single one.

`UploadsProofs`, for any users, receipts, requests, deletes, caps, batches and
faults: `UploadsTypeCorrect`, `ImagesAreThere`, `BatchIsAtomic`, `CapIsKept`,
`UploadedHaveImages`, `OwnersAgree`, `OrphansExplained` and the action
property `NoDuplicateAdded`, from `UploadsCorrect`. Its invariant says per
request what it knows at each statement (`RequestOK`): that it holds its
user's lock while it works, that what it checked under the lock still holds,
that its inserted rows are the first of its batch and their objects are
stored, that an upload's id is unknown to everyone else; and of a delete that
it only knows keys of its own receipt (`DeletesKnow`). `OrphansExplained` adds
that an attach whose receipt is gone lost it to a delete that took it
(`LostToDelete`) and that what a delete has listed it has removed or still has
to (`ListedGo`).

`ReceiptFieldsProofs`, for any receipts, bodies and transactions:
`FieldsTypeCorrect`, `ChecksNeverFail`, `ReviewedSound`, `LinksCorrect`,
`NeverMutual`, from `FieldsCorrect`. `NoMutualOffsets` is the one that needs
thought: it is inductive only with what the KEY SHARE of a transaction about
to commit a link excludes (`LinksHeld`, `LocksExclude`) and with the target of
such a link not pointing back (`LinksOneWay`).

`LedgerProofs`, for any receipts, categories, items and transactions:

| Theorem | States |
|---|---|
| `LedgerCorrect` | `Spec => []LedgerInvariant` |
| `LedgerTypeCorrect` | `[]TypeOK` |
| `ReferencesNeverDangle` | `[]ReferencesExist` |
| `CategoriesFit` | `[]SidesAgree`: `CategoryFits` in every behaviour that does not have both item writes and kind changes (`KindChangesAlone`) |
| `LedgerIsAtomic` | `Spec => LedgerLooksAtomic`, of the same behaviours |

`LedgerInvariant` has, per transaction, how far it is (`Stage`) and what its
locks keep true of the tables (`Held`: a locked receipt exists, a shared
category exists and is on the side it was checked for), and per pair what one
keeps from the other (`Apart`). `CategoriesFit` adds what each transaction has
established of the rows it is about to write (`Established`): an item write
that its receipt has the kind it read, a PATCH that it shares every category
its items are in, a scan that it keeps the kind or has wiped the items, a flip
that no item uses the category. That kind changes come alone is used only for the first of
these, and `ledger_kind_race` shows that it cannot be dropped.

`LedgerIsAtomic` needs one more inductive invariant, `AllChosen`: no scan goes
by a stale item count (where kind changes come alone no item INSERT is there
to wait for, `LockNeverWaits`), and a scan that
is past its decision either keeps a reviewed receipt's kind and inserts an item
only where there is none (`Keeps`), or has locked the items of an unreviewed
receipt and no others (`Replaces`). It is preserved because a commit leaves the
row and the set of items of a receipt that another transaction has locked as
they are (`Steady`), and because removals wait for locked items. Each commit
is then shown to be the action of `AtomicLedger` it looks like, or to change
nothing (an update of an item that is gone, a verify scan of a receipt that
has items), and every other step to leave the tables alone.

`AuthProofs`, for any accounts, calls, lifetimes and faults:
`AuthTypeCorrect`, `ExpirySlides`, `AnsweredExist`, `Seeded`, `Verified`,
`ResetEnds`, from `AuthCorrect`, and `LoginBurst`. Its invariant says what each call knows at
its statement and how far its transaction is (`CallKnows`,
`TransactionKnows`), that two calls never register one email at once
(`OneRegistration`), and that a reset about to commit deletes every session
opened before its DELETE (`SweepIsComplete`).

`LoginBurst` is about every key of the limiter (a peer address, a spelling of
an email), for every limit and window. The counter of a
window cannot be related to the number of admissions in it, because an attempt
the other limiter refuses is charged too; what holds is an upper bound on how
recent an admission is. `Spread` says, counting back from the last: the
admission as many places back as the window has charges is no later than the
window's start, and the one `MaxAttempts` places further back is more than a
window's length before it (two windows start more than a window apart).
`Apart`, which is the property, follows for every pair that an admission
completes.

Only model-checked: liveness (`QueuedReceiptSettles`, `EveryRequestEnds`,
`EveryCallAnswers`), since fairness and ENABLED are outside the prover; and
the four violations of section 4, which are counterexamples.

## 6. What is not modelled

* Tags and payment methods (references like the category of an item, without
  the rule that relates it to a kind), and the stats views, which only read.
* Merchant, date and note in `ReceiptFields`: no rule relates them.
* Parsing and formatting (`JsonInput`, controllers, prompts, base64), image
  decoding, request signing, hashing: pure functions of their input.
* The notifier (a no-op), recurring transactions (no code yet), start-up and
  configuration (the limits are the CONSTANTS).
* What a client of an upload was told: a 201 whose commit is then lost is a
  state of `Uploads`, but the answer is not part of it. (`Auth` has it, as
  `created`.)

## 7. Plan

Done: the modules of section 2, their runs and proofs. What would come next,
in this order:

1. The stats views as operators over `Ledger` and `ReceiptFields`, with the
   signed totals checked against a reference sum.
2. Tag sets of items, and payment methods with their deletes.
3. What a client of an upload was told, as history next to `Uploads`.
