------------------------------- MODULE Uploads -------------------------------
(***************************************************************************)
(* How images get into and out of the system: uploadReceipt, addImages and *)
(* deleteReceipt of src/receipts/ReceiptService.cpp, which write Postgres  *)
(* rows and S3 objects that no transaction joins.                          *)
(*                                                                         *)
(* A request is a coroutine: every step below is one awaited statement or  *)
(* S3 call.  Rows a request inserted are its own until it commits; a       *)
(* per-user advisory lock serialises the requests of one user.             *)
(***************************************************************************)
EXTENDS Naturals, Sequences, FiniteSets

CONSTANTS
    Users,
    Receipts,    \* receipt ids, allocated once
    Manual,      \* receipts that exist without an image: manual entries
    Requests,    \* POST /receipts and POST /receipts/:id/images requests
    Deleters,    \* DELETE /receipts/:id requests
    Shas,        \* hashes of normalized images
    MaxImages,   \* MAX_IMAGES_PER_RECEIPT
    MaxBatch,    \* bound: images in one request
    MaxFaults,   \* bound: failed S3 or database calls, lost commits, crashes
    Nobody       \* no user, no request

ASSUME UploadsAssumption ==
    /\ MaxImages \in Nat \ {0}
    /\ MaxBatch \in Nat \ {0}
    /\ MaxFaults \in Nat
    /\ Nobody \notin Users \cup Requests \cup Receipts
    /\ Receipts \subseteq Nat
    /\ Manual \subseteq Receipts

VARIABLES
    owner,     \* user_id of a committed receipts row, Nobody if there is none
    used,      \* receipt ids drawn from the sequence so far
    rows,      \* committed receipt_images rows
    store,     \* keys of the S3 objects
    lock,      \* who holds the advisory lock of a user
    req,       \* the upload and attach coroutines
    del,       \* the delete coroutines
    faults

vars == <<owner, used, rows, store, lock, req, del, faults>>

Batches == UNION {[1..n -> Shas] : n \in 1..MaxBatch}

(* generateImageKey draws a fresh random key; it is named after the image  *)
(* it was drawn for.                                                       *)
Keys == Requests \X (1..MaxBatch)
Rows == [receipt : Receipts, user : Users, key : Keys, sha : Shas]

NoRequest ==
    [pc |-> "idle", user |-> Nobody, receipt |-> Nobody, upload |-> FALSE, batch |-> <<>>,
     force |-> FALSE, inserted |-> {}]

(* A delete: the keys it has still to remove and, as history, those that   *)
(* its SELECT could see.                                                   *)
NoDelete == [pc |-> "idle", receipt |-> Nobody, keys |-> {}, listed |-> {}]

-----------------------------------------------------------------------------
RowsOf(r) == {row \in rows : row.receipt = r}
ShasOf(batch) == {batch[i] : i \in DOMAIN batch}

(* The image the request stores next, and whether it has stored them all. *)
NextImage(q) == Cardinality(req[q].inserted) + 1
AllStored(q) == Cardinality(req[q].inserted) = Len(req[q].batch)

Fault == faults < MaxFaults /\ faults' = faults + 1

(* An uncommitted image INSERT locks its receipt against DELETE. *)
Locked(r) == \E q \in Requests : \E row \in req[q].inserted : row.receipt = r

(* The coroutine moves on; nothing else changes. *)
Moves(q, pc) ==
    /\ req' = [req EXCEPT ![q].pc = pc]
    /\ UNCHANGED <<owner, used, rows, store, lock, del, faults>>

(* The transaction ends: the advisory lock goes and the request is over. *)
Ends(q) ==
    /\ lock' = [lock EXCEPT ![req[q].user] = Nobody]
    /\ req' = [req EXCEPT ![q].pc = "done", ![q].inserted = {}]

-----------------------------------------------------------------------------
(* uploadReceipt up to its transaction: the batch fits the cap by itself   *)
(* and every image decodes (otherwise the request ends and nothing is      *)
(* written).                                                               *)
StartUpload(q) ==
    /\ req[q] = NoRequest
    /\ \E u \in Users, batch \in Batches, force \in BOOLEAN :
           /\ Len(batch) <= MaxImages
           /\ req' = [req EXCEPT ![q] =
                  [NoRequest EXCEPT !.pc = "locking", !.user = u, !.upload = TRUE,
                                    !.batch = batch, !.force = force]]
    /\ UNCHANGED <<owner, used, rows, store, lock, del, faults>>

(* addImages up to its transaction: the receipt is the user's at this      *)
(* moment.                                                                 *)
StartAdd(q) ==
    /\ req[q] = NoRequest
    /\ \E r \in Receipts, batch \in Batches, force \in BOOLEAN :
           /\ owner[r] # Nobody
           /\ req' = [req EXCEPT ![q] =
                  [NoRequest EXCEPT !.pc = "locking", !.user = owner[r], !.receipt = r,
                                    !.batch = batch, !.force = force]]
    /\ UNCHANGED <<owner, used, rows, store, lock, del, faults>>

(* lockUserImages. *)
MutantLockFreeAlways(u) == u \in Users
LockFree(u) == lock[u] = Nobody

Lock(q) ==
    /\ req[q].pc = "locking"
    /\ LockFree(req[q].user)
    /\ lock' = [lock EXCEPT ![req[q].user] = q]
    /\ req' = [req EXCEPT ![q].pc = IF req[q].upload THEN "conflict" ELSE "cap"]
    /\ UNCHANGED <<owner, used, rows, store, del, faults>>

(* The statement that waits for the lock fails: nothing was written. *)
LockFails(q) ==
    /\ Fault
    /\ req[q].pc = "locking"
    /\ req' = [req EXCEPT ![q].pc = "done"]
    /\ UNCHANGED <<owner, used, rows, store, lock, del>>

(* Rolled back: what was inserted is gone, the S3 objects stay.            *)
(* A transaction that is not rolled back commits in its destructor.        *)
MutantRollbackNot(q) ==
    /\ rows' = rows \cup req[q].inserted
    /\ owner' = IF req[q].upload /\ req[q].receipt # Nobody
                THEN [owner EXCEPT ![req[q].receipt] = req[q].user] ELSE owner
    /\ Ends(q)
Rollback(q) ==
    /\ Ends(q)
    /\ UNCHANGED <<owner, rows>>

(* addImages counts the receipt's images under the lock. *)
MutantWithinCapOffByOne(q) == Cardinality(RowsOf(req[q].receipt)) < MaxImages
WithinCap(q) == Cardinality(RowsOf(req[q].receipt)) + Len(req[q].batch) <= MaxImages

CountImages(q) == req[q].pc = "cap" /\ WithinCap(q) /\ Moves(q, "conflict")

TooManyImages(q) ==
    /\ req[q].pc = "cap"
    /\ ~WithinCap(q)
    /\ Rollback(q)
    /\ UNCHANGED <<used, store, del, faults>>

(* findConflict: an image of the batch is already the user's. *)
Conflict(q) ==
    \E row \in rows : row.user = req[q].user /\ row.sha \in ShasOf(req[q].batch)

MutantNoConflictNoReceipt(q) ==
    /\ req[q].pc = "conflict"
    /\ req[q].force \/ ~Conflict(q)
    /\ Moves(q, "put")
NoConflict(q) ==
    /\ req[q].pc = "conflict"
    /\ req[q].force \/ ~Conflict(q)
    /\ Moves(q, IF req[q].upload THEN "receipt" ELSE "put")

ConflictFound(q) ==
    /\ req[q].pc = "conflict"
    /\ ~req[q].force
    /\ Conflict(q)
    /\ Rollback(q)
    /\ UNCHANGED <<used, store, del, faults>>

(* uploadReceipt inserts its receipts row; the sequence never goes back. *)
InsertReceipt(q) ==
    /\ req[q].pc = "receipt"
    /\ \E r \in Receipts \ used :
           /\ \A s \in Receipts \ used : r <= s
           /\ used' = used \cup {r}
           /\ req' = [req EXCEPT ![q].pc = "put", ![q].receipt = r]
    /\ UNCHANGED <<owner, rows, store, lock, del, faults>>

(* storeImages: the S3 PUT of the next image, before the row that names it. *)
PutImage(q) ==
    /\ req[q].pc = "put"
    /\ ~AllStored(q)
    /\ store' = store \cup {<<q, NextImage(q)>>}
    /\ req' = [req EXCEPT ![q].pc = "insert"]
    /\ UNCHANGED <<owner, used, rows, lock, del, faults>>

(* The INSERT's foreign key needs the receipt: the request's own, or one   *)
(* that nobody has deleted meanwhile.                                      *)
MutantReceiptThereAlways(q) == req[q].receipt \in used
ReceiptThere(q) == req[q].upload \/ owner[req[q].receipt] # Nobody

InsertImage(q) ==
    /\ req[q].pc = "insert"
    /\ ReceiptThere(q)
    /\ req' = [req EXCEPT
           ![q].pc = "put",
           ![q].inserted = @ \cup {[receipt |-> req[q].receipt, user |-> req[q].user,
                                    key |-> <<q, NextImage(q)>>,
                                    sha |-> req[q].batch[NextImage(q)]]}]
    /\ UNCHANGED <<owner, used, rows, store, lock, del, faults>>

MutantInsertRefusedRetries(q) == req[q].pc = "insert" /\ ~ReceiptThere(q) /\ Moves(q, "put")
InsertRefused(q) ==
    /\ req[q].pc = "insert"
    /\ ~ReceiptThere(q)
    /\ Rollback(q)
    /\ UNCHANGED <<used, store, del, faults>>

(* The transaction commits; addImages has queued the receipt in it. *)
Commit(q) ==
    /\ req[q].pc = "put"
    /\ AllStored(q)
    /\ rows' = rows \cup req[q].inserted
    /\ owner' = IF req[q].upload THEN [owner EXCEPT ![req[q].receipt] = req[q].user] ELSE owner
    /\ Ends(q)
    /\ UNCHANGED <<used, store, del, faults>>

(* A call fails, or the commit is lost in the destructor.  A PUT that      *)
(* failed may have stored its object all the same.                         *)
CallFails(q) ==
    /\ Fault
    /\ req[q].pc \in {"cap", "conflict", "receipt", "put", "insert"}
    /\ store' \in {store} \cup
           (IF req[q].pc = "put" /\ ~AllStored(q) THEN {store \cup {<<q, NextImage(q)>>}} ELSE {})
    /\ Rollback(q)
    /\ UNCHANGED <<used, del>>

-----------------------------------------------------------------------------
(* The keys of the receipt's images. *)
MutantKeysOfFirst(r) == {row.key : row \in {first \in RowsOf(r) : first.key[2] = 1}}
KeysOf(r) == {row.key : row \in RowsOf(r)}

(* deleteReceipt: the keys are read first... *)
DeleteList(d, r) ==
    /\ del[d] = NoDelete
    /\ owner[r] # Nobody
    /\ del' = [del EXCEPT ![d] = [pc |-> "listed", receipt |-> r, keys |-> KeysOf(r),
                                  listed |-> {row.key : row \in RowsOf(r)}]]
    /\ UNCHANGED <<owner, used, rows, store, lock, req, faults>>

(* ... then the row goes, with its images by cascade (or is gone already)... *)
DeleteRow(d) ==
    LET r == del[d].receipt IN
    /\ del[d].pc = "listed"
    /\ ~Locked(r)
    /\ owner' = [owner EXCEPT ![r] = Nobody]
    /\ rows' = rows \ RowsOf(r)
    /\ del' = [del EXCEPT ![d].pc = IF owner[r] = Nobody THEN "done" ELSE "deleted"]
    /\ UNCHANGED <<used, store, lock, req, faults>>

(* ... and only then the objects, one by one.                              *)
MutantRemovableEarly(d) == del[d].pc \in {"listed", "deleted"}
Removable(d) == del[d].pc = "deleted"

RemoveObject(d) ==
    /\ Removable(d)
    /\ \E key \in del[d].keys :
           /\ store' = store \ {key}
           /\ del' = [del EXCEPT ![d].keys = @ \ {key}]
    /\ UNCHANGED <<owner, used, rows, lock, req, faults>>

(* A failed removal is logged, and the object lingers. *)
RemoveFails(d) ==
    /\ Fault
    /\ Removable(d)
    /\ \E key \in del[d].keys : del' = [del EXCEPT ![d].keys = @ \ {key}]
    /\ UNCHANGED <<owner, used, rows, store, lock, req>>

(* The process dies: open transactions roll back, locks go. *)
Crash ==
    /\ Fault
    /\ lock' = [u \in Users |-> Nobody]
    /\ req' = [q \in Requests |->
           IF req[q].pc = "idle" THEN req[q] ELSE [req[q] EXCEPT !.pc = "done", !.inserted = {}]]
    /\ del' = [d \in Deleters |-> IF del[d].pc = "idle" THEN del[d] ELSE [del[d] EXCEPT !.pc = "done"]]
    /\ UNCHANGED <<owner, used, rows, store>>

-----------------------------------------------------------------------------
Init ==
    /\ \E u \in Users : owner = [r \in Receipts |-> IF r \in Manual THEN u ELSE Nobody]
    /\ used = Manual
    /\ rows = {}
    /\ store = {}
    /\ lock = [u \in Users |-> Nobody]
    /\ req = [q \in Requests |-> NoRequest]
    /\ del = [d \in Deleters |-> NoDelete]
    /\ faults = 0

RequestStep(q) ==
    \/ Lock(q) \/ CountImages(q) \/ TooManyImages(q) \/ NoConflict(q) \/ ConflictFound(q)
    \/ InsertReceipt(q) \/ PutImage(q) \/ InsertImage(q) \/ InsertRefused(q) \/ Commit(q)

DeleteStep(d) == DeleteRow(d) \/ RemoveObject(d)

Removed(d) == del[d].pc = "done" \/ (del[d].pc = "deleted" /\ del[d].keys = {})

(* Every request was answered. *)
Finished ==
    /\ \A q \in Requests : req[q].pc = "done"
    /\ \A d \in Deleters : del[d].pc = "idle" \/ Removed(d)
    /\ UNCHANGED vars

Next ==
    \/ \E q \in Requests : StartUpload(q) \/ StartAdd(q) \/ RequestStep(q) \/ LockFails(q) \/ CallFails(q)
    \/ \E d \in Deleters : (\E r \in Receipts : DeleteList(d, r)) \/ DeleteStep(d) \/ RemoveFails(d)
    \/ Crash
    \/ Finished

Spec == Init /\ [][Next]_vars

(* Statements and S3 calls return, one way or the other; users owe nothing. *)
Fairness ==
    /\ \A q \in Requests : WF_vars(RequestStep(q))
    /\ \A d \in Deleters : WF_vars(DeleteStep(d))

FairSpec == Spec /\ Fairness

-----------------------------------------------------------------------------
(* Properties.                                                             *)

RequestLocals ==
    [pc : {"idle", "locking", "cap", "conflict", "receipt", "put", "insert", "done"},
     user : Users \cup {Nobody}, receipt : Receipts \cup {Nobody}, upload : BOOLEAN,
     batch : Batches \cup {<<>>}, force : BOOLEAN, inserted : SUBSET Rows]
DeleteLocals ==
    [pc : {"idle", "listed", "deleted", "done"}, receipt : Receipts \cup {Nobody}, keys : SUBSET Keys,
     listed : SUBSET Keys]

(* The domain of the tables and locals: an image row names a receipt, its  *)
(* user and a key drawn for it.                                            *)
TypeOK ==
    /\ owner \in [Receipts -> Users \cup {Nobody}]
    /\ used \subseteq Receipts
    /\ rows \subseteq Rows
    /\ store \subseteq Keys
    /\ lock \in [Users -> Requests \cup {Nobody}]
    /\ req \in [Requests -> RequestLocals]
    /\ del \in [Deleters -> DeleteLocals]
    /\ faults \in 0..MaxFaults

(* A row never points at an image that is not in S3, through failures,     *)
(* lost commits, crashes and deletes that race an attach (storeImages:     *)
(* "never a DB row pointing at an image that was never written").          *)
RowsHaveImages == \A row \in rows : row.key \in store

(* A batch is written whole or not at all: no receipt is committed with    *)
(* some of the images of a request (the explicit rollbacks against the     *)
(* committing destructor).                                                 *)
BatchAllOrNothing ==
    \A q \in Requests :
        LET written == {row \in rows : row.key[1] = q} IN
        written # {} => Cardinality(written) = Len(req[q].batch)

(* No receipt exceeds MAX_IMAGES_PER_RECEIPT, whichever attaches race.     *)
CapHolds == \A r \in Receipts : Cardinality(RowsOf(r)) <= MaxImages

(* A receipt born of an upload has images as long as it exists, which the  *)
(* scan worker relies on when it treats "no images" as terminal.           *)
ReceiptsHaveImages == \A r \in Receipts \ Manual : owner[r] # Nobody => RowsOf(r) # {}

(* An image row belongs to the owner of its receipt, which still exists:   *)
(* an attach that loses to a delete leaves nothing behind in the table.    *)
RowsBelongToOwner == \A row \in rows : owner[row.receipt] = row.user

(* S3 does not fill up with objects nobody knows: without failed calls an  *)
(* object that no row names is still being stored by its request or        *)
(* removed by its delete, or it came with an attach that lost its receipt  *)
(* to a delete whose SELECT of the keys was too early to see it: the       *)
(* attach committed between the SELECT and the DELETE, or not at all (the  *)
(* one leak of deleteReceipt).                                             *)
OrphansAreExplained ==
    faults = 0 =>
        \A key \in store :
            \/ \E row \in rows : row.key = key
            \/ req[key[1]].pc \in {"put", "insert"}
            \/ \E d \in Deleters : del[d].pc = "deleted" /\ key \in del[d].keys
            \/ /\ ~req[key[1]].upload
               /\ \E d \in Deleters :
                      /\ del[d].pc = "deleted"
                      /\ del[d].receipt = req[key[1]].receipt
                      /\ key \notin del[d].listed

(* A double-tap is caught: an unforced request never adds an image the     *)
(* user already had from another request, even when both checked before    *)
(* either committed (the advisory lock of lockUserImages).                 *)
UnforcedAddsNoDuplicate ==
    [][\A new \in rows' \ rows, old \in rows :
           /\ new.user = old.user
           /\ new.sha = old.sha
           /\ new.key[1] # old.key[1]
           => req[new.key[1]].force]_vars

(* Every upload, attach and delete ends: the advisory lock of a user, held *)
(* across the PUTs of a batch, is given back on every path out of its      *)
(* transaction, and a delete that waits for the row lock of an attach, as  *)
(* an attach that lost its receipt to a delete, goes on.                   *)
EveryRequestEnds ==
    /\ \A q \in Requests : req[q].pc = "locking" ~> req[q].pc = "done"
    /\ \A d \in Deleters : del[d].pc = "listed" ~> Removed(d)

=============================================================================
