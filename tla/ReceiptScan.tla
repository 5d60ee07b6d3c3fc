---------------------------- MODULE ReceiptScan ----------------------------
(***************************************************************************)
(* What the scan pipeline promises its users, as ReceiptService.h and      *)
(* ScanWorker.h state it: a receipt waits, then one scan of all its images *)
(* settles it in a single step, or it is given up.  There are no claims,   *)
(* ticks, retries, transactions or crashes here; ScanWorker has them and   *)
(* is shown to implement this.                                             *)
(***************************************************************************)
EXTENDS Naturals

CONSTANTS
    Receipts,
    MaxImages,   \* the per-receipt cap
    Entries,     \* what users enter: records with kind, total, merchant
    Results,     \* what a scan reads off the images
    Scannable(_),\* the kinds a document may be classified as
    Blank,       \* the provisional row of an upload
    NULL

VARIABLES
    phase,       \* "none", "waiting", "resting", "failed" or "deleted"
    images,      \* how many images the receipt has
    seen,        \* how many of them the result it carries was read from
    doc,         \* its fields
    reviewed     \* whether a user vouches for them

vars == <<phase, images, seen, doc, reviewed>>

There(r) == phase[r] \in {"waiting", "resting", "failed"}

Init ==
    /\ phase = [r \in Receipts |-> "none"]
    /\ images = [r \in Receipts |-> 0]
    /\ seen = [r \in Receipts |-> 0]
    /\ doc = [r \in Receipts |-> Blank]
    /\ reviewed = [r \in Receipts |-> FALSE]

(* POST /receipts: a receipt with images waits for its scan. *)
Upload(r) ==
    /\ phase[r] = "none"
    /\ phase' = [phase EXCEPT ![r] = "waiting"]
    /\ \E n \in 1..MaxImages : images' = [images EXCEPT ![r] = n]
    /\ UNCHANGED <<seen, doc, reviewed>>

(* POST /receipts/manual: a receipt without images, born reviewed. *)
Enter(r) ==
    /\ phase[r] = "none"
    /\ phase' = [phase EXCEPT ![r] = "resting"]
    /\ \E entry \in Entries : doc' = [doc EXCEPT ![r] = entry]
    /\ reviewed' = [reviewed EXCEPT ![r] = TRUE]
    /\ UNCHANGED <<images, seen>>

(* POST /receipts/:id/images: whatever it did before, it waits again. *)
Attach(r) ==
    /\ There(r)
    /\ images[r] < MaxImages
    /\ phase' = [phase EXCEPT ![r] = "waiting"]
    /\ images' = [images EXCEPT ![r] = @ + 1]
    /\ UNCHANGED <<seen, doc, reviewed>>

(* PATCH: fields change; "reviewed": true vouches for them for good. *)
Edit(r) ==
    /\ There(r)
    /\ \E entry \in Entries : doc' = [doc EXCEPT ![r] = entry]
    /\ \/ reviewed' = [reviewed EXCEPT ![r] = TRUE]
       \/ UNCHANGED reviewed
    /\ UNCHANGED <<phase, images, seen>>

(* Only what the user left empty is filled in. *)
Fill(row, result) == [row EXCEPT !.merchant = IF @ = NULL THEN result.merchant ELSE @]

(* One scan of all the images: it replaces the fields nobody vouches for,  *)
(* and completes the others.                                               *)
Settle(r) ==
    /\ phase[r] = "waiting"
    /\ images[r] > 0
    /\ \E result \in Results :
           doc' = [doc EXCEPT ![r] = IF reviewed[r] THEN Fill(@, result) ELSE result]
    /\ ~reviewed[r] => Scannable(doc'[r].kind)
    /\ phase' = [phase EXCEPT ![r] = "resting"]
    /\ seen' = [seen EXCEPT ![r] = images[r]]
    /\ UNCHANGED <<images, reviewed>>

(* The budgets of some waiting receipts are spent. *)
GiveUp(gone) ==
    /\ \A r \in gone : phase[r] = "waiting"
    /\ phase' = [r \in Receipts |-> IF r \in gone THEN "failed" ELSE phase[r]]
    /\ UNCHANGED <<images, seen, doc, reviewed>>

(* POST /receipts/:id/retry-scan. *)
Retry(r) ==
    /\ phase[r] = "failed"
    /\ phase' = [phase EXCEPT ![r] = "waiting"]
    /\ UNCHANGED <<images, seen, doc, reviewed>>

(* DELETE /receipts/:id: the images and the result go with it. *)
Delete(r) ==
    /\ There(r)
    /\ phase' = [phase EXCEPT ![r] = "deleted"]
    /\ images' = [images EXCEPT ![r] = 0]
    /\ seen' = [seen EXCEPT ![r] = 0]
    /\ UNCHANGED <<doc, reviewed>>

Next ==
    \/ \E r \in Receipts :
           Upload(r) \/ Enter(r) \/ Attach(r) \/ Edit(r) \/ Settle(r) \/ Retry(r) \/ Delete(r)
    \/ \E gone \in SUBSET Receipts : GiveUp(gone)

Spec == Init /\ [][Next]_vars

=============================================================================
