---------------------------- MODULE ReceiptFields ----------------------------
(***************************************************************************)
(* The fields of a receipts row that constrain each other - kind and       *)
(* direction, tax_deductible, currency with its AUD rate and equivalent,   *)
(* the link to the receipt it offsets - under everything that writes them: *)
(* uploads, manual entries, edits, deletes and the extraction of a scan.   *)
(*                                                                         *)
(* The rules are enforced when a request is parsed (LedgerInput), when its *)
(* references are looked up (validateReferences, without locks) and, for a *)
(* scan, by what writeExtraction reconciles.  The CHECKs of the database   *)
(* are not part of the actions: that no write would fail one is a property *)
(* below.                                                                  *)
(***************************************************************************)
EXTENDS Naturals, Kinds

CONSTANTS
    Receipts,      \* ids
    Writers,       \* transactions that may be open at once
    Totals,        \* amounts, in cents
    Rates,         \* exchange rates to AUD, in hundredths
    ResultKinds,   \* kinds the scan provider answers with
    Bodies,        \* request bodies that come
    NULL,
    Absent,        \* the value of a key that a body does not have
    MaxRequests    \* bound: requests of a behaviour

Currencies == {"AUD", "USD"}

(* The bodies parseManualEntry and applyReceiptPatch know. *)
Body ==
    [kind : KnownKinds \cup {Absent}, direction : Directions \cup {Absent},
     total : Totals \cup {Absent}, currency : Currencies \cup {Absent},
     rate : Rates \cup {NULL, Absent}, tax : BOOLEAN \cup {Absent},
     offsets : Receipts \cup {NULL, Absent}]

ASSUME FieldsAssumption ==
    /\ Totals \subseteq Nat
    /\ 0 \in Totals
    /\ Rates \subseteq Nat \ {0}
    /\ Bodies \subseteq Body
    /\ MaxRequests \in Nat

ASSUME NamesAssumption ==
    /\ NULL \notin Receipts /\ NULL \notin Nat /\ NULL # Absent
    /\ Absent \notin Receipts /\ Absent \notin Nat /\ Absent \notin BOOLEAN
    /\ Absent \notin KnownKinds \cup Directions \cup Currencies

VARIABLES
    row,        \* the receipts rows; an id that is not in use has kind "none"
    txn,        \* open transactions: their locals and the locks they hold
    requests

vars == <<row, txn, requests>>

(* EditableReceipt, with its defaults, and what is stored beside it. *)
BlankRow ==
    [kind |-> DefaultKind, direction |-> "outflow", total |-> 0, currency |-> "AUD", rate |-> NULL,
     equivalent |-> NULL, tax |-> FALSE, offsets |-> NULL, reviewed |-> FALSE]
NoRow == [BlankRow EXCEPT !.kind = "none"]

NoTxn == [pc |-> "idle", op |-> "none", receipt |-> NULL, new |-> NoRow, share |-> NULL]

Exists(r) == row[r].kind # "none"

-----------------------------------------------------------------------------
(* LedgerInput: bodies to rows, and the rules that need no database.       *)

(* setIfPresent. *)
Given(new, old) == IF new = Absent THEN old ELSE new

(* The direction of a body: the one it gives, else the one its kind        *)
(* derives, else the row's.                                                *)
MutantDirectionOfKind(body, old) ==
    IF body.direction # Absent THEN body.direction
    ELSE IF body.kind # Absent THEN RulesFor(body.kind).canonicalDirection ELSE old
DirectionOf(body, old) ==
    LET canonical == RulesFor(body.kind).canonicalDirection IN
    IF body.direction # Absent THEN body.direction
    ELSE IF body.kind # Absent /\ canonical # AnyDirection THEN canonical
    ELSE old

(* audEquivalentCents: llround(total * rate). *)
AudEquivalent(total, rate) == IF rate = NULL THEN NULL ELSE (2 * total * rate + 100) \div 200

(* applyReceiptPatch, and the recomputation that goes with the write. *)
MutantMergeKeepsEquivalent(old, body) ==
    [old EXCEPT !.kind = Given(body.kind, @), !.direction = DirectionOf(body, @),
                !.total = Given(body.total, @), !.currency = Given(body.currency, @),
                !.rate = Given(body.rate, @), !.tax = Given(body.tax, @),
                !.offsets = Given(body.offsets, @)]
Merge(old, body) ==
    LET total == Given(body.total, old.total)
        rate == Given(body.rate, old.rate) IN
    [old EXCEPT !.kind = Given(body.kind, @), !.direction = DirectionOf(body, @),
                !.total = total, !.currency = Given(body.currency, @), !.rate = rate,
                !.equivalent = AudEquivalent(total, rate), !.tax = Given(body.tax, @),
                !.offsets = Given(body.offsets, @)]

(* parseManualEntry: a total is required, and a direction where the kind   *)
(* has none.                                                               *)
Complete(body) ==
    /\ body.total # Absent
    /\ body.direction # Absent \/
           RulesFor(Given(body.kind, DefaultKind)).canonicalDirection # AnyDirection

(* validateReceipt. *)
ValidRow(r) ==
    LET rules == RulesFor(r.kind) IN
    /\ rules.canonicalDirection \in {AnyDirection, r.direction}
    /\ r.tax => rules.allowsTaxDeductible
    /\ r.offsets # NULL => rules.canOffset
    /\ r.rate # NULL => r.currency # "AUD"

-----------------------------------------------------------------------------
(* Row locks: FOR UPDATE of the receipt that a request writes, KEY SHARE   *)
(* of the receipt that a new link points at.                               *)
Locks(w, r) == txn[w].op \in {"patch", "scan", "delete"} /\ txn[w].receipt = r
Free(w, r) == \A v \in Writers \ {w} : ~Locks(v, r) /\ txn[v].share # r
MutantShareableUnlessDeleted(w, r) ==
    \A v \in Writers \ {w} : txn[v].op = "delete" => ~Locks(v, r)
Shareable(w, r) == \A v \in Writers \ {w} : ~Locks(v, r)

Arrives(w) ==
    /\ txn[w] = NoTxn
    /\ requests < MaxRequests
    /\ requests' = requests + 1

Begin(w, op, r, new, pc) ==
    /\ Arrives(w)
    /\ txn' = [txn EXCEPT ![w] = [pc |-> pc, op |-> op, receipt |-> r, new |-> new, share |-> NULL]]
    /\ UNCHANGED row

Moves(w, locals) ==
    /\ txn' = [txn EXCEPT ![w] = locals]
    /\ UNCHANGED <<row, requests>>

(* A serial id: no row has it and nobody has heard of it. *)
FreshId(r) ==
    /\ ~Exists(r)
    /\ \A v \in Writers : txn[v].receipt # r /\ txn[v].new.offsets # r

(* The pc before the references are checked: without a link there is       *)
(* nothing to look up.                                                     *)
FirstPc(new) == IF new.offsets = NULL THEN "store" ELSE "check"

(* uploadReceipt: the provisional row. *)
Upload(w, r) ==
    /\ Arrives(w)
    /\ FreshId(r)
    /\ row' = [row EXCEPT ![r] = BlankRow]
    /\ UNCHANGED txn

(* createManual: born reviewed. *)
CreateManual(w, r, body) ==
    LET new == [Merge(BlankRow, body) EXCEPT !.reviewed = TRUE] IN
    /\ FreshId(r)
    /\ Complete(body)
    /\ ValidRow(new)
    /\ Begin(w, "manual", r, new, FirstPc(new))

(* updateReceipt: the row FOR UPDATE, the patch applied to it. *)
PatchLock(w, r, body, mark) ==
    LET new == [Merge(row[r], body) EXCEPT !.reviewed = @ \/ mark] IN
    /\ Exists(r)
    /\ Free(w, r)
    /\ ValidRow(new)
    /\ Begin(w, "patch", r, new, FirstPc(new))

(* validateReferences: the kind of the target, read without a lock. *)
TargetFits(w) ==
    LET target == txn[w].new.offsets IN
    /\ target # txn[w].receipt
    /\ Exists(target)
    /\ RulesFor(row[target].kind).isOffsetTarget

CheckTarget(w) ==
    /\ txn[w].pc = "check"
    /\ TargetFits(w)
    /\ Moves(w, [txn[w] EXCEPT !.pc = "store"])

(* The INSERT or the UPDATE.  A link that changes takes KEY SHARE of its   *)
(* target, which must still exist.                                         *)
Store(w) ==
    LET t == txn[w]
        linked == t.new.offsets # NULL /\ t.new.offsets # row[t.receipt].offsets IN
    /\ t.pc = "store"
    /\ linked => Exists(t.new.offsets) /\ Shareable(w, t.new.offsets)
    /\ Moves(w, [t EXCEPT !.pc = "commit", !.share = IF linked THEN t.new.offsets ELSE NULL])

Commit(w) ==
    /\ txn[w].pc = "commit"
    /\ row' = [row EXCEPT ![txn[w].receipt] = txn[w].new]
    /\ txn' = [txn EXCEPT ![w] = NoTxn]
    /\ UNCHANGED requests

(* deleteReceipt: the DELETE waits for every lock of the row... *)
DeleteLock(w, r) ==
    /\ Exists(r)
    /\ Free(w, r)
    /\ Begin(w, "delete", r, NoRow, "unlink")

(* ... and ON DELETE SET NULL for the locks of the rows that point at it. *)
Unlink(w) ==
    LET r == txn[w].receipt IN
    /\ txn[w].pc = "unlink"
    /\ \A q \in Receipts : row[q].offsets = r => Shareable(w, q)
    /\ row' = [q \in Receipts |->
                   IF q = r THEN NoRow
                   ELSE IF row[q].offsets = r THEN [row[q] EXCEPT !.offsets = NULL] ELSE row[q]]
    /\ txn' = [txn EXCEPT ![w] = NoTxn]
    /\ UNCHANGED requests

(* writeExtraction: the fields of the scan, and what the new kind does not *)
(* allow is cleared.  Neither the rate nor the AUD equivalent is touched.  *)
MutantExtractedKeepsTax(old, kind, total, currency) ==
    [old EXCEPT !.kind = kind, !.direction = RulesFor(kind).canonicalDirection, !.total = total,
                !.currency = currency,
                !.offsets = IF RulesFor(kind).canOffset THEN @ ELSE NULL]
MutantExtractedKeepsOffsets(old, kind, total, currency) ==
    [old EXCEPT !.kind = kind, !.direction = RulesFor(kind).canonicalDirection, !.total = total,
                !.currency = currency, !.tax = @ /\ RulesFor(kind).allowsTaxDeductible]
Extracted(old, kind, total, currency) ==
    LET rules == RulesFor(kind) IN
    [old EXCEPT !.kind = kind, !.direction = rules.canonicalDirection, !.total = total,
                !.currency = currency, !.tax = @ /\ rules.allowsTaxDeductible,
                !.offsets = IF rules.canOffset THEN @ ELSE NULL]

(* Extraction is for rows nobody reviewed, by the row under the lock.  (A  *)
(* verify scan writes none of these fields.)                               *)
Extractable(r) == Exists(r) /\ ~row[r].reviewed

ScanLock(w, r, kind, total, currency) ==
    /\ Scannable(kind)
    /\ Extractable(r)
    /\ Free(w, r)
    /\ Begin(w, "scan", r, Extracted(row[r], kind, total, currency), "store")

(* A validation error, a missing row, a failed statement or commit, a      *)
(* deadlock that Postgres breaks: rolled back.                             *)
Abort(w) ==
    /\ txn[w] # NoTxn
    /\ Moves(w, NoTxn)

-----------------------------------------------------------------------------
Init ==
    /\ row = [r \in Receipts |-> NoRow]
    /\ txn = [w \in Writers |-> NoTxn]
    /\ requests = 0

Request(w) ==
    \E r \in Receipts :
        \/ Upload(w, r)
        \/ DeleteLock(w, r)
        \/ \E body \in Bodies : CreateManual(w, r, body)
        \/ \E body \in Bodies, mark \in BOOLEAN : PatchLock(w, r, body, mark)
        \/ \E kind \in ResultKinds, total \in Totals, currency \in Currencies :
               ScanLock(w, r, kind, total, currency)

TxnStep(w) == CheckTarget(w) \/ Store(w) \/ Commit(w) \/ Unlink(w) \/ Abort(w)

Next == \E w \in Writers : Request(w) \/ TxnStep(w)

Spec == Init /\ [][Next]_vars

-----------------------------------------------------------------------------
(* Properties.                                                             *)

Row ==
    [kind : KnownKinds \cup {"none"}, direction : Directions, total : Totals,
     currency : Currencies, rate : Rates \cup {NULL}, equivalent : Nat \cup {NULL},
     tax : BOOLEAN, offsets : Receipts \cup {NULL}, reviewed : BOOLEAN]

(* The domains of the columns and of a transaction's locals. *)
TypeOK ==
    /\ row \in [Receipts -> Row]
    /\ txn \in [Writers -> [pc : {"idle", "check", "store", "commit", "unlink"},
                            op : {"none", "manual", "patch", "delete", "scan"},
                            receipt : Receipts \cup {NULL}, new : Row,
                            share : Receipts \cup {NULL}]]
    /\ requests \in 0..MaxRequests

(* chk_direction_by_kind and chk_tax_deductible_purchase_only, the copies  *)
(* of the kind table in the schema: no manual entry, edit or scan ever     *)
(* writes a row they would refuse, whatever was edited between a scan's    *)
(* claim and its write.                                                    *)
RowsPassChecks ==
    \A r \in Receipts : Exists(r) =>
        /\ row[r].kind = "purchase" => row[r].direction = "outflow"
        /\ row[r].kind \in {"refund", "reimbursement", "income"} => row[r].direction = "inflow"
        /\ row[r].tax => row[r].kind = "purchase"

(* A row somebody vouched for (the only rows in the stats) obeys every     *)
(* rule of validateReceipt, and its AUD equivalent is that of its own      *)
(* total and rate: an extraction, which leaves a stale rate and equivalent *)
(* behind, is always followed by an edit that checks and recomputes them   *)
(* before the row counts.                                                  *)
ReviewedRowsSound ==
    \A r \in Receipts : Exists(r) /\ row[r].reviewed =>
        ValidRow(row[r]) /\ row[r].equivalent = AudEquivalent(row[r].total, row[r].rate)

(* A link leads from a row whose kind may offset to a row that exists,     *)
(* through kind changes by edits and by scans, and deletes of the target   *)
(* while an edit of the row that points at it is under way.                *)
LinksHold ==
    \A r \in Receipts : Exists(r) /\ row[r].offsets # NULL =>
        RulesFor(row[r].kind).canOffset /\ Exists(row[r].offsets)

(* No receipt offsets itself, nor two each other.  validateReferences      *)
(* reads the other row without a lock; two edits that link to each other   *)
(* both pass it, and only the lock of the foreign key against the FOR      *)
(* UPDATE of the other keeps one from committing.                          *)
NoMutualOffsets ==
    \A q, r \in Receipts : row[q].offsets = r => row[r].offsets # q

=============================================================================
