------------------------------- MODULE Ledger -------------------------------
(***************************************************************************)
(* Which side of the ledger an item is on: categories are expense or       *)
(* income categories, and the items of a receipt may only use the side its *)
(* kind uses.  ItemService, ReceiptService::updateReceipt, createManual,   *)
(* deleteReceipt, CategoryService and the writes of the scan worker each   *)
(* keep that agreement with checks and row locks of their own, in          *)
(* transactions that interleave at every awaited statement.                *)
(*                                                                         *)
(* What a transaction wrote is its own until it commits.  A lock is what a *)
(* writer's locals say it holds: FOR UPDATE of a receipt, of a category or *)
(* of item rows, KEY SHARE of a receipt (the foreign key of a new item),   *)
(* FOR SHARE of categories.                                                *)
(***************************************************************************)
EXTENDS Naturals, FiniteSets, Kinds

CONSTANTS
    Receipts, Categories, Items,   \* ids
    Writers,                       \* transactions that may be open at once
    Mixes,                         \* which requests come together: sets of RequestKinds
    EntryKinds,                    \* kinds the users enter
    ResultKinds,                   \* kinds the scan provider answers with
    NULL,                          \* no category, no row
    MaxRequests                    \* bound: requests of a behaviour

RequestKinds == {"manual", "item_create", "item_update", "item_remove", "patch", "delete",
                 "flip", "category_create", "category_remove", "scan"}

ASSUME LedgerAssumption ==
    /\ Mixes \subseteq SUBSET RequestKinds
    /\ EntryKinds \subseteq KnownKinds
    /\ Items \subseteq Nat
    /\ MaxRequests \in Nat
    /\ NULL \notin Receipts \cup Categories \cup Items

VARIABLES
    mix,        \* the requests of this behaviour
    kind,       \* receipts.kind, "none" for a row that does not exist
    reviewed,   \* reviewed_at IS NOT NULL
    isIncome,   \* categories.is_income
    categories, \* categories that exist
    items,      \* the items rows: [id, receipt, category]
    txn,        \* open transactions
    requests

vars == <<mix, kind, reviewed, isIncome, categories, items, txn, requests>>
rows == <<kind, reviewed, isIncome, categories, items>>

NoTxn ==
    [pc |-> "idle", op |-> "none", receipt |-> NULL, kind |-> "none", item |-> NULL,
     category |-> NULL, taxonomy |-> {}, mark |-> FALSE, sawNone |-> FALSE,
     receiptLock |-> FALSE, keyShare |-> FALSE, categoryLock |-> FALSE,
     shares |-> {}, itemLocks |-> {}]

-----------------------------------------------------------------------------
(* categoryFitsKind, and the SQL list of income kinds. *)
IncomeKinds == {k \in KnownKinds : RulesFor(k).usesIncomeCategories}
IncomeSide(k) == k \in IncomeKinds

Exists(r) == kind[r] # "none"
ItemsOf(r) == {i \in items : i.receipt = r}
CategoriesOf(r) == {i.category : i \in ItemsOf(r)} \ {NULL}

(* The next id of the sequence that no row and no transaction has. *)
Unused(i) == (\A j \in items : j.id # i) /\ (\A w \in Writers : txn[w].item # i)
NewItem(i) == i \in Items /\ Unused(i) /\ \A j \in Items : Unused(j) => i <= j

(* Row locks of the other transactions. *)
Others(w) == Writers \ {w}
MutantReceiptFreeUnlocked(w, r) ==
    \A v \in Others(w) : txn[v].receipt = r => ~txn[v].keyShare
ReceiptFree(w, r) ==
    \A v \in Others(w) : txn[v].receipt = r => ~txn[v].receiptLock /\ ~txn[v].keyShare
NoReceiptLock(w, r) == \A v \in Others(w) : txn[v].receipt = r => ~txn[v].receiptLock
NoCategoryLock(w, c) == \A v \in Others(w) : txn[v].category = c => ~txn[v].categoryLock
MutantCategoryFreeShared(w, c) == NoCategoryLock(w, c)
CategoryFree(w, c) == NoCategoryLock(w, c) /\ \A v \in Others(w) : c \notin txn[v].shares
ItemFree(w, i) == \A v \in Others(w) : i \notin txn[v].itemLocks

(* A request arrives at an idle writer. *)
Arrives(w, op) ==
    /\ op \in mix
    /\ txn[w] = NoTxn
    /\ requests < MaxRequests
    /\ requests' = requests + 1
    /\ UNCHANGED mix

(* A transaction begins with its first locals, moves on, or ends. *)
Begin(w, op, locals) ==
    /\ Arrives(w, op)
    /\ txn' = [txn EXCEPT ![w] = [locals EXCEPT !.op = op]]
    /\ UNCHANGED rows
Moves(w, locals) ==
    /\ txn' = [txn EXCEPT ![w] = locals]
    /\ UNCHANGED <<mix, rows, requests>>
Commits(w) ==
    /\ txn[w].pc = "commit"
    /\ txn' = [txn EXCEPT ![w] = NoTxn]
    /\ UNCHANGED <<mix, requests>>

(* A validation error, a missing row, a failed statement, a deadlock that  *)
(* Postgres breaks, a crash: rolled back, at any point.                    *)
Abort(w) ==
    /\ txn[w] # NoTxn
    /\ Moves(w, NoTxn)

-----------------------------------------------------------------------------
(* requireCategoryFitsKind: FOR SHARE of the category, which holds off a   *)
(* flip until this transaction ends, and the comparison with the kind the  *)
(* transaction goes by.                                                    *)
Fit(w) ==
    LET t == txn[w] IN
    /\ t.pc = "fit"
    /\ t.category \in categories
    /\ NoCategoryLock(w, t.category)
    /\ isIncome[t.category] = IncomeSide(t.kind)
    /\ Moves(w, [t EXCEPT !.shares = {t.category},
                          !.pc = IF t.op = "item_create" THEN "insert" ELSE "commit"])

(* The pc after the part before the category check: an item without a      *)
(* category skips it.                                                      *)
ThenFit(c, pc) == IF c = NULL THEN pc ELSE "fit"

(* ItemService::create: the kind is read without a lock... *)
ItemCreate(w, r, c) ==
    \E i \in Items :
        /\ NewItem(i)
        /\ Exists(r)
        /\ Begin(w, "item_create",
                 [NoTxn EXCEPT !.pc = ThenFit(c, "insert"), !.receipt = r, !.kind = kind[r],
                               !.item = i, !.category = c])

(* ... and the INSERT takes KEY SHARE of the receipt, if it still exists. *)
ItemInsert(w) ==
    /\ txn[w].pc = "insert"
    /\ Exists(txn[w].receipt)
    /\ NoReceiptLock(w, txn[w].receipt)
    /\ Moves(w, [txn[w] EXCEPT !.pc = "commit", !.keyShare = TRUE])

ItemCreated(w) ==
    /\ txn[w].op = "item_create"
    /\ Commits(w)
    /\ items' = items \cup {[id |-> txn[w].item, receipt |-> txn[w].receipt,
                             category |-> txn[w].category]}
    /\ UNCHANGED <<kind, reviewed, isIncome, categories>>

(* ItemService::update with a category_id: the receipt's kind, read        *)
(* without a lock, then the item row FOR UPDATE.                           *)
ItemUpdate(w, i, c) ==
    /\ i \in items
    /\ Begin(w, "item_update",
             [NoTxn EXCEPT !.pc = "item", !.receipt = i.receipt, !.kind = kind[i.receipt],
                           !.item = i.id, !.category = c])

ItemLock(w) ==
    /\ txn[w].pc = "item"
    /\ ItemFree(w, txn[w].item)
    /\ \E i \in items : i.id = txn[w].item
    /\ Moves(w, [txn[w] EXCEPT !.pc = ThenFit(txn[w].category, "commit"),
                               !.itemLocks = {txn[w].item}])

ItemUpdated(w) ==
    /\ txn[w].op = "item_update"
    /\ Commits(w)
    /\ items' = {IF i.id = txn[w].item THEN [i EXCEPT !.category = txn[w].category] ELSE i :
                     i \in items}
    /\ UNCHANGED <<kind, reviewed, isIncome, categories>>

(* ItemService::remove, one statement. *)
ItemRemove(w, i) ==
    /\ Arrives(w, "item_remove")
    /\ i \in items
    /\ ItemFree(w, i.id)
    /\ items' = items \ {i}
    /\ UNCHANGED <<kind, reviewed, isIncome, categories, txn>>

(* createManual: the receipt and its first item in one transaction. *)
CreateManual(w, r, k, c) ==
    \E i \in Items :
        /\ NewItem(i)
        /\ ~Exists(r)
        /\ \A v \in Others(w) : txn[v].receipt # r   \* an id is new to everyone
        /\ Begin(w, "manual",
                 [NoTxn EXCEPT !.pc = ThenFit(c, "commit"), !.receipt = r, !.kind = k,
                               !.item = i, !.category = c])

ManualCreated(w) ==
    LET t == txn[w] IN
    /\ t.op = "manual"
    /\ Commits(w)
    /\ kind' = [kind EXCEPT ![t.receipt] = t.kind]
    /\ reviewed' = [reviewed EXCEPT ![t.receipt] = TRUE]
    /\ items' = items \cup {[id |-> t.item, receipt |-> t.receipt, category |-> t.category]}
    /\ UNCHANGED <<isIncome, categories>>

(* updateReceipt: the row FOR UPDATE. *)
PatchLock(w, r, k, mark) ==
    /\ Exists(r)
    /\ ReceiptFree(w, r)
    /\ Begin(w, "patch",
             [NoTxn EXCEPT !.pc = IF IncomeSide(k) = IncomeSide(kind[r]) THEN "commit" ELSE "read",
                           !.receipt = r, !.kind = k, !.mark = mark, !.receiptLock = TRUE])

(* A kind of the other side: the snapshot of the items' categories... *)
PatchRead(w) ==
    /\ txn[w].pc = "read"
    /\ Moves(w, [txn[w] EXCEPT !.pc = "check", !.taxonomy = CategoriesOf(txn[w].receipt)])

(* ... which are locked FOR SHARE, and must all be of the new side. *)
MutantPatchFits(w) == txn[w].taxonomy \subseteq Categories
PatchFits(w) ==
    \A c \in txn[w].taxonomy \cap categories : isIncome[c] = IncomeSide(txn[w].kind)

PatchCheck(w) ==
    LET used == txn[w].taxonomy \cap categories IN
    /\ txn[w].pc = "check"
    /\ \A c \in used : NoCategoryLock(w, c)
    /\ PatchFits(w)
    /\ Moves(w, [txn[w] EXCEPT !.pc = "commit", !.shares = used])

Patched(w) ==
    LET t == txn[w] IN
    /\ t.op = "patch"
    /\ Commits(w)
    /\ kind' = [kind EXCEPT ![t.receipt] = t.kind]
    /\ reviewed' = [reviewed EXCEPT ![t.receipt] = @ \/ t.mark]
    /\ UNCHANGED <<isIncome, categories, items>>

(* deleteReceipt: the row and, by cascade, its items. *)
DeleteReceipt(w, r) ==
    /\ Arrives(w, "delete")
    /\ Exists(r)
    /\ ReceiptFree(w, r)
    /\ \A i \in ItemsOf(r) : ItemFree(w, i.id)
    /\ kind' = [kind EXCEPT ![r] = "none"]
    /\ reviewed' = [reviewed EXCEPT ![r] = FALSE]
    /\ items' = items \ ItemsOf(r)
    /\ UNCHANGED <<isIncome, categories, txn>>

-----------------------------------------------------------------------------
(* CategoryService::create, one statement; an id is new to everyone. *)
CategoryCreate(w, c, income) ==
    /\ Arrives(w, "category_create")
    /\ c \notin categories
    /\ \A v \in Writers :
           txn[v].category # c /\ txn[v].taxonomy \cap ({c} \cup ({c} \X BOOLEAN)) = {}
    /\ categories' = categories \cup {c}
    /\ isIncome' = [isIncome EXCEPT ![c] = income]
    /\ UNCHANGED <<kind, reviewed, items, txn>>

(* CategoryService::update with a new is_income: the category FOR UPDATE... *)
FlipLock(w, c) ==
    /\ c \in categories
    /\ CategoryFree(w, c)
    /\ Begin(w, "flip", [NoTxn EXCEPT !.pc = "clash", !.category = c, !.categoryLock = TRUE])

(* ... then no item may use it on a receipt of the side it leaves. *)
Clash(c) == \E i \in items : i.category = c /\ IncomeSide(kind[i.receipt]) = isIncome[c]

FlipCheck(w) ==
    /\ txn[w].pc = "clash"
    /\ ~Clash(txn[w].category)
    /\ Moves(w, [txn[w] EXCEPT !.pc = "commit"])

Flipped(w) ==
    /\ txn[w].op = "flip"
    /\ Commits(w)
    /\ isIncome' = [isIncome EXCEPT ![txn[w].category] = ~@]
    /\ UNCHANGED <<kind, reviewed, categories, items>>

(* CategoryService::remove: the row first, then ON DELETE SET NULL on the  *)
(* items, which waits for item rows that others have locked.               *)
CategoryRemove(w, c) ==
    /\ c \in categories
    /\ CategoryFree(w, c)
    /\ Begin(w, "category_remove",
             [NoTxn EXCEPT !.pc = "commit", !.category = c, !.categoryLock = TRUE])

Uncategorized(c) == {IF i.category = c THEN [i EXCEPT !.category = NULL] ELSE i : i \in items}

CategoryRemoved(w) ==
    LET c == txn[w].category IN
    /\ txn[w].op = "category_remove"
    /\ \A i \in items : i.category = c => ItemFree(w, i.id)
    /\ Commits(w)
    /\ categories' = categories \ {c}
    /\ items' = Uncategorized(c)
    /\ UNCHANGED <<kind, reviewed, isIncome>>

-----------------------------------------------------------------------------
(* The scan worker's write.  loadTaxonomy reads the categories, outside    *)
(* the transaction.                                                        *)
ScanLoad(w, r) ==
    /\ Exists(r)
    /\ Begin(w, "scan",
             [NoTxn EXCEPT !.pc = "lock", !.receipt = r,
                           !.taxonomy = {<<c, isIncome[c]>> : c \in categories}])

(* validateResult. *)
Writable(k) == k \in ResultKinds /\ Scannable(k)

(* toItemInput: a category of the kind's side by the taxonomy, or none. *)
Picks(w, k) == {NULL} \cup {p[1] : p \in {q \in txn[w].taxonomy : q[2] = IncomeSide(k)}}

(* insertScannedItems: a result with no item, or with one. *)
InsertScanned(w, t) ==
    \/ Moves(w, [t EXCEPT !.pc = "commit"])
    \/ \E i \in Items, c \in Picks(w, t.kind) :
           /\ NewItem(i)
           /\ Moves(w, [t EXCEPT !.pc = ThenFit(c, "commit"), !.item = i, !.category = c])

(* readSnapshot waits for an item's INSERT, which holds KEY SHARE: the     *)
(* item_count it will return is of the statement's snapshot, none, while   *)
(* the row is read anew when the lock is granted.  (A count that goes down *)
(* meanwhile is a result with no item.)                                    *)
LockWait(w) ==
    LET r == txn[w].receipt IN
    /\ txn[w].pc = "lock"
    /\ ItemsOf(r) = {}
    /\ \E v \in Others(w) : txn[v].op = "item_create" /\ txn[v].receipt = r /\ txn[v].keyShare
    /\ Moves(w, [txn[w] EXCEPT !.sawNone = TRUE])

(* applyResult: the row FOR UPDATE; writeVerify keeps the row's kind and   *)
(* gives it the scan's items only if readSnapshot counted none.            *)
VerifyLock(w) ==
    LET r == txn[w].receipt
        t == [txn[w] EXCEPT !.kind = kind[r], !.receiptLock = TRUE] IN
    /\ txn[w].pc = "lock"
    /\ Exists(r)
    /\ ReceiptFree(w, r)
    /\ reviewed[r]
    /\ IF ItemsOf(r) = {} \/ t.sawNone THEN InsertScanned(w, t)
       ELSE Moves(w, [t EXCEPT !.pc = "commit"])

(* writeExtraction: the new kind, the DELETE of the items... *)
ExtractionLock(w) ==
    LET r == txn[w].receipt IN
    /\ txn[w].pc = "lock"
    /\ Exists(r)
    /\ ReceiptFree(w, r)
    /\ ~reviewed[r]
    /\ \E k \in ResultKinds :
           /\ Writable(k)
           /\ Moves(w, [txn[w] EXCEPT !.pc = "wipe", !.kind = k, !.receiptLock = TRUE])

(* ... which waits for item rows that others have locked, and the INSERT   *)
(* of the scanned item.                                                    *)
ExtractionWipe(w) ==
    LET wiped == {i.id : i \in ItemsOf(txn[w].receipt)} IN
    /\ txn[w].pc = "wipe"
    /\ \A i \in wiped : ItemFree(w, i)
    /\ InsertScanned(w, [txn[w] EXCEPT !.itemLocks = wiped])

ScanWritten(w) ==
    LET t == txn[w] IN
    /\ t.op = "scan"
    /\ Commits(w)
    /\ kind' = [kind EXCEPT ![t.receipt] = t.kind]
    /\ items' = {i \in items : i.id \notin t.itemLocks} \cup
                {[id |-> i, receipt |-> t.receipt, category |-> t.category] :
                     i \in {t.item} \ {NULL}}
    /\ UNCHANGED <<reviewed, isIncome, categories>>

-----------------------------------------------------------------------------
Init ==
    /\ mix \in Mixes
    /\ kind \in [Receipts -> {"none", DefaultKind}]
    /\ reviewed = [r \in Receipts |-> FALSE]
    /\ isIncome \in [Categories -> BOOLEAN]
    /\ categories = Categories
    /\ items = {}
    /\ txn = [w \in Writers |-> NoTxn]
    /\ requests = 0

Request(w) ==
    \/ \E r \in Receipts, c \in categories \cup {NULL} : ItemCreate(w, r, c)
    \/ \E i \in items, c \in categories \cup {NULL} : ItemUpdate(w, i, c)
    \/ \E i \in items : ItemRemove(w, i)
    \/ \E r \in Receipts, k \in EntryKinds, c \in categories \cup {NULL} : CreateManual(w, r, k, c)
    \/ \E r \in Receipts, k \in EntryKinds, mark \in BOOLEAN : PatchLock(w, r, k, mark)
    \/ \E r \in Receipts : DeleteReceipt(w, r)
    \/ \E c \in Categories, income \in BOOLEAN : CategoryCreate(w, c, income)
    \/ \E c \in categories : FlipLock(w, c) \/ CategoryRemove(w, c)
    \/ \E r \in Receipts : ScanLoad(w, r)

TxnStep(w) ==
    \/ Fit(w) \/ ItemInsert(w) \/ ItemCreated(w) \/ ItemLock(w) \/ ItemUpdated(w)
    \/ ManualCreated(w) \/ PatchRead(w) \/ PatchCheck(w) \/ Patched(w)
    \/ FlipCheck(w) \/ Flipped(w) \/ CategoryRemoved(w)
    \/ LockWait(w) \/ VerifyLock(w) \/ ExtractionLock(w) \/ ExtractionWipe(w) \/ ScanWritten(w)
    \/ Abort(w)

Next == \E w \in Writers : Request(w) \/ TxnStep(w)

Spec == Init /\ [][Next]_vars

-----------------------------------------------------------------------------
(* Properties.                                                             *)

Pcs == {"idle", "fit", "insert", "item", "read", "check", "clash", "lock", "wipe", "commit"}

(* The domains of the tables and of a transaction's locals; among them the *)
(* database CHECK on kind.                                                 *)
TypeOK ==
    /\ mix \in Mixes
    /\ kind \in [Receipts -> KnownKinds \cup {"none"}]
    /\ reviewed \in [Receipts -> BOOLEAN]
    /\ isIncome \in [Categories -> BOOLEAN]
    /\ categories \subseteq Categories
    /\ items \subseteq [id : Items, receipt : Receipts, category : Categories \cup {NULL}]
    /\ \A w \in Writers :
           /\ txn[w].pc \in Pcs
           /\ txn[w].receipt \in Receipts \cup {NULL}
           /\ txn[w].category \in Categories \cup {NULL}
           /\ txn[w].shares \subseteq Categories
           /\ txn[w].itemLocks \subseteq Items
    /\ requests \in 0..MaxRequests

(* Every categorized item is in a category of its receipt's side, so that  *)
(* the spend and income breakdowns never show it under the other:          *)
(* requireCategoryFitsKind, the kind change of updateReceipt, the clash    *)
(* query of CategoryService::update and the scan's writes each check their *)
(* own half, before they commit.                                           *)
CategoryFits ==
    \A i \in items : i.category # NULL => isIncome[i.category] = IncomeSide(kind[i.receipt])

(* An item write goes by the kind it read without a lock: no promise is    *)
(* kept where item writes and changes of a receipt's kind come together.   *)
KindChanges == {"patch", "scan"}
ItemWrites == {"item_create", "item_update"}
KindChangesAlone == mix \cap KindChanges = {} \/ mix \cap ItemWrites = {}

(* CategoryFits, with every mix of requests in which it can hold: flips    *)
(* and deletes of categories, new ones, manual entries and receipt deletes *)
(* run against item writes, and against edits and scans.                   *)
SidesAgree == KindChangesAlone => CategoryFits

(* No item outlives its receipt or its category (ON DELETE CASCADE and SET *)
(* NULL against the inserts and updates that were under way).              *)
ReferencesExist == \A i \in items : Exists(i.receipt) /\ i.category \in categories \cup {NULL}

=============================================================================
