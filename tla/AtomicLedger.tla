---------------------------- MODULE AtomicLedger ----------------------------
(***************************************************************************)
(* What the endpoints of receipts, items and categories promise together,  *)
(* with no transactions, locks, snapshots or aborts: a request takes       *)
(* effect in one step, and what it was checked for is true of the tables   *)
(* in that step.                                                           *)
(***************************************************************************)
CONSTANTS
    Receipts, Categories, Items,   \* ids
    EntryKinds,                    \* kinds the users enter
    ScanKinds,                     \* kinds a scan may propose
    IncomeKinds,                   \* kinds whose items use income categories
    FirstKind,                     \* kind of a fresh upload
    NULL

VARIABLES kind, reviewed, isIncome, categories, items

vars == <<kind, reviewed, isIncome, categories, items>>

Exists(r) == kind[r] # "none"
ItemsOf(r) == {i \in items : i.receipt = r}
IsNew(id) == \A i \in items : i.id # id

(* An item on a receipt of kind k may be in category c. *)
Suits(c, k) == c # NULL => c \in categories /\ (isIncome[c] <=> k \in IncomeKinds)

(* createManual. *)
Enter(r, k, id, c) ==
    /\ ~Exists(r)
    /\ IsNew(id)
    /\ Suits(c, k)
    /\ kind' = [kind EXCEPT ![r] = k]
    /\ reviewed' = [reviewed EXCEPT ![r] = TRUE]
    /\ items' = items \cup {[id |-> id, receipt |-> r, category |-> c]}
    /\ UNCHANGED <<isIncome, categories>>

(* ItemService: create, update and remove. *)
AddItem(r, id, c) ==
    /\ Exists(r)
    /\ IsNew(id)
    /\ Suits(c, kind[r])
    /\ items' = items \cup {[id |-> id, receipt |-> r, category |-> c]}
    /\ UNCHANGED <<kind, reviewed, isIncome, categories>>

Categorize(i, c) ==
    /\ Suits(c, kind[i.receipt])
    /\ items' = (items \ {i}) \cup {[i EXCEPT !.category = c]}
    /\ UNCHANGED <<kind, reviewed, isIncome, categories>>

RemoveItem(i) ==
    /\ items' = items \ {i}
    /\ UNCHANGED <<kind, reviewed, isIncome, categories>>

(* updateReceipt: every item the receipt has suits its new kind. *)
Edit(r, k, mark) ==
    /\ Exists(r)
    /\ \A i \in ItemsOf(r) : Suits(i.category, k)
    /\ kind' = [kind EXCEPT ![r] = k]
    /\ reviewed' = [reviewed EXCEPT ![r] = @ \/ mark]
    /\ UNCHANGED <<isIncome, categories, items>>

(* deleteReceipt. *)
Delete(r) ==
    /\ Exists(r)
    /\ kind' = [kind EXCEPT ![r] = "none"]
    /\ reviewed' = [reviewed EXCEPT ![r] = FALSE]
    /\ items' = items \ ItemsOf(r)
    /\ UNCHANGED <<isIncome, categories>>

(* CategoryService: a category in use does not change sides, and one that  *)
(* is removed leaves its items without a category.                         *)
AddCategory(c, income) ==
    /\ c \notin categories
    /\ categories' = categories \cup {c}
    /\ isIncome' = [isIncome EXCEPT ![c] = income]
    /\ UNCHANGED <<kind, reviewed, items>>

Flip(c) ==
    /\ \A i \in items : i.category # c
    /\ isIncome' = [isIncome EXCEPT ![c] = ~@]
    /\ UNCHANGED <<kind, reviewed, categories, items>>

RemoveCategory(c) ==
    /\ categories' = categories \ {c}
    /\ items' = {IF i.category = c THEN [i EXCEPT !.category = NULL] ELSE i : i \in items}
    /\ UNCHANGED <<kind, reviewed, isIncome>>

(* The items a scan may bring: none, or one that suits the kind. *)
Scanned(r, k) ==
    {{}} \cup {{[id |-> id, receipt |-> r, category |-> c]} :
                   id \in {x \in Items : IsNew(x)}, c \in {x \in Categories \cup {NULL} : Suits(x, k)}}

(* writeVerify: items for a reviewed receipt that has none, nothing else. *)
Verify(r) ==
    /\ Exists(r)
    /\ reviewed[r]
    /\ ItemsOf(r) = {}
    /\ \E new \in Scanned(r, kind[r]) : items' = items \cup new
    /\ UNCHANGED <<kind, reviewed, isIncome, categories>>

(* writeExtraction: a kind and items in place of what nobody vouches for. *)
Extract(r, k) ==
    /\ Exists(r)
    /\ ~reviewed[r]
    /\ kind' = [kind EXCEPT ![r] = k]
    /\ \E new \in Scanned(r, k) : items' = (items \ ItemsOf(r)) \cup new
    /\ UNCHANGED <<reviewed, isIncome, categories>>

Init ==
    /\ kind \in [Receipts -> {"none", FirstKind}]
    /\ reviewed = [r \in Receipts |-> FALSE]
    /\ isIncome \in [Categories -> BOOLEAN]
    /\ categories = Categories
    /\ items = {}

ByUser ==
    \/ \E r \in Receipts, id \in Items, c \in Categories \cup {NULL} :
           AddItem(r, id, c) \/ \E k \in EntryKinds : Enter(r, k, id, c)
    \/ \E i \in items : RemoveItem(i) \/ \E c \in Categories \cup {NULL} : Categorize(i, c)
    \/ \E r \in Receipts : Delete(r) \/ \E k \in EntryKinds, mark \in BOOLEAN : Edit(r, k, mark)
    \/ \E c \in categories : Flip(c) \/ RemoveCategory(c)
    \/ \E c \in Categories, income \in BOOLEAN : AddCategory(c, income)

ByScan == \E r \in Receipts : Verify(r) \/ \E k \in ScanKinds : Extract(r, k)

Next == ByUser \/ ByScan

Spec == Init /\ [][Next]_vars

=============================================================================
