---------------------------- MODULE LedgerProofs ----------------------------
(***************************************************************************)
(* The properties of Ledger for every set of receipts, categories, items   *)
(* and open transactions: no item ever outlives its receipt or category,   *)
(* and the sides agree in every mix of requests that keeps the writes of   *)
(* items apart from changes of a receipt's kind.  In those mixes the       *)
(* transactions implement AtomicLedger.                                    *)
(***************************************************************************)
EXTENDS LedgerRefinement, TLAPS

Txn ==
    [pc : Pcs, op : RequestKinds \cup {"none"}, receipt : Receipts \cup {NULL},
     kind : KnownKinds \cup {"none"}, item : Items \cup {NULL}, category : Categories \cup {NULL},
     taxonomy : SUBSET (Categories \cup (Categories \X BOOLEAN)), mark : BOOLEAN,
     sawNone : BOOLEAN, receiptLock : BOOLEAN, keyShare : BOOLEAN, categoryLock : BOOLEAN,
     shares : SUBSET Categories, itemLocks : SUBSET Items]

Inserting == {"item_create", "manual", "scan"}
ItemWriting == Inserting \cup {"item_update"}

(* How far a transaction is, and what it holds by then. *)
Stage(t) ==
    /\ t.pc = "fit" => t.category # NULL
    /\ \/ t = NoTxn
       \/ /\ t.op = "item_create" /\ t.pc \in {"fit", "insert", "commit"}
          /\ t.receipt # NULL /\ t.item # NULL
          /\ t.pc = "commit" => t.keyShare
       \/ t.op = "manual" /\ t.pc \in {"fit", "commit"} /\ t.item # NULL /\ t.kind # "none"
       \/ /\ t.op = "item_update" /\ t.pc \in {"item", "fit", "commit"}
          /\ t.receipt # NULL /\ t.item # NULL
       \/ t.op = "patch" /\ t.pc \in {"read", "check", "commit"} /\ t.receiptLock /\ t.kind # "none"
       \/ t.op = "flip" /\ t.pc \in {"clash", "commit"} /\ t.categoryLock
       \/ t.op = "category_remove" /\ t.pc = "commit" /\ t.categoryLock
       \/ /\ t.op = "scan" /\ t.pc \in {"lock", "wipe"} /\ t.receipt # NULL
          /\ t.item = NULL /\ t.category = NULL /\ t.taxonomy \subseteq Categories \X BOOLEAN
          /\ t.pc = "wipe" => t.receiptLock /\ t.kind # "none"
       \/ t.op = "scan" /\ t.pc \in {"fit", "commit"} /\ t.receiptLock /\ t.kind # "none"

(* What the locks of a transaction keep true of the tables. *)
Held(t) ==
    /\ t.receiptLock \/ t.keyShare => t.receipt # NULL /\ Exists(t.receipt)
    /\ t.op = "manual" => t.receipt # NULL /\ ~Exists(t.receipt)
    /\ t.shares \subseteq categories
    /\ t.categoryLock => t.category \in categories
    /\ t.op \in ItemWriting /\ t.pc \in {"insert", "commit"} /\ t.category # NULL =>
           t.category \in t.shares /\ isIncome[t.category] = IncomeSide(t.kind)
    /\ t.op \in Inserting => \A i \in items : i.id # t.item

(* What one transaction's locks and new ids mean for another. *)
Apart(t, u) ==
    /\ t.receiptLock /\ u.receipt = t.receipt => ~u.receiptLock /\ ~u.keyShare
    /\ t.categoryLock => t.category \notin u.shares /\ ~(u.categoryLock /\ u.category = t.category)
    /\ t.op = "manual" => u.receipt # t.receipt
    /\ t.op \in Inserting /\ t.item # NULL => u.item # t.item

IdsUnique == \A i, j \in items : i.id = j.id => i = j

TxnsOK ==
    /\ txn \in [Writers -> Txn]
    /\ \A w \in Writers : Stage(txn[w]) /\ Held(txn[w])
    /\ \A v, w \in Writers : v # w => Apart(txn[v], txn[w])

LedgerInvariant == TypeOK /\ TxnsOK /\ IdsUnique /\ ReferencesExist

-----------------------------------------------------------------------------
LEMMA NoTxnFields ==
    /\ NoTxn.pc = "idle" /\ NoTxn.op = "none" /\ NoTxn.receipt = NULL /\ NoTxn.kind = "none"
    /\ NoTxn.item = NULL /\ NoTxn.category = NULL /\ NoTxn.taxonomy = {} /\ NoTxn.mark = FALSE
    /\ NoTxn.receiptLock = FALSE /\ NoTxn.keyShare = FALSE /\ NoTxn.categoryLock = FALSE
    /\ NoTxn.shares = {} /\ NoTxn.itemLocks = {} /\ NoTxn.sawNone = FALSE
    /\ NoTxn \in Txn
  BY DEF NoTxn, Txn, Pcs

(* An idle transaction holds nothing and keeps nobody out. *)
LEMMA NoTxnHeld ==
    /\ Stage(NoTxn) /\ Held(NoTxn)
    /\ \A u \in Txn : Stage(u) /\ Held(u) => Apart(NoTxn, u) /\ Apart(u, NoTxn)
  <1>1. Stage(NoTxn)
    BY NoTxnFields DEF Stage
  <1>2. Held(NoTxn)
    BY NoTxnFields DEF Held, ItemWriting, Inserting
  <1>3. ASSUME NEW u \in Txn, Stage(u), Held(u)
        PROVE  Apart(NoTxn, u) /\ Apart(u, NoTxn)
    BY <1>3, NoTxnFields DEF Apart, Inserting, Held
  <1> QED  BY <1>1, <1>2, <1>3

(* A step of one transaction that leaves the tables alone. *)
LEMMA TxnChange ==
    ASSUME LedgerInvariant, NEW w \in Writers, NEW t \in Txn,
           txn' = [txn EXCEPT ![w] = t], UNCHANGED <<mix, rows>>, requests' \in 0..MaxRequests,
           Stage(t), Held(t), \A v \in Others(w) : Apart(t, txn[v]) /\ Apart(txn[v], t)
    PROVE  LedgerInvariant'
  <1>1. /\ kind' = kind /\ reviewed' = reviewed /\ isIncome' = isIncome /\ mix' = mix
        /\ categories' = categories /\ items' = items
    BY DEF rows
  <1>2. /\ txn \in [Writers -> Txn] /\ txn' \in [Writers -> Txn]
        /\ txn'[w] = t
        /\ \A v \in Others(w) : txn'[v] = txn[v]
    BY DEF LedgerInvariant, TxnsOK, Others
  <1>3. TypeOK'
    BY <1>1, <1>2 DEF LedgerInvariant, TypeOK, Txn
  <1>4. \A u : Held(u)' <=> Held(u)
    BY <1>1 DEF Held, Exists
  <1>5. \A v \in Writers : Stage(txn'[v])
    BY <1>2 DEF LedgerInvariant, TxnsOK, Others
  <1>6. \A v \in Writers : Held(txn[v])'
    <2> SUFFICES ASSUME NEW v \in Writers, NEW u, u = txn'[v]  PROVE Held(u)'
      BY DEF Held, Exists
    <2> QED  BY <1>2, <1>4 DEF LedgerInvariant, TxnsOK, Others
  <1>7. \A v, x \in Writers : v # x => Apart(txn'[v], txn'[x])
    BY <1>2 DEF LedgerInvariant, TxnsOK, Others
  <1>8. TxnsOK'
    <2>1. \A v \in Writers : Stage(txn[v])'
      BY <1>5 DEF Stage
    <2>2. \A v, x \in Writers : v # x => Apart(txn[v], txn[x])'
      BY <1>7 DEF Apart
    <2> QED  BY <1>2, <1>6, <2>1, <2>2 DEF TxnsOK
  <1>9. IdsUnique' /\ ReferencesExist'
    BY <1>1 DEF LedgerInvariant, IdsUnique, ReferencesExist, Exists
  <1> QED  BY <1>3, <1>8, <1>9 DEF LedgerInvariant

(* A step that changes the tables and leaves its own writer idle. *)
LEMMA TableChange ==
    ASSUME LedgerInvariant, NEW w \in Writers,
           txn' = [txn EXCEPT ![w] = NoTxn], mix' = mix, requests' \in 0..MaxRequests,
           kind' \in [Receipts -> KnownKinds \cup {"none"}], reviewed' \in [Receipts -> BOOLEAN],
           isIncome' \in [Categories -> BOOLEAN], categories' \subseteq Categories,
           items' \subseteq [id : Items, receipt : Receipts, category : Categories \cup {NULL}],
           \A v \in Others(w), u \in Txn : u = txn[v] => Held(u)',
           IdsUnique', ReferencesExist'
    PROVE  LedgerInvariant'
  <1>1. /\ txn \in [Writers -> Txn] /\ txn' \in [Writers -> Txn]
        /\ txn'[w] = NoTxn
        /\ \A v \in Others(w) : txn'[v] = txn[v]
    BY NoTxnFields DEF LedgerInvariant, TxnsOK, Others
  <1>2. TypeOK'
    BY <1>1 DEF LedgerInvariant, TypeOK, Txn
  <1>3. \A v \in Writers : Stage(txn[v])'
    <2>1. \A v \in Writers : Stage(txn'[v])
      BY <1>1, NoTxnHeld DEF LedgerInvariant, TxnsOK, Others
    <2> QED  BY <2>1 DEF Stage
  <1>4. \A v \in Writers : Held(txn[v])'
    <2> SUFFICES ASSUME NEW v \in Writers, NEW u, u = txn'[v]  PROVE Held(u)'
      BY DEF Held, Exists
    <2>1. CASE v = w
      BY <1>1, <2>1, NoTxnFields DEF Held, ItemWriting, Inserting
    <2>2. CASE v # w
      BY <1>1, <2>2 DEF Others
    <2> QED  BY <2>1, <2>2
  <1>5. \A v, x \in Writers : v # x => Apart(txn[v], txn[x])'
    <2>1. \A v, x \in Writers : v # x => Apart(txn'[v], txn'[x])
      BY <1>1, NoTxnHeld DEF LedgerInvariant, TxnsOK, Others
    <2> QED  BY <2>1 DEF Apart
  <1> QED  BY <1>1, <1>2, <1>3, <1>4, <1>5 DEF LedgerInvariant, TxnsOK

LEMMA InitLedger == Init => LedgerInvariant
  <1> SUFFICES ASSUME Init  PROVE LedgerInvariant
    OBVIOUS
  <1>1. txn \in [Writers -> Txn] /\ \A w \in Writers : txn[w] = NoTxn
    BY NoTxnFields DEF Init
  <1>2. TypeOK
    BY <1>1, NoTxnFields, LedgerAssumption DEF Init, TypeOK, Pcs, KnownKinds, DefaultKind
  <1>3. TxnsOK
    BY <1>1, NoTxnHeld, NoTxnFields DEF TxnsOK
  <1>4. IdsUnique /\ ReferencesExist
    BY DEF Init, IdsUnique, ReferencesExist
  <1> QED  BY <1>2, <1>3, <1>4 DEF LedgerInvariant

(* A transaction moves on by its own locals, or a new one begins. *)
LEMMA MovesChange ==
    ASSUME LedgerInvariant, NEW w \in Writers, NEW t \in Txn, Moves(w, t),
           Stage(t), Held(t), \A v \in Others(w) : Apart(t, txn[v]) /\ Apart(txn[v], t)
    PROVE  LedgerInvariant'
  <1>1. /\ txn' = [txn EXCEPT ![w] = t] /\ UNCHANGED <<mix, rows>>
        /\ requests' \in 0..MaxRequests
    BY DEF Moves, LedgerInvariant, TypeOK
  <1> QED  BY <1>1, TxnChange

LEMMA BeginChange ==
    ASSUME LedgerInvariant, NEW w \in Writers, NEW op, NEW t0, Begin(w, op, t0),
           NEW t \in Txn, t = [t0 EXCEPT !.op = op],
           Stage(t), Held(t), \A v \in Others(w) : Apart(t, txn[v]) /\ Apart(txn[v], t)
    PROVE  LedgerInvariant'
  <1>1. /\ txn' = [txn EXCEPT ![w] = t] /\ UNCHANGED <<mix, rows>>
        /\ requests' \in 0..MaxRequests
    BY LedgerAssumption DEF Begin, Arrives, LedgerInvariant, TypeOK
  <1> QED  BY <1>1, TxnChange

(* What the invariant says of each transaction, in the form the steps use. *)
LEMMA TxnFacts ==
    ASSUME LedgerInvariant, NEW w \in Writers
    PROVE  /\ txn[w] \in Txn /\ Stage(txn[w]) /\ Held(txn[w])
           /\ \A v \in Others(w) : /\ txn[v] \in Txn /\ Stage(txn[v]) /\ Held(txn[v])
                                   /\ Apart(txn[v], txn[w]) /\ Apart(txn[w], txn[v])
  BY DEF LedgerInvariant, TxnsOK, Others

LEMMA AbortStep ==
    ASSUME LedgerInvariant, NEW w \in Writers, Abort(w)
    PROVE  LedgerInvariant'
  <1>1. Moves(w, NoTxn)
    BY DEF Abort
  <1> QED  BY <1>1, NoTxnFields, NoTxnHeld, TxnFacts, MovesChange

LEMMA ItemCreateStep ==
    ASSUME LedgerInvariant, NEW w \in Writers, NEW r \in Receipts, NEW c \in categories \cup {NULL},
           ItemCreate(w, r, c)
    PROVE  LedgerInvariant'
  <1>1. PICK i \in Items :
            /\ NewItem(i) /\ Exists(r)
            /\ Begin(w, "item_create",
                     [NoTxn EXCEPT !.pc = ThenFit(c, "insert"), !.receipt = r, !.kind = kind[r],
                                   !.item = i, !.category = c])
    BY DEF ItemCreate
  <1> DEFINE t0 == [NoTxn EXCEPT !.pc = ThenFit(c, "insert"), !.receipt = r, !.kind = kind[r],
                                 !.item = i, !.category = c]
             t == [t0 EXCEPT !.op = "item_create"]
  <1>2. kind[r] \in KnownKinds /\ c \in Categories \cup {NULL}
    BY <1>1 DEF LedgerInvariant, TypeOK, Exists
  <1>3. /\ t \in Txn /\ t.op = "item_create" /\ t.pc = ThenFit(c, "insert") /\ t.receipt = r
        /\ t.kind = kind[r] /\ t.item = i /\ t.category = c /\ t.receiptLock = FALSE
        /\ t.keyShare = FALSE /\ t.categoryLock = FALSE /\ t.shares = {}
    BY <1>2 DEF NoTxn, Txn, Pcs, ThenFit, RequestKinds
  <1> HIDE DEF t
  <1>4. r # NULL /\ i # NULL /\ ThenFit(c, "insert") \in {"fit", "insert"}
        /\ (ThenFit(c, "insert") = "fit" <=> c # NULL)
    BY LedgerAssumption DEF ThenFit
  <1>5. Stage(t)
    BY <1>3, <1>4 DEF Stage
  <1>6. Held(t)
    BY <1>1, <1>3, <1>4 DEF Held, NewItem, Unused
  <1>7. \A v \in Others(w) : Apart(t, txn[v]) /\ Apart(txn[v], t)
    <2> SUFFICES ASSUME NEW v \in Others(w)  PROVE Apart(t, txn[v]) /\ Apart(txn[v], t)
      OBVIOUS
    <2>1. txn[v].item # i
      BY <1>1 DEF NewItem, Unused, Others
    <2>2. txn[v].op = "manual" => txn[v].receipt # r
      BY <1>1, TxnFacts DEF Held
    <2> QED  BY <1>3, <2>1, <2>2 DEF Apart, Inserting
  <1> QED  BY <1>1, <1>3, <1>5, <1>6, <1>7, BeginChange DEF t

LEMMA ItemUpdateStep ==
    ASSUME LedgerInvariant, NEW w \in Writers, NEW i \in items, NEW c \in categories \cup {NULL},
           ItemUpdate(w, i, c)
    PROVE  LedgerInvariant'
  <1> DEFINE t0 == [NoTxn EXCEPT !.pc = "item", !.receipt = i.receipt, !.kind = kind[i.receipt],
                                 !.item = i.id, !.category = c]
             t == [t0 EXCEPT !.op = "item_update"]
  <1>1. Begin(w, "item_update", t0)
    BY DEF ItemUpdate
  <1>2. /\ i.receipt \in Receipts /\ i.id \in Items /\ Exists(i.receipt)
        /\ kind[i.receipt] \in KnownKinds /\ c \in Categories \cup {NULL}
    BY DEF LedgerInvariant, TypeOK, Exists, ReferencesExist
  <1>3. /\ t \in Txn /\ t.op = "item_update" /\ t.pc = "item" /\ t.receipt = i.receipt
        /\ t.item = i.id /\ t.category = c /\ t.receiptLock = FALSE
        /\ t.keyShare = FALSE /\ t.categoryLock = FALSE /\ t.shares = {}
    BY <1>2 DEF NoTxn, Txn, Pcs, RequestKinds
  <1> HIDE DEF t
  <1>4. i.receipt # NULL /\ i.id # NULL
    BY <1>2, LedgerAssumption
  <1>5. Stage(t) /\ Held(t)
    BY <1>3, <1>4 DEF Stage, Held, Inserting
  <1>6. \A v \in Others(w) : Apart(t, txn[v]) /\ Apart(txn[v], t)
    <2> SUFFICES ASSUME NEW v \in Others(w)  PROVE Apart(t, txn[v]) /\ Apart(txn[v], t)
      OBVIOUS
    <2>1. txn[v].op \in Inserting => txn[v].item # i.id
      BY TxnFacts DEF Held
    <2>2. txn[v].op = "manual" => txn[v].receipt # i.receipt
      BY <1>2, TxnFacts DEF Held
    <2> QED  BY <1>3, <2>1, <2>2 DEF Apart, Inserting
  <1> QED  BY <1>1, <1>3, <1>5, <1>6, BeginChange DEF t

LEMMA CreateManualStep ==
    ASSUME LedgerInvariant, NEW w \in Writers, NEW r \in Receipts, NEW k \in EntryKinds,
           NEW c \in categories \cup {NULL}, CreateManual(w, r, k, c)
    PROVE  LedgerInvariant'
  <1>1. PICK i \in Items :
            /\ NewItem(i) /\ ~Exists(r) /\ \A v \in Others(w) : txn[v].receipt # r
            /\ Begin(w, "manual",
                     [NoTxn EXCEPT !.pc = ThenFit(c, "commit"), !.receipt = r, !.kind = k,
                                   !.item = i, !.category = c])
    BY DEF CreateManual
  <1> DEFINE t0 == [NoTxn EXCEPT !.pc = ThenFit(c, "commit"), !.receipt = r, !.kind = k,
                                 !.item = i, !.category = c]
             t == [t0 EXCEPT !.op = "manual"]
  <1>2. k \in KnownKinds /\ k # "none" /\ c \in Categories \cup {NULL}
    BY LedgerAssumption DEF LedgerInvariant, TypeOK, KnownKinds
  <1>3. /\ t \in Txn /\ t.op = "manual" /\ t.pc = ThenFit(c, "commit") /\ t.receipt = r
        /\ t.kind = k /\ t.item = i /\ t.category = c /\ t.receiptLock = FALSE
        /\ t.keyShare = FALSE /\ t.categoryLock = FALSE /\ t.shares = {}
    BY <1>2 DEF NoTxn, Txn, Pcs, ThenFit, RequestKinds
  <1> HIDE DEF t
  <1>4. r # NULL /\ i # NULL /\ ThenFit(c, "commit") \in {"fit", "commit"}
        /\ (ThenFit(c, "commit") = "fit" <=> c # NULL)
    BY LedgerAssumption DEF ThenFit
  <1>5. Stage(t)
    BY <1>2, <1>3, <1>4 DEF Stage
  <1>6. Held(t)
    BY <1>1, <1>3, <1>4 DEF Held, NewItem, Unused
  <1>7. \A v \in Others(w) : Apart(t, txn[v]) /\ Apart(txn[v], t)
    <2> SUFFICES ASSUME NEW v \in Others(w)  PROVE Apart(t, txn[v]) /\ Apart(txn[v], t)
      OBVIOUS
    <2>1. txn[v].item # i /\ txn[v].receipt # r
      BY <1>1 DEF NewItem, Unused, Others
    <2> QED  BY <1>3, <2>1 DEF Apart, Inserting
  <1> QED  BY <1>1, <1>3, <1>5, <1>6, <1>7, BeginChange DEF t

LEMMA PatchLockStep ==
    ASSUME LedgerInvariant, NEW w \in Writers, NEW r \in Receipts, NEW k \in EntryKinds,
           NEW mark \in BOOLEAN, PatchLock(w, r, k, mark)
    PROVE  LedgerInvariant'
  <1> DEFINE pc == IF IncomeSide(k) = IncomeSide(kind[r]) THEN "commit" ELSE "read"
             t0 == [NoTxn EXCEPT !.pc = pc, !.receipt = r, !.kind = k, !.mark = mark,
                                 !.receiptLock = TRUE]
             t == [t0 EXCEPT !.op = "patch"]
  <1>1. Exists(r) /\ ReceiptFree(w, r) /\ Begin(w, "patch", t0)
    BY DEF PatchLock
  <1>2. k \in KnownKinds /\ k # "none" /\ pc \in {"commit", "read"} /\ r # NULL
    BY LedgerAssumption DEF KnownKinds
  <1> HIDE DEF pc
  <1>3. /\ t \in Txn /\ t.op = "patch" /\ t.pc = pc /\ t.receipt = r
        /\ t.kind = k /\ t.item = NULL /\ t.category = NULL /\ t.receiptLock = TRUE
        /\ t.keyShare = FALSE /\ t.categoryLock = FALSE /\ t.shares = {}
    BY <1>2 DEF NoTxn, Txn, Pcs, RequestKinds
  <1> HIDE DEF t
  <1>4. Stage(t) /\ Held(t)
    BY <1>1, <1>2, <1>3 DEF Stage, Held, Inserting, ItemWriting
  <1>5. \A v \in Others(w) : Apart(t, txn[v]) /\ Apart(txn[v], t)
    <2> SUFFICES ASSUME NEW v \in Others(w)  PROVE Apart(t, txn[v]) /\ Apart(txn[v], t)
      OBVIOUS
    <2>1. txn[v].receipt = r => ~txn[v].receiptLock /\ ~txn[v].keyShare
      BY <1>1 DEF ReceiptFree
    <2>2. txn[v].op = "manual" => txn[v].receipt # r
      BY <1>1, TxnFacts DEF Held
    <2> QED  BY <1>3, <2>1, <2>2 DEF Apart, Inserting
  <1> QED  BY <1>1, <1>3, <1>4, <1>5, BeginChange DEF t

(* A flip or a delete locks the category. *)
LEMMA CategoryLockStep ==
    ASSUME LedgerInvariant, NEW w \in Writers, NEW c \in categories,
           FlipLock(w, c) \/ CategoryRemove(w, c)
    PROVE  LedgerInvariant'
  <1>1. PICK op \in {"flip", "category_remove"}, pc \in {"clash", "commit"} :
            /\ (op = "flip" <=> pc = "clash") /\ CategoryFree(w, c)
            /\ Begin(w, op, [NoTxn EXCEPT !.pc = pc, !.category = c, !.categoryLock = TRUE])
    BY DEF FlipLock, CategoryRemove
  <1> DEFINE t0 == [NoTxn EXCEPT !.pc = pc, !.category = c, !.categoryLock = TRUE]
             t == [t0 EXCEPT !.op = op]
  <1>2. c \in Categories /\ c # NULL
    BY LedgerAssumption DEF LedgerInvariant, TypeOK
  <1>3. /\ t \in Txn /\ t.op = op /\ t.pc = pc /\ t.receipt = NULL
        /\ t.item = NULL /\ t.category = c /\ t.receiptLock = FALSE
        /\ t.keyShare = FALSE /\ t.categoryLock = TRUE /\ t.shares = {}
    BY <1>2 DEF NoTxn, Txn, Pcs, RequestKinds
  <1> HIDE DEF t
  <1>4. Stage(t) /\ Held(t)
    BY <1>1, <1>3 DEF Stage, Held, Inserting, ItemWriting
  <1>5. \A v \in Others(w) : Apart(t, txn[v]) /\ Apart(txn[v], t)
    <2> SUFFICES ASSUME NEW v \in Others(w)  PROVE Apart(t, txn[v]) /\ Apart(txn[v], t)
      OBVIOUS
    <2>1. c \notin txn[v].shares /\ (txn[v].category = c => ~txn[v].categoryLock)
      BY <1>1 DEF CategoryFree, NoCategoryLock
    <2>2. txn[v].op = "manual" => txn[v].receipt # NULL
      BY TxnFacts DEF Held
    <2> QED  BY <1>3, <2>1, <2>2 DEF Apart, Inserting
  <1> QED  BY <1>1, <1>3, <1>4, <1>5, BeginChange DEF t

LEMMA ScanLoadStep ==
    ASSUME LedgerInvariant, NEW w \in Writers, NEW r \in Receipts, ScanLoad(w, r)
    PROVE  LedgerInvariant'
  <1> DEFINE taxonomy == {<<c, isIncome[c]>> : c \in categories}
             t0 == [NoTxn EXCEPT !.pc = "lock", !.receipt = r, !.taxonomy = taxonomy]
             t == [t0 EXCEPT !.op = "scan"]
  <1>1. Exists(r) /\ Begin(w, "scan", t0) /\ r # NULL
    BY LedgerAssumption DEF ScanLoad
  <1>2. taxonomy \subseteq Categories \X BOOLEAN
    BY DEF LedgerInvariant, TypeOK
  <1> HIDE DEF taxonomy
  <1>3. /\ t \in Txn /\ t.op = "scan" /\ t.pc = "lock" /\ t.receipt = r
        /\ t.item = NULL /\ t.category = NULL /\ t.receiptLock = FALSE
        /\ t.keyShare = FALSE /\ t.categoryLock = FALSE /\ t.shares = {}
        /\ t.taxonomy = taxonomy
    BY <1>2 DEF NoTxn, Txn, Pcs, RequestKinds
  <1> HIDE DEF t
  <1>4. NULL \notin Items
    BY LedgerAssumption
  <1>5. Stage(t) /\ Held(t)
    BY <1>1, <1>2, <1>3, <1>4 DEF Stage, Held, LedgerInvariant, TypeOK
  <1>6. \A v \in Others(w) : Apart(t, txn[v]) /\ Apart(txn[v], t)
    <2> SUFFICES ASSUME NEW v \in Others(w)  PROVE Apart(t, txn[v]) /\ Apart(txn[v], t)
      OBVIOUS
    <2>1. txn[v].op = "manual" => txn[v].receipt # r
      BY <1>1, TxnFacts DEF Held
    <2> QED  BY <1>3, <2>1 DEF Apart, Inserting
  <1> QED  BY <1>1, <1>3, <1>5, <1>6, BeginChange DEF t

LEMMA FitStep ==
    ASSUME LedgerInvariant, NEW w \in Writers, Fit(w)
    PROVE  LedgerInvariant'
  <1> DEFINE s == txn[w]
             pc == IF s.op = "item_create" THEN "insert" ELSE "commit"
             t == [s EXCEPT !.shares = {s.category}, !.pc = pc]
  <1>0. pc \in Pcs
    BY DEF Pcs
  <1>1. /\ s.pc = "fit" /\ s.category \in categories /\ NoCategoryLock(w, s.category)
        /\ isIncome[s.category] = IncomeSide(s.kind) /\ Moves(w, t)
    BY DEF Fit
  <1>2. s \in Txn /\ Stage(s) /\ Held(s) /\ s.category \in Categories
    BY <1>1, TxnFacts DEF LedgerInvariant, TypeOK
  <1> HIDE DEF s
  <1>3. /\ t \in Txn /\ t.pc = pc /\ t.shares = {s.category} /\ t.op = s.op
        /\ t.receipt = s.receipt /\ t.kind = s.kind /\ t.item = s.item /\ t.category = s.category
        /\ t.receiptLock = s.receiptLock /\ t.keyShare = s.keyShare
        /\ t.categoryLock = s.categoryLock /\ t.taxonomy = s.taxonomy
    <2> HIDE DEF pc
    <2> QED  BY <1>0, <1>2 DEF Txn
  <1> HIDE DEF t
  <1>4. s # NoTxn /\ s.op \in ItemWriting
    BY <1>1, <1>2, NoTxnFields DEF Stage, ItemWriting, Inserting
  <1>5. Stage(t)
    BY <1>1, <1>2, <1>3, <1>4 DEF Stage
  <1>6. Held(t)
    BY <1>1, <1>2, <1>3 DEF Held
  <1>7. \A v \in Others(w) : Apart(t, txn[v]) /\ Apart(txn[v], t)
    <2> SUFFICES ASSUME NEW v \in Others(w)  PROVE Apart(t, txn[v]) /\ Apart(txn[v], t)
      OBVIOUS
    <2>1. Apart(s, txn[v]) /\ Apart(txn[v], s)
      BY TxnFacts DEF s
    <2>2. txn[v].category = s.category => ~txn[v].categoryLock
      BY <1>1 DEF NoCategoryLock
    <2> QED  BY <1>3, <2>1, <2>2 DEF Apart
  <1> QED  BY <1>1, <1>3, <1>5, <1>6, <1>7, MovesChange

LEMMA ItemInsertStep ==
    ASSUME LedgerInvariant, NEW w \in Writers, ItemInsert(w)
    PROVE  LedgerInvariant'
  <1> DEFINE s == txn[w]
             t == [s EXCEPT !.pc = "commit", !.keyShare = TRUE]
  <1>1. s.pc = "insert" /\ Exists(s.receipt) /\ NoReceiptLock(w, s.receipt) /\ Moves(w, t)
    BY DEF ItemInsert
  <1>2. s \in Txn /\ Stage(s) /\ Held(s)
    BY TxnFacts
  <1> HIDE DEF s
  <1>3. /\ t \in Txn /\ t.pc = "commit" /\ t.shares = s.shares /\ t.op = s.op
        /\ t.receipt = s.receipt /\ t.kind = s.kind /\ t.item = s.item /\ t.category = s.category
        /\ t.receiptLock = s.receiptLock /\ t.keyShare = TRUE
        /\ t.categoryLock = s.categoryLock
    BY <1>2 DEF Txn, Pcs
  <1> HIDE DEF t
  <1>4. s.op = "item_create" /\ s.receipt # NULL /\ s.item # NULL
    BY <1>1, <1>2, NoTxnFields DEF Stage
  <1>5. Stage(t)
    BY <1>3, <1>4 DEF Stage
  <1>6. Held(t)
    BY <1>1, <1>2, <1>3, <1>4 DEF Held
  <1>7. \A v \in Others(w) : Apart(t, txn[v]) /\ Apart(txn[v], t)
    <2> SUFFICES ASSUME NEW v \in Others(w)  PROVE Apart(t, txn[v]) /\ Apart(txn[v], t)
      OBVIOUS
    <2>1. Apart(s, txn[v]) /\ Apart(txn[v], s)
      BY TxnFacts DEF s
    <2>2. txn[v].receipt = s.receipt => ~txn[v].receiptLock
      BY <1>1 DEF NoReceiptLock
    <2> QED  BY <1>3, <2>1, <2>2 DEF Apart
  <1> QED  BY <1>1, <1>3, <1>5, <1>6, <1>7, MovesChange

(* A step that changes only the pc, the taxonomy or the item locks of a    *)
(* transaction, or shares that nobody has locked.                          *)
LEMMA PlainMove ==
    ASSUME LedgerInvariant, NEW w \in Writers, NEW t \in Txn, Moves(w, t), Stage(t),
           t.op = txn[w].op, t.receipt = txn[w].receipt, t.item = txn[w].item,
           t.category = txn[w].category, t.receiptLock = txn[w].receiptLock,
           t.keyShare = txn[w].keyShare, t.categoryLock = txn[w].categoryLock,
           t.op \in ItemWriting /\ t.pc \in {"insert", "commit"} => t.category = NULL,
           t.shares \subseteq categories, \A c \in t.shares : NoCategoryLock(w, c)
    PROVE  LedgerInvariant'
  <1>1. Held(t)
    BY TxnFacts DEF Held
  <1>2. \A v \in Others(w) : Apart(t, txn[v]) /\ Apart(txn[v], t)
    <2> SUFFICES ASSUME NEW v \in Others(w)  PROVE Apart(t, txn[v]) /\ Apart(txn[v], t)
      OBVIOUS
    <2>1. Apart(txn[w], txn[v]) /\ Apart(txn[v], txn[w])
      BY TxnFacts
    <2>2. txn[v].categoryLock => txn[v].category \notin t.shares
      BY DEF NoCategoryLock
    <2> QED  BY <2>1, <2>2 DEF Apart
  <1> QED  BY <1>1, <1>2, MovesChange

LEMMA ItemLockStep ==
    ASSUME LedgerInvariant, NEW w \in Writers, ItemLock(w)
    PROVE  LedgerInvariant'
  <1> DEFINE s == txn[w]
             pc == ThenFit(s.category, "commit")
             t == [s EXCEPT !.pc = pc, !.itemLocks = {s.item}]
  <1>1. s.pc = "item" /\ Moves(w, t)
    BY DEF ItemLock
  <1>2. s \in Txn /\ Stage(s) /\ Held(s)
    BY TxnFacts
  <1>3. s.op = "item_update" /\ s.receipt # NULL /\ s.item # NULL
    BY <1>1, <1>2, NoTxnFields DEF Stage
  <1>4. pc \in {"fit", "commit"} /\ (pc = "fit" <=> s.category # NULL)
    BY DEF ThenFit
  <1> HIDE DEF pc
  <1>5. /\ t \in Txn /\ t.pc = pc /\ t.shares = s.shares /\ t.op = s.op
        /\ t.receipt = s.receipt /\ t.item = s.item /\ t.category = s.category
        /\ t.receiptLock = s.receiptLock /\ t.keyShare = s.keyShare
        /\ t.categoryLock = s.categoryLock
    BY <1>2, <1>3, <1>4 DEF Txn, Pcs
  <1> HIDE DEF t
  <1>6. Stage(t)
    BY <1>3, <1>4, <1>5 DEF Stage
  <1>7. s.shares \subseteq categories /\ \A c \in s.shares : NoCategoryLock(w, c)
    BY <1>2, TxnFacts DEF Held, NoCategoryLock, Apart
  <1> QED  BY <1>1, <1>4, <1>5, <1>6, <1>7, PlainMove

LEMMA PatchReadStep ==
    ASSUME LedgerInvariant, NEW w \in Writers, PatchRead(w)
    PROVE  LedgerInvariant'
  <1> DEFINE s == txn[w]
             used == CategoriesOf(s.receipt)
             t == [s EXCEPT !.pc = "check", !.taxonomy = used]
  <1>1. s.pc = "read" /\ Moves(w, t)
    BY DEF PatchRead
  <1>2. s \in Txn /\ Stage(s) /\ Held(s) /\ used \subseteq Categories
    BY TxnFacts DEF LedgerInvariant, TypeOK, CategoriesOf, ItemsOf
  <1>3. s.op = "patch" /\ s.receiptLock /\ s.kind # "none"
    BY <1>1, <1>2, NoTxnFields DEF Stage
  <1> HIDE DEF used
  <1>5. /\ t \in Txn /\ t.pc = "check" /\ t.shares = s.shares /\ t.op = s.op /\ t.kind = s.kind
        /\ t.receipt = s.receipt /\ t.item = s.item /\ t.category = s.category
        /\ t.receiptLock = s.receiptLock /\ t.keyShare = s.keyShare
        /\ t.categoryLock = s.categoryLock
    BY <1>2 DEF Txn, Pcs
  <1> HIDE DEF t
  <1>6. Stage(t)
    BY <1>3, <1>5 DEF Stage
  <1>7. s.shares \subseteq categories /\ \A c \in s.shares : NoCategoryLock(w, c)
    BY <1>2, TxnFacts DEF Held, NoCategoryLock, Apart
  <1> QED  BY <1>1, <1>3, <1>5, <1>6, <1>7, PlainMove DEF ItemWriting, Inserting

LEMMA PatchCheckStep ==
    ASSUME LedgerInvariant, NEW w \in Writers, PatchCheck(w)
    PROVE  LedgerInvariant'
  <1> DEFINE s == txn[w]
             used == s.taxonomy \cap categories
             t == [s EXCEPT !.pc = "commit", !.shares = used]
  <1>1. s.pc = "check" /\ Moves(w, t) /\ \A c \in used : NoCategoryLock(w, c)
    BY DEF PatchCheck
  <1>2. s \in Txn /\ Stage(s) /\ used \subseteq Categories /\ used \subseteq categories
    BY TxnFacts DEF LedgerInvariant, TypeOK
  <1>3. s.op = "patch" /\ s.receiptLock /\ s.kind # "none"
    BY <1>1, <1>2, NoTxnFields DEF Stage
  <1> HIDE DEF used
  <1>5. /\ t \in Txn /\ t.pc = "commit" /\ t.shares = used /\ t.op = s.op /\ t.kind = s.kind
        /\ t.receipt = s.receipt /\ t.item = s.item /\ t.category = s.category
        /\ t.receiptLock = s.receiptLock /\ t.keyShare = s.keyShare
        /\ t.categoryLock = s.categoryLock
    BY <1>2 DEF Txn, Pcs
  <1> HIDE DEF t
  <1>6. Stage(t)
    BY <1>3, <1>5 DEF Stage
  <1> QED  BY <1>1, <1>2, <1>3, <1>5, <1>6, PlainMove DEF ItemWriting, Inserting

LEMMA FlipCheckStep ==
    ASSUME LedgerInvariant, NEW w \in Writers, FlipCheck(w)
    PROVE  LedgerInvariant'
  <1> DEFINE s == txn[w]
             t == [s EXCEPT !.pc = "commit"]
  <1>1. s.pc = "clash" /\ Moves(w, t)
    BY DEF FlipCheck
  <1>2. s \in Txn /\ Stage(s) /\ Held(s)
    BY TxnFacts
  <1>3. s.op = "flip" /\ s.categoryLock
    BY <1>1, <1>2, NoTxnFields DEF Stage
  <1>5. /\ t \in Txn /\ t.pc = "commit" /\ t.shares = s.shares /\ t.op = s.op
        /\ t.receipt = s.receipt /\ t.item = s.item /\ t.category = s.category
        /\ t.receiptLock = s.receiptLock /\ t.keyShare = s.keyShare
        /\ t.categoryLock = s.categoryLock
    BY <1>2 DEF Txn, Pcs
  <1> HIDE DEF t
  <1>6. Stage(t)
    BY <1>3, <1>5 DEF Stage
  <1>7. s.shares \subseteq categories /\ \A c \in s.shares : NoCategoryLock(w, c)
    BY <1>2, TxnFacts DEF Held, NoCategoryLock, Apart
  <1> QED  BY <1>1, <1>3, <1>5, <1>6, <1>7, PlainMove DEF ItemWriting, Inserting

(* A scan that holds its receipt adds an item, or none. *)
LEMMA InsertScannedStep ==
    ASSUME LedgerInvariant, NEW w \in Writers, NEW t \in Txn, InsertScanned(w, t),
           t.op = "scan", t.receiptLock, t.kind # "none", t.item = NULL, t.category = NULL,
           txn[w].taxonomy \subseteq Categories \X BOOLEAN,
           Held(t), \A v \in Others(w) : Apart(t, txn[v]) /\ Apart(txn[v], t)
    PROVE  LedgerInvariant'
  <1>1. CASE Moves(w, [t EXCEPT !.pc = "commit"])
    <2> DEFINE u == [t EXCEPT !.pc = "commit"]
    <2>1. /\ u \in Txn /\ u.pc = "commit" /\ u.shares = t.shares /\ u.op = t.op /\ u.kind = t.kind
          /\ u.receipt = t.receipt /\ u.item = t.item /\ u.category = t.category
          /\ u.receiptLock = t.receiptLock /\ u.keyShare = t.keyShare
          /\ u.categoryLock = t.categoryLock
      BY DEF Txn, Pcs
    <2> HIDE DEF u
    <2>2. Stage(u) /\ Held(u)
      BY <2>1 DEF Stage, Held
    <2>3. \A v \in Others(w) : Apart(u, txn[v]) /\ Apart(txn[v], u)
      BY <2>1 DEF Apart
    <2> QED  BY <1>1, <2>1, <2>2, <2>3, MovesChange DEF u
  <1>2. ASSUME NEW i \in Items, NEW c \in Picks(w, t.kind), NewItem(i),
               Moves(w, [t EXCEPT !.pc = ThenFit(c, "commit"), !.item = i, !.category = c])
        PROVE  LedgerInvariant'
    <2> DEFINE pc == ThenFit(c, "commit")
               u == [t EXCEPT !.pc = pc, !.item = i, !.category = c]
    <2>1. c \in Categories \cup {NULL}
      BY DEF Picks
    <2>2. pc \in {"fit", "commit"} /\ (pc = "fit" <=> c # NULL) /\ i # NULL
      BY LedgerAssumption DEF ThenFit
    <2> HIDE DEF pc
    <2>3. /\ u \in Txn /\ u.pc = pc /\ u.shares = t.shares /\ u.op = t.op /\ u.kind = t.kind
          /\ u.receipt = t.receipt /\ u.item = i /\ u.category = c
          /\ u.receiptLock = t.receiptLock /\ u.keyShare = t.keyShare
          /\ u.categoryLock = t.categoryLock
      BY <2>1, <2>2 DEF Txn, Pcs
    <2> HIDE DEF u
    <2>4. t.categoryLock => NULL \in categories
      BY DEF Held
    <2>5. ~t.categoryLock
      BY <2>4, LedgerAssumption DEF LedgerInvariant, TypeOK, Txn
    <2>6. Stage(u)
      BY <2>2, <2>3 DEF Stage
    <2>7. Held(u)
      BY <1>2, <2>2, <2>3, <2>5 DEF Held, NewItem, Unused
    <2>8. \A v \in Others(w) : Apart(u, txn[v]) /\ Apart(txn[v], u)
      <3> SUFFICES ASSUME NEW v \in Others(w)  PROVE Apart(u, txn[v]) /\ Apart(txn[v], u)
        OBVIOUS
      <3>1. txn[v].item # i
        BY <1>2 DEF NewItem, Unused, Others
      <3> QED  BY <2>3, <2>5, <3>1 DEF Apart
    <2> QED  BY <1>2, <2>3, <2>6, <2>7, <2>8, MovesChange DEF u, pc
  <1> QED  BY <1>1, <1>2 DEF InsertScanned

(* The receipt of a scan is locked: t is what its locals become. *)
LEMMA ScanLocks ==
    ASSUME LedgerInvariant, NEW w \in Writers, txn[w].pc = "lock", Exists(txn[w].receipt),
           ReceiptFree(w, txn[w].receipt),
           NEW t \in Txn, t.pc \in {"lock", "wipe"}, t.kind # "none", t.receiptLock,
           t.op = txn[w].op, t.receipt = txn[w].receipt, t.item = txn[w].item,
           t.category = txn[w].category, t.taxonomy = txn[w].taxonomy, t.shares = txn[w].shares,
           t.keyShare = txn[w].keyShare, t.categoryLock = txn[w].categoryLock
    PROVE  /\ t.op = "scan" /\ t.item = NULL /\ t.category = NULL
           /\ txn[w].taxonomy \subseteq Categories \X BOOLEAN
           /\ Stage(t) /\ Held(t)
           /\ \A v \in Others(w) : Apart(t, txn[v]) /\ Apart(txn[v], t)
  <1> DEFINE s == txn[w]
  <1>1. s \in Txn /\ Stage(s) /\ Held(s)
    BY TxnFacts
  <1>2. /\ s.op = "scan" /\ s.receipt # NULL /\ s.item = NULL /\ s.category = NULL
        /\ s.taxonomy \subseteq Categories \X BOOLEAN
    BY <1>1, NoTxnFields DEF Stage
  <1>3. Stage(t) /\ Held(t)
    BY <1>1, <1>2 DEF Stage, Held
  <1>4. \A v \in Others(w) : Apart(t, txn[v]) /\ Apart(txn[v], t)
    <2> SUFFICES ASSUME NEW v \in Others(w)  PROVE Apart(t, txn[v]) /\ Apart(txn[v], t)
      OBVIOUS
    <2>1. Apart(s, txn[v]) /\ Apart(txn[v], s)
      BY TxnFacts
    <2>2. txn[v].receipt = s.receipt => ~txn[v].receiptLock /\ ~txn[v].keyShare
      BY DEF ReceiptFree
    <2> QED  BY <2>1, <2>2 DEF Apart
  <1> QED  BY <1>2, <1>3, <1>4

LEMMA LockWaitStep ==
    ASSUME LedgerInvariant, NEW w \in Writers, LockWait(w)
    PROVE  LedgerInvariant'
  <1> DEFINE s == txn[w]
             t == [s EXCEPT !.sawNone = TRUE]
  <1>1. s.pc = "lock" /\ Moves(w, t)
    BY DEF LockWait
  <1>2. s \in Txn /\ Stage(s) /\ Held(s)
    BY TxnFacts
  <1>3. /\ t \in Txn /\ t.op = s.op /\ t.receipt = s.receipt /\ t.item = s.item /\ t.pc = s.pc
        /\ t.category = s.category /\ t.taxonomy = s.taxonomy /\ t.kind = s.kind
        /\ t.receiptLock = s.receiptLock /\ t.keyShare = s.keyShare
        /\ t.categoryLock = s.categoryLock /\ t.shares = s.shares /\ t.itemLocks = s.itemLocks
    BY <1>2 DEF Txn
  <1> HIDE DEF t
  <1>4. Stage(t) /\ Held(t)
    BY <1>1, <1>2, <1>3, NoTxnFields DEF Stage, Held
  <1>5. \A v \in Others(w) : Apart(t, txn[v]) /\ Apart(txn[v], t)
    BY <1>3, TxnFacts DEF Apart
  <1> QED  BY <1>1, <1>3, <1>4, <1>5, MovesChange

LEMMA VerifyLockStep ==
    ASSUME LedgerInvariant, NEW w \in Writers, VerifyLock(w)
    PROVE  LedgerInvariant'
  <1> DEFINE r == txn[w].receipt
             t == [txn[w] EXCEPT !.kind = kind[r], !.receiptLock = TRUE]
  <1>1. /\ txn[w].pc = "lock" /\ Exists(r) /\ ReceiptFree(w, r)
        /\ InsertScanned(w, t) \/ Moves(w, [t EXCEPT !.pc = "commit"])
    BY DEF VerifyLock
  <1>2. txn[w] \in Txn /\ Stage(txn[w])
    BY TxnFacts
  <1>3. r \in Receipts
    BY <1>1, <1>2, NoTxnFields DEF Stage, Txn
  <1>4. kind[r] \in KnownKinds /\ kind[r] # "none"
    BY <1>1, <1>3 DEF LedgerInvariant, TypeOK, Exists
  <1>5. /\ t \in Txn /\ t.pc = "lock" /\ t.shares = txn[w].shares /\ t.op = txn[w].op
        /\ t.kind = kind[r] /\ t.receipt = r /\ t.item = txn[w].item
        /\ t.category = txn[w].category /\ t.receiptLock /\ t.keyShare = txn[w].keyShare
        /\ t.categoryLock = txn[w].categoryLock /\ t.taxonomy = txn[w].taxonomy
    BY <1>1, <1>2, <1>4 DEF Txn
  <1> HIDE DEF t
  <1>6. /\ t.op = "scan" /\ t.item = NULL /\ t.category = NULL
        /\ txn[w].taxonomy \subseteq Categories \X BOOLEAN
        /\ Stage(t) /\ Held(t)
        /\ \A v \in Others(w) : Apart(t, txn[v]) /\ Apart(txn[v], t)
    BY <1>1, <1>4, <1>5, ScanLocks
  <1>7. InsertScanned(w, t)
    BY <1>1 DEF InsertScanned
  <1> QED  BY <1>4, <1>5, <1>6, <1>7, InsertScannedStep

LEMMA ExtractionLockStep ==
    ASSUME LedgerInvariant, NEW w \in Writers, ExtractionLock(w)
    PROVE  LedgerInvariant'
  <1>1. PICK k \in ResultKinds :
            /\ Writable(k)
            /\ Moves(w, [txn[w] EXCEPT !.pc = "wipe", !.kind = k, !.receiptLock = TRUE])
    BY DEF ExtractionLock
  <1> DEFINE r == txn[w].receipt
             t == [txn[w] EXCEPT !.pc = "wipe", !.kind = k, !.receiptLock = TRUE]
  <1>2. /\ txn[w].pc = "lock" /\ Exists(r) /\ ReceiptFree(w, r)
        /\ k \in KnownKinds /\ k # "none"
    BY <1>1 DEF ExtractionLock, Writable, Scannable, KnownKinds
  <1>3. txn[w] \in Txn
    BY TxnFacts
  <1>4. /\ t \in Txn /\ t.pc = "wipe" /\ t.shares = txn[w].shares /\ t.op = txn[w].op
        /\ t.kind = k /\ t.receipt = r /\ t.item = txn[w].item
        /\ t.category = txn[w].category /\ t.receiptLock /\ t.keyShare = txn[w].keyShare
        /\ t.categoryLock = txn[w].categoryLock /\ t.taxonomy = txn[w].taxonomy
    BY <1>2, <1>3 DEF Txn, Pcs
  <1>5. Moves(w, t)
    BY <1>1
  <1> HIDE DEF t
  <1>6. /\ Stage(t) /\ Held(t)
        /\ \A v \in Others(w) : Apart(t, txn[v]) /\ Apart(txn[v], t)
    BY <1>2, <1>4, ScanLocks
  <1> QED  BY <1>4, <1>5, <1>6, MovesChange

LEMMA ExtractionWipeStep ==
    ASSUME LedgerInvariant, NEW w \in Writers, ExtractionWipe(w)
    PROVE  LedgerInvariant'
  <1> DEFINE s == txn[w]
             wiped == {i.id : i \in ItemsOf(s.receipt)}
             t == [s EXCEPT !.itemLocks = wiped]
  <1>1. s.pc = "wipe" /\ InsertScanned(w, t)
    BY DEF ExtractionWipe
  <1>2. s \in Txn /\ Stage(s) /\ Held(s) /\ wiped \subseteq Items
    BY TxnFacts DEF LedgerInvariant, TypeOK, ItemsOf
  <1>3. /\ s.op = "scan" /\ s.receiptLock /\ s.kind # "none" /\ s.item = NULL /\ s.category = NULL
        /\ s.taxonomy \subseteq Categories \X BOOLEAN
    BY <1>1, <1>2, NoTxnFields DEF Stage
  <1> HIDE DEF wiped
  <1>4. /\ t \in Txn /\ t.pc = s.pc /\ t.shares = s.shares /\ t.op = s.op /\ t.kind = s.kind
        /\ t.receipt = s.receipt /\ t.item = s.item /\ t.category = s.category
        /\ t.receiptLock = s.receiptLock /\ t.keyShare = s.keyShare
        /\ t.categoryLock = s.categoryLock
    BY <1>2 DEF Txn
  <1> HIDE DEF t
  <1>5. Held(t)
    BY <1>2, <1>4 DEF Held
  <1>6. \A v \in Others(w) : Apart(t, txn[v]) /\ Apart(txn[v], t)
    BY <1>4, TxnFacts DEF Apart
  <1> QED  BY <1>1, <1>3, <1>4, <1>5, <1>6, InsertScannedStep


-----------------------------------------------------------------------------
(* The steps that write the tables. *)

LEMMA CommitFacts ==
    ASSUME LedgerInvariant, NEW w \in Writers, Commits(w)
    PROVE  /\ txn' = [txn EXCEPT ![w] = NoTxn] /\ mix' = mix /\ requests' \in 0..MaxRequests
           /\ txn[w].pc = "commit" /\ txn[w] # NoTxn
  BY NoTxnFields DEF Commits, LedgerInvariant, TypeOK

LEMMA ArrivesFacts ==
    ASSUME LedgerInvariant, NEW w \in Writers, NEW op, Arrives(w, op), txn' = txn
    PROVE  /\ txn' = [txn EXCEPT ![w] = NoTxn] /\ mix' = mix /\ requests' \in 0..MaxRequests
  BY LedgerAssumption DEF Arrives, LedgerInvariant, TypeOK, TxnsOK

LEMMA ItemCreatedStep ==
    ASSUME LedgerInvariant, NEW w \in Writers, ItemCreated(w)
    PROVE  LedgerInvariant'
  <1> DEFINE s == txn[w]
             row == [id |-> s.item, receipt |-> s.receipt, category |-> s.category]
  <1>1. /\ s.op = "item_create" /\ Commits(w) /\ items' = items \cup {row}
        /\ kind' = kind /\ reviewed' = reviewed /\ isIncome' = isIncome /\ categories' = categories
    BY DEF ItemCreated
  <1>2. s \in Txn /\ Stage(s) /\ Held(s) /\ s.pc = "commit" /\ s # NoTxn
    BY <1>1, TxnFacts, CommitFacts
  <1>3. s.receipt \in Receipts /\ s.item \in Items /\ s.item # NULL /\ s.keyShare
    BY <1>1, <1>2 DEF Stage, Txn
  <1>4. Exists(s.receipt) /\ s.category \in categories \cup {NULL} /\ \A i \in items : i.id # s.item
    BY <1>1, <1>2, <1>3 DEF Held, Inserting, ItemWriting
  <1>5. row.id = s.item /\ row.receipt = s.receipt /\ row.category = s.category
    OBVIOUS
  <1>6. row \in [id : Items, receipt : Receipts, category : Categories \cup {NULL}]
    BY <1>2, <1>3 DEF Txn
  <1> HIDE DEF row
  <1>7. \A v \in Others(w), u \in Txn : u = txn[v] => Held(u)'
    <2> SUFFICES ASSUME NEW v \in Others(w), NEW u \in Txn, u = txn[v]  PROVE Held(u)'
      OBVIOUS
    <2>1. Held(u) /\ Apart(s, u)
      BY TxnFacts
    <2>2. u.item # s.item
      BY <1>1, <1>3, <2>1 DEF Apart, Inserting
    <2> QED  BY <1>1, <1>5, <2>1, <2>2 DEF Held, Exists
  <1>8. IdsUnique'
    BY <1>1, <1>4, <1>5 DEF LedgerInvariant, IdsUnique
  <1>9. ReferencesExist'
    BY <1>1, <1>4, <1>5 DEF LedgerInvariant, ReferencesExist, Exists
  <1>10. /\ kind' \in [Receipts -> KnownKinds \cup {"none"}] /\ reviewed' \in [Receipts -> BOOLEAN]
         /\ isIncome' \in [Categories -> BOOLEAN] /\ categories' \subseteq Categories
         /\ items' \subseteq [id : Items, receipt : Receipts, category : Categories \cup {NULL}]
    BY <1>1, <1>6 DEF LedgerInvariant, TypeOK
  <1> QED  BY <1>1, <1>7, <1>8, <1>9, <1>10, CommitFacts, TableChange

LEMMA ItemUpdatedStep ==
    ASSUME LedgerInvariant, NEW w \in Writers, ItemUpdated(w)
    PROVE  LedgerInvariant'
  <1> DEFINE s == txn[w]
             R == [id : Items, receipt : Receipts, category : Categories \cup {NULL}]
             new(i) == IF i.id = s.item THEN [i EXCEPT !.category = s.category] ELSE i
  <1>1. /\ s.op = "item_update" /\ Commits(w) /\ items' = {new(i) : i \in items}
        /\ kind' = kind /\ reviewed' = reviewed /\ isIncome' = isIncome /\ categories' = categories
    BY DEF ItemUpdated
  <1>2. s \in Txn /\ Stage(s) /\ Held(s) /\ s.pc = "commit" /\ s # NoTxn
    BY <1>1, TxnFacts, CommitFacts
  <1>3. s.category \in categories \cup {NULL} /\ s.category \in Categories \cup {NULL}
    BY <1>1, <1>2 DEF Held, Inserting, ItemWriting, Txn
  <1>4. \A i \in items : /\ new(i) \in R /\ new(i).id = i.id /\ new(i).receipt = i.receipt
                         /\ new(i).category \in {i.category, s.category}
    BY <1>3 DEF LedgerInvariant, TypeOK
  <1> HIDE DEF new
  <1>5. \A v \in Others(w), u \in Txn : u = txn[v] => Held(u)'
    <2> SUFFICES ASSUME NEW v \in Others(w), NEW u \in Txn, u = txn[v]  PROVE Held(u)'
      OBVIOUS
    <2>1. Held(u)
      BY TxnFacts
    <2> QED  BY <1>1, <1>4, <2>1 DEF Held, Exists
  <1>6. IdsUnique'
    BY <1>1, <1>4 DEF LedgerInvariant, IdsUnique
  <1>7. ReferencesExist'
    BY <1>1, <1>3, <1>4 DEF LedgerInvariant, ReferencesExist, Exists
  <1>8. /\ kind' \in [Receipts -> KnownKinds \cup {"none"}] /\ reviewed' \in [Receipts -> BOOLEAN]
        /\ isIncome' \in [Categories -> BOOLEAN] /\ categories' \subseteq Categories
        /\ items' \subseteq R
    BY <1>1, <1>4 DEF LedgerInvariant, TypeOK
  <1> QED  BY <1>1, <1>5, <1>6, <1>7, <1>8, CommitFacts, TableChange

LEMMA ItemRemoveStep ==
    ASSUME LedgerInvariant, NEW w \in Writers, NEW i \in items, ItemRemove(w, i)
    PROVE  LedgerInvariant'
  <1>1. /\ Arrives(w, "item_remove") /\ items' = items \ {i} /\ txn' = txn
        /\ kind' = kind /\ reviewed' = reviewed /\ isIncome' = isIncome /\ categories' = categories
    BY DEF ItemRemove
  <1>2. \A v \in Others(w), u \in Txn : u = txn[v] => Held(u)'
    <2> SUFFICES ASSUME NEW v \in Others(w), NEW u \in Txn, u = txn[v]  PROVE Held(u)'
      OBVIOUS
    <2> QED  BY <1>1, TxnFacts DEF Held, Exists
  <1>3. IdsUnique' /\ ReferencesExist'
    BY <1>1 DEF LedgerInvariant, IdsUnique, ReferencesExist, Exists
  <1>4. /\ kind' \in [Receipts -> KnownKinds \cup {"none"}] /\ reviewed' \in [Receipts -> BOOLEAN]
        /\ isIncome' \in [Categories -> BOOLEAN] /\ categories' \subseteq Categories
        /\ items' \subseteq [id : Items, receipt : Receipts, category : Categories \cup {NULL}]
    BY <1>1 DEF LedgerInvariant, TypeOK
  <1> QED  BY <1>1, <1>2, <1>3, <1>4, ArrivesFacts, TableChange

LEMMA ManualCreatedStep ==
    ASSUME LedgerInvariant, NEW w \in Writers, ManualCreated(w)
    PROVE  LedgerInvariant'
  <1> DEFINE s == txn[w]
             row == [id |-> s.item, receipt |-> s.receipt, category |-> s.category]
  <1>1. /\ s.op = "manual" /\ Commits(w) /\ items' = items \cup {row}
        /\ kind' = [kind EXCEPT ![s.receipt] = s.kind]
        /\ reviewed' = [reviewed EXCEPT ![s.receipt] = TRUE]
        /\ isIncome' = isIncome /\ categories' = categories
    BY DEF ManualCreated
  <1>2. s \in Txn /\ Stage(s) /\ Held(s) /\ s.pc = "commit" /\ s # NoTxn
    BY <1>1, TxnFacts, CommitFacts
  <1>3. s.item \in Items /\ s.item # NULL /\ s.kind \in KnownKinds /\ s.kind # "none"
    BY <1>1, <1>2 DEF Stage, Txn
  <1>4. /\ s.receipt \in Receipts /\ s.category \in categories \cup {NULL}
        /\ \A i \in items : i.id # s.item
    BY <1>1, <1>2 DEF Held, Inserting, ItemWriting, Txn
  <1>5. row.id = s.item /\ row.receipt = s.receipt /\ row.category = s.category
    OBVIOUS
  <1>6. row \in [id : Items, receipt : Receipts, category : Categories \cup {NULL}]
    BY <1>2, <1>3, <1>4 DEF Txn
  <1> HIDE DEF row
  <1>7. \A r \in Receipts : kind'[r] = IF r = s.receipt THEN s.kind ELSE kind[r]
    BY <1>1 DEF LedgerInvariant, TypeOK
  <1>8. \A v \in Others(w), u \in Txn : u = txn[v] => Held(u)'
    <2> SUFFICES ASSUME NEW v \in Others(w), NEW u \in Txn, u = txn[v]  PROVE Held(u)'
      OBVIOUS
    <2>1. Held(u) /\ Apart(s, u)
      BY TxnFacts
    <2>2. u.item # s.item /\ u.receipt # s.receipt /\ u.receipt \in Receipts \cup {NULL}
      BY <1>1, <1>3, <2>1 DEF Apart, Inserting, Txn
    <2> QED  BY <1>1, <1>5, <1>7, <2>1, <2>2 DEF Held, Exists
  <1>9. IdsUnique'
    BY <1>1, <1>4, <1>5 DEF LedgerInvariant, IdsUnique
  <1>10. ReferencesExist'
    BY <1>1, <1>3, <1>4, <1>5, <1>7 DEF LedgerInvariant, ReferencesExist, Exists, TypeOK
  <1>11. /\ kind' \in [Receipts -> KnownKinds \cup {"none"}] /\ reviewed' \in [Receipts -> BOOLEAN]
         /\ isIncome' \in [Categories -> BOOLEAN] /\ categories' \subseteq Categories
         /\ items' \subseteq [id : Items, receipt : Receipts, category : Categories \cup {NULL}]
    BY <1>1, <1>3, <1>4, <1>6 DEF LedgerInvariant, TypeOK
  <1> QED  BY <1>1, <1>8, <1>9, <1>10, <1>11, CommitFacts, TableChange

(* A locked receipt exists before and after its kind is written. *)
LEMMA KindWritten ==
    ASSUME LedgerInvariant, NEW w \in Writers, txn[w].receiptLock, txn[w].kind # "none",
           kind' = [kind EXCEPT ![txn[w].receipt] = txn[w].kind]
    PROVE  /\ txn[w].receipt \in Receipts /\ txn[w].kind \in KnownKinds /\ Exists(txn[w].receipt)
           /\ kind' \in [Receipts -> KnownKinds \cup {"none"}]
           /\ \A r \in Receipts : Exists(r)' <=> Exists(r)
  <1>1. txn[w] \in Txn /\ Held(txn[w])
    BY TxnFacts
  <1>2. txn[w].receipt \in Receipts /\ txn[w].kind \in KnownKinds /\ Exists(txn[w].receipt)
    BY <1>1 DEF Held, Txn
  <1> QED  BY <1>2 DEF LedgerInvariant, TypeOK, Exists

LEMMA PatchedStep ==
    ASSUME LedgerInvariant, NEW w \in Writers, Patched(w)
    PROVE  LedgerInvariant'
  <1> DEFINE s == txn[w]
  <1>1. /\ s.op = "patch" /\ Commits(w)
        /\ kind' = [kind EXCEPT ![s.receipt] = s.kind]
        /\ reviewed' = [reviewed EXCEPT ![s.receipt] = @ \/ s.mark]
        /\ isIncome' = isIncome /\ categories' = categories /\ items' = items
    BY DEF Patched
  <1>2. s \in Txn /\ Stage(s) /\ s.pc = "commit" /\ s # NoTxn
    BY <1>1, TxnFacts, CommitFacts
  <1>3. s.receiptLock /\ s.kind # "none" /\ s.mark \in BOOLEAN
    BY <1>1, <1>2 DEF Stage, Txn
  <1>4. /\ s.receipt \in Receipts /\ kind' \in [Receipts -> KnownKinds \cup {"none"}]
        /\ \A r \in Receipts : Exists(r)' <=> Exists(r)
    BY <1>1, <1>3, KindWritten
  <1>5. \A v \in Others(w), u \in Txn : u = txn[v] => Held(u)'
    <2> SUFFICES ASSUME NEW v \in Others(w), NEW u \in Txn, u = txn[v]  PROVE Held(u)'
      OBVIOUS
    <2>1. Held(u) /\ u.receipt \in Receipts \cup {NULL}
      BY TxnFacts DEF Txn
    <2> QED  BY <1>1, <1>4, <2>1 DEF Held
  <1>6. IdsUnique' /\ ReferencesExist'
    BY <1>1, <1>4 DEF LedgerInvariant, IdsUnique, ReferencesExist, TypeOK
  <1>7. reviewed' \in [Receipts -> BOOLEAN]
    <2>1. (reviewed[s.receipt] \/ s.mark) \in BOOLEAN
      BY Zenon
    <2> QED  BY <1>1, <1>4, <2>1, Zenon DEF LedgerInvariant, TypeOK
  <1>8. /\ isIncome' \in [Categories -> BOOLEAN] /\ categories' \subseteq Categories
        /\ items' \subseteq [id : Items, receipt : Receipts, category : Categories \cup {NULL}]
    BY <1>1 DEF LedgerInvariant, TypeOK
  <1> QED  BY <1>1, <1>4, <1>5, <1>6, <1>7, <1>8, CommitFacts, TableChange

LEMMA DeleteReceiptStep ==
    ASSUME LedgerInvariant, NEW w \in Writers, NEW r \in Receipts, DeleteReceipt(w, r)
    PROVE  LedgerInvariant'
  <1>1. /\ Arrives(w, "delete") /\ Exists(r) /\ ReceiptFree(w, r)
        /\ kind' = [kind EXCEPT ![r] = "none"] /\ reviewed' = [reviewed EXCEPT ![r] = FALSE]
        /\ items' = items \ ItemsOf(r)
        /\ isIncome' = isIncome /\ categories' = categories /\ txn' = txn
    BY DEF DeleteReceipt
  <1>2. \A q \in Receipts : kind'[q] = IF q = r THEN "none" ELSE kind[q]
    BY <1>1 DEF LedgerInvariant, TypeOK
  <1>3. \A v \in Others(w), u \in Txn : u = txn[v] => Held(u)'
    <2> SUFFICES ASSUME NEW v \in Others(w), NEW u \in Txn, u = txn[v]  PROVE Held(u)'
      OBVIOUS
    <2>1. Held(u) /\ u.receipt \in Receipts \cup {NULL}
      BY TxnFacts DEF Txn
    <2>2. u.receipt = r => ~u.receiptLock /\ ~u.keyShare
      BY <1>1 DEF ReceiptFree
    <2> QED  BY <1>1, <1>2, <2>1, <2>2 DEF Held, Exists
  <1>4. IdsUnique' /\ ReferencesExist'
    BY <1>1, <1>2 DEF LedgerInvariant, IdsUnique, ReferencesExist, TypeOK, Exists, ItemsOf
  <1>5. /\ kind' \in [Receipts -> KnownKinds \cup {"none"}] /\ reviewed' \in [Receipts -> BOOLEAN]
        /\ isIncome' \in [Categories -> BOOLEAN] /\ categories' \subseteq Categories
        /\ items' \subseteq [id : Items, receipt : Receipts, category : Categories \cup {NULL}]
    BY <1>1 DEF LedgerInvariant, TypeOK
  <1> QED  BY <1>1, <1>3, <1>4, <1>5, ArrivesFacts, TableChange

LEMMA CategoryCreateStep ==
    ASSUME LedgerInvariant, NEW w \in Writers, NEW c \in Categories, NEW income \in BOOLEAN,
           CategoryCreate(w, c, income)
    PROVE  LedgerInvariant'
  <1>1. /\ Arrives(w, "category_create") /\ \A v \in Writers : txn[v].category # c
        /\ categories' = categories \cup {c} /\ isIncome' = [isIncome EXCEPT ![c] = income]
        /\ kind' = kind /\ reviewed' = reviewed /\ items' = items /\ txn' = txn
    BY DEF CategoryCreate
  <1>2. \A v \in Others(w), u \in Txn : u = txn[v] => Held(u)'
    <2> SUFFICES ASSUME NEW v \in Others(w), NEW u \in Txn, u = txn[v]  PROVE Held(u)'
      OBVIOUS
    <2>1. Held(u) /\ u.category # c /\ u.category \in Categories \cup {NULL}
      BY <1>1, TxnFacts DEF Txn, Others
    <2>2. u.category # NULL => isIncome'[u.category] = isIncome[u.category]
      BY <1>1, <2>1 DEF LedgerInvariant, TypeOK
    <2> QED  BY <1>1, <2>1, <2>2 DEF Held, Exists
  <1>3. IdsUnique' /\ ReferencesExist'
    BY <1>1 DEF LedgerInvariant, IdsUnique, ReferencesExist, Exists
  <1>4. /\ kind' \in [Receipts -> KnownKinds \cup {"none"}] /\ reviewed' \in [Receipts -> BOOLEAN]
        /\ isIncome' \in [Categories -> BOOLEAN] /\ categories' \subseteq Categories
        /\ items' \subseteq [id : Items, receipt : Receipts, category : Categories \cup {NULL}]
    BY <1>1 DEF LedgerInvariant, TypeOK
  <1> QED  BY <1>1, <1>2, <1>3, <1>4, ArrivesFacts, TableChange

LEMMA FlippedStep ==
    ASSUME LedgerInvariant, NEW w \in Writers, Flipped(w)
    PROVE  LedgerInvariant'
  <1> DEFINE s == txn[w]
             c == s.category
  <1>1. /\ s.op = "flip" /\ Commits(w) /\ isIncome' = [isIncome EXCEPT ![c] = ~@]
        /\ kind' = kind /\ reviewed' = reviewed /\ categories' = categories /\ items' = items
    BY DEF Flipped
  <1>2. s \in Txn /\ Stage(s) /\ Held(s) /\ s.pc = "commit" /\ s # NoTxn
    BY <1>1, TxnFacts, CommitFacts
  <1>3. s.categoryLock /\ c \in categories
    BY <1>1, <1>2 DEF Stage, Held
  <1>4. \A d \in Categories : d # c => isIncome'[d] = isIncome[d]
    BY <1>1 DEF LedgerInvariant, TypeOK
  <1>5. \A v \in Others(w), u \in Txn : u = txn[v] => Held(u)'
    <2> SUFFICES ASSUME NEW v \in Others(w), NEW u \in Txn, u = txn[v]  PROVE Held(u)'
      OBVIOUS
    <2>1. Held(u) /\ Apart(s, u) /\ u.shares \subseteq Categories
      BY TxnFacts DEF Txn
    <2>2. c \notin u.shares
      BY <1>3, <2>1 DEF Apart
    <2>3. \A d \in u.shares : isIncome'[d] = isIncome[d]
      BY <1>4, <2>1, <2>2
    <2> QED  BY <1>1, <2>1, <2>3 DEF Held, Exists
  <1>6. IdsUnique' /\ ReferencesExist'
    BY <1>1 DEF LedgerInvariant, IdsUnique, ReferencesExist, Exists
  <1>7. isIncome' \in [Categories -> BOOLEAN]
    BY <1>1, Zenon DEF LedgerInvariant, TypeOK
  <1>8. /\ kind' \in [Receipts -> KnownKinds \cup {"none"}] /\ reviewed' \in [Receipts -> BOOLEAN]
        /\ categories' \subseteq Categories
        /\ items' \subseteq [id : Items, receipt : Receipts, category : Categories \cup {NULL}]
    BY <1>1 DEF LedgerInvariant, TypeOK
  <1> QED  BY <1>1, <1>5, <1>6, <1>7, <1>8, CommitFacts, TableChange

LEMMA CategoryRemovedStep ==
    ASSUME LedgerInvariant, NEW w \in Writers, CategoryRemoved(w)
    PROVE  LedgerInvariant'
  <1> DEFINE s == txn[w]
             c == s.category
             R == [id : Items, receipt : Receipts, category : Categories \cup {NULL}]
             new(i) == IF i.category = c THEN [i EXCEPT !.category = NULL] ELSE i
  <1>1. /\ s.op = "category_remove" /\ Commits(w) /\ categories' = categories \ {c}
        /\ items' = {new(i) : i \in items}
        /\ kind' = kind /\ reviewed' = reviewed /\ isIncome' = isIncome
    BY DEF CategoryRemoved, Uncategorized
  <1>2. s \in Txn /\ Stage(s) /\ Held(s) /\ s.pc = "commit" /\ s # NoTxn
    BY <1>1, TxnFacts, CommitFacts
  <1>3. s.categoryLock /\ c \in categories
    BY <1>1, <1>2 DEF Stage, Held
  <1>4. \A i \in items : /\ new(i) \in R /\ new(i).id = i.id /\ new(i).receipt = i.receipt
                         /\ new(i).category # c \/ c = NULL
                         /\ new(i).category \in {i.category, NULL}
    BY DEF LedgerInvariant, TypeOK
  <1> HIDE DEF new
  <1>5. \A v \in Others(w), u \in Txn : u = txn[v] => Held(u)'
    <2> SUFFICES ASSUME NEW v \in Others(w), NEW u \in Txn, u = txn[v]  PROVE Held(u)'
      OBVIOUS
    <2>1. Held(u) /\ Apart(s, u)
      BY TxnFacts
    <2>2. c \notin u.shares /\ (u.categoryLock => u.category # c)
      BY <1>3, <2>1 DEF Apart
    <2> QED  BY <1>1, <1>4, <2>1, <2>2 DEF Held, Exists
  <1>6. IdsUnique'
    BY <1>1, <1>4 DEF LedgerInvariant, IdsUnique
  <1>7. ReferencesExist'
    BY <1>1, <1>4 DEF LedgerInvariant, ReferencesExist, Exists
  <1>8. /\ kind' \in [Receipts -> KnownKinds \cup {"none"}] /\ reviewed' \in [Receipts -> BOOLEAN]
        /\ isIncome' \in [Categories -> BOOLEAN] /\ categories' \subseteq Categories
        /\ items' \subseteq R
    BY <1>1, <1>4 DEF LedgerInvariant, TypeOK
  <1> QED  BY <1>1, <1>5, <1>6, <1>7, <1>8, CommitFacts, TableChange

LEMMA ScanWrittenStep ==
    ASSUME LedgerInvariant, NEW w \in Writers, ScanWritten(w)
    PROVE  LedgerInvariant'
  <1> DEFINE s == txn[w]
             row == [id |-> s.item, receipt |-> s.receipt, category |-> s.category]
  <1>1. /\ s.op = "scan" /\ Commits(w) /\ kind' = [kind EXCEPT ![s.receipt] = s.kind]
        /\ items' \subseteq items \cup {row} /\ (s.item = NULL => items' \subseteq items)
        /\ reviewed' = reviewed /\ isIncome' = isIncome /\ categories' = categories
    BY DEF ScanWritten
  <1>2. s \in Txn /\ Stage(s) /\ Held(s) /\ s.pc = "commit" /\ s # NoTxn
    BY <1>1, TxnFacts, CommitFacts
  <1>3. s.receiptLock /\ s.kind # "none"
    BY <1>1, <1>2 DEF Stage
  <1>4. /\ s.receipt \in Receipts /\ kind' \in [Receipts -> KnownKinds \cup {"none"}]
        /\ Exists(s.receipt) /\ \A r \in Receipts : Exists(r)' <=> Exists(r)
    BY <1>1, <1>3, KindWritten
  <1>5. s.category \in categories \cup {NULL} /\ \A i \in items : i.id # s.item
    BY <1>1, <1>2 DEF Held, Inserting, ItemWriting
  <1>6. row.id = s.item /\ row.receipt = s.receipt /\ row.category = s.category
    OBVIOUS
  <1>7. s.item # NULL => row \in [id : Items, receipt : Receipts, category : Categories \cup {NULL}]
    BY <1>2, <1>4 DEF Txn
  <1> HIDE DEF row
  <1>8. \A v \in Others(w), u \in Txn : u = txn[v] => Held(u)'
    <2> SUFFICES ASSUME NEW v \in Others(w), NEW u \in Txn, u = txn[v]  PROVE Held(u)'
      OBVIOUS
    <2>1. Held(u) /\ Apart(s, u) /\ u.receipt \in Receipts \cup {NULL}
      BY TxnFacts DEF Txn
    <2>2. s.item # NULL => u.item # s.item
      BY <1>1, <2>1 DEF Apart, Inserting
    <2> QED  BY <1>1, <1>4, <1>6, <2>1, <2>2 DEF Held
  <1>9. IdsUnique'
    BY <1>1, <1>5, <1>6 DEF LedgerInvariant, IdsUnique
  <1>10. ReferencesExist'
    BY <1>1, <1>4, <1>5, <1>6 DEF LedgerInvariant, ReferencesExist, TypeOK
  <1>11. /\ reviewed' \in [Receipts -> BOOLEAN]
         /\ isIncome' \in [Categories -> BOOLEAN] /\ categories' \subseteq Categories
         /\ items' \subseteq [id : Items, receipt : Receipts, category : Categories \cup {NULL}]
    BY <1>1, <1>7 DEF LedgerInvariant, TypeOK
  <1> QED  BY <1>1, <1>4, <1>8, <1>9, <1>10, <1>11, CommitFacts, TableChange

LEMMA LedgerNext == LedgerInvariant /\ [Next]_vars => LedgerInvariant'
  <1> SUFFICES ASSUME LedgerInvariant, [Next]_vars  PROVE LedgerInvariant'
    OBVIOUS
  <1>1. CASE UNCHANGED vars
    BY <1>1 DEF vars, LedgerInvariant, TypeOK, TxnsOK, Stage, Held, Apart, IdsUnique,
                ReferencesExist, Exists
  <1>2. ASSUME NEW w \in Writers, Request(w)
        PROVE  LedgerInvariant'
    BY <1>2, ItemCreateStep, ItemUpdateStep, ItemRemoveStep, CreateManualStep, PatchLockStep,
       DeleteReceiptStep, CategoryCreateStep, CategoryLockStep, ScanLoadStep, Zenon DEF Request
  <1>3. ASSUME NEW w \in Writers, TxnStep(w)
        PROVE  LedgerInvariant'
    BY <1>3, FitStep, ItemInsertStep, ItemCreatedStep, ItemLockStep, ItemUpdatedStep,
       ManualCreatedStep, PatchReadStep, PatchCheckStep, PatchedStep, FlipCheckStep, FlippedStep,
       CategoryRemovedStep, LockWaitStep, VerifyLockStep, ExtractionLockStep, ExtractionWipeStep,
       ScanWrittenStep, AbortStep, Zenon DEF TxnStep
  <1> QED  BY <1>1, <1>2, <1>3 DEF Next

(* The tables, the locals of the open transactions and what their row      *)
(* locks keep true agree in every reachable state.                         *)
THEOREM LedgerCorrect == Spec => []LedgerInvariant
  <1>1. Init => LedgerInvariant
    BY InitLedger
  <1>2. LedgerInvariant /\ [Next]_vars => LedgerInvariant'
    BY LedgerNext
  <1> QED  BY <1>1, <1>2, PTL DEF Spec

(* Every row and every transaction stays in its domain: the CHECK on a     *)
(* receipt's kind is never left for the database to enforce.               *)
THEOREM LedgerTypeCorrect == Spec => []TypeOK
  <1>1. LedgerInvariant => TypeOK
    BY DEF LedgerInvariant
  <1> QED  BY <1>1, LedgerCorrect, PTL

(* No item outlives its receipt or its category, whichever of item         *)
(* creation and update, manual entry, scan, receipt delete and category    *)
(* delete are under way at once: KEY SHARE and FOR SHARE hold the deletes  *)
(* off, and the cascades take what was committed before them.              *)
THEOREM ReferencesNeverDangle == Spec => []ReferencesExist
  <1>1. LedgerInvariant => ReferencesExist
    BY DEF LedgerInvariant
  <1> QED  BY <1>1, LedgerCorrect, PTL

-----------------------------------------------------------------------------
(* CategoryFits, for the mixes of requests that keep item writes apart     *)
(* from changes of a receipt's kind.  A behaviour keeps its mix.           *)
LEMMA MixStays ==
    ASSUME [Next]_vars
    PROVE  KindChangesAlone' <=> KindChangesAlone
  <1>1. ASSUME NEW w \in Writers, Request(w)  PROVE mix' = mix
    BY <1>1 DEF Request, ItemCreate, ItemUpdate, ItemRemove, CreateManual, PatchLock, DeleteReceipt,
       CategoryCreate, FlipLock, CategoryRemove, ScanLoad, Begin, Arrives
  <1>2. ASSUME NEW w \in Writers, TxnStep(w)  PROVE mix' = mix
    BY <1>2 DEF TxnStep, Fit, ItemInsert, ItemCreated, ItemLock, ItemUpdated, ManualCreated,
       PatchRead, PatchCheck, Patched, FlipCheck, Flipped, CategoryRemoved, LockWait, VerifyLock,
       InsertScanned, ExtractionLock, ExtractionWipe, ScanWritten, Abort, Moves, Commits
  <1>3. mix' = mix
    BY <1>1, <1>2 DEF Next, vars
  <1> QED  BY <1>3 DEF KindChangesAlone

(* What a transaction has established by now of the rows it is about to    *)
(* write.                                                                  *)
Established(t) ==
    /\ t.op \in mix \cup {"none"}
    /\ t.op \in ItemWrites /\ Exists(t.receipt) => t.kind = kind[t.receipt]
    /\ t.op = "item_update" => \A i \in items : i.id = t.item => i.receipt = t.receipt
    /\ t.op = "patch" /\ t.pc = "check" =>
           \A i \in items : i.receipt = t.receipt /\ i.category # NULL => i.category \in t.taxonomy
    /\ t.op = "patch" /\ t.pc = "commit" =>
           \/ IncomeSide(t.kind) = IncomeSide(kind[t.receipt])
           \/ \A i \in items : i.receipt = t.receipt /\ i.category # NULL =>
                                   isIncome[i.category] = IncomeSide(t.kind)
                                   /\ i.category \in t.shares
    /\ t.op = "scan" /\ t.pc \in {"fit", "commit"} =>
           t.kind = kind[t.receipt] \/ \A i \in items : i.receipt = t.receipt => i.id \in t.itemLocks
    /\ t.op = "flip" /\ t.pc = "commit" => \A i \in items : i.category # t.category

Fits == CategoryFits /\ \A w \in Writers : Established(txn[w])

LEMMA InitFits == Init => Fits
  <1> SUFFICES ASSUME Init  PROVE Fits
    OBVIOUS
  <1>1. \A w \in Writers : txn[w] = NoTxn
    BY DEF Init
  <1>2. \A w \in Writers : Established(txn[w])
    BY <1>1, NoTxnFields DEF Established, ItemWrites
  <1>3. CategoryFits
    BY DEF Init, CategoryFits
  <1> QED  BY <1>2, <1>3 DEF Fits

(* The two shapes of a step again. *)
LEMMA FitsMove ==
    ASSUME LedgerInvariant, Fits, NEW w \in Writers, NEW t,
           txn' = [txn EXCEPT ![w] = t], UNCHANGED <<mix, rows>>, Established(t)
    PROVE  Fits'
  <1>1. /\ kind' = kind /\ isIncome' = isIncome /\ mix' = mix /\ items' = items
    BY DEF rows
  <1>2. txn'[w] = t /\ \A v \in Others(w) : txn'[v] = txn[v]
    BY DEF LedgerInvariant, TxnsOK, Others
  <1>3. \A v \in Writers : Established(txn'[v])
    BY <1>2 DEF Fits, Others
  <1>4. \A v \in Writers : Established(txn[v])'
    BY <1>1, <1>3 DEF Established, Exists
  <1>5. CategoryFits'
    BY <1>1 DEF Fits, CategoryFits
  <1> QED  BY <1>4, <1>5 DEF Fits

LEMMA FitsTable ==
    ASSUME LedgerInvariant, Fits, NEW w \in Writers,
           txn' = [txn EXCEPT ![w] = NoTxn], mix' = mix,
           \A v \in Others(w), u \in Txn : u = txn[v] => Established(u)', CategoryFits'
    PROVE  Fits'
  <1>1. txn'[w] = NoTxn /\ \A v \in Others(w) : txn'[v] = txn[v] /\ txn[v] \in Txn
    BY DEF LedgerInvariant, TxnsOK, Others
  <1>2. \A v \in Writers : Established(txn[v])'
    <2> SUFFICES ASSUME NEW v \in Writers, NEW u, u = txn'[v]  PROVE Established(u)'
      BY DEF Established, Exists
    <2>1. CASE v = w
      BY <1>1, <2>1, NoTxnFields DEF Established, ItemWrites
    <2>2. CASE v # w
      BY <1>1, <2>2 DEF Others
    <2> QED  BY <2>1, <2>2
  <1> QED  BY <1>2 DEF Fits

LEMMA Alone ==
    ASSUME KindChangesAlone, LedgerInvariant, Fits, NEW v \in Writers, NEW w \in Writers,
           txn[v].op \in KindChanges
    PROVE  txn[w].op \notin ItemWrites
  <1>1. txn[v].op \in mix \cup {"none"} /\ txn[w].op \in mix \cup {"none"}
    BY DEF Fits, Established
  <1> QED  BY <1>1 DEF KindChangesAlone, KindChanges, ItemWrites

(* A request begins: its first locals establish nothing it has not read. *)
LEMMA FitsBegin ==
    ASSUME LedgerInvariant, Fits, NEW w \in Writers, NEW op, NEW t0, Begin(w, op, t0),
           NEW t, t = [t0 EXCEPT !.op = op], op \in mix => Established(t)
    PROVE  Fits'
  <1>1. op \in mix /\ txn' = [txn EXCEPT ![w] = t] /\ UNCHANGED <<mix, rows>>
    BY DEF Begin, Arrives
  <1> QED  BY <1>1, FitsMove

LEMMA ItemCreateFits ==
    ASSUME LedgerInvariant, Fits, NEW w \in Writers, NEW r \in Receipts,
           NEW c \in categories \cup {NULL}, ItemCreate(w, r, c)
    PROVE  Fits'
  <1>1. PICK i \in Items :
            Begin(w, "item_create",
                  [NoTxn EXCEPT !.pc = ThenFit(c, "insert"), !.receipt = r, !.kind = kind[r],
                                !.item = i, !.category = c])
    BY DEF ItemCreate
  <1> DEFINE t0 == [NoTxn EXCEPT !.pc = ThenFit(c, "insert"), !.receipt = r, !.kind = kind[r],
                                 !.item = i, !.category = c]
             t == [t0 EXCEPT !.op = "item_create"]
  <1>2. t.op = "item_create" /\ t.receipt = r /\ t.kind = kind[r]
    BY DEF NoTxn
  <1> HIDE DEF t
  <1>3. "item_create" \in mix => Established(t)
    BY <1>2 DEF Established
  <1> QED  BY <1>1, <1>3, FitsBegin DEF t

LEMMA ItemUpdateFits ==
    ASSUME LedgerInvariant, Fits, NEW w \in Writers, NEW i \in items,
           NEW c \in categories \cup {NULL}, ItemUpdate(w, i, c)
    PROVE  Fits'
  <1> DEFINE t0 == [NoTxn EXCEPT !.pc = "item", !.receipt = i.receipt, !.kind = kind[i.receipt],
                                 !.item = i.id, !.category = c]
             t == [t0 EXCEPT !.op = "item_update"]
  <1>1. Begin(w, "item_update", t0)
    BY DEF ItemUpdate
  <1>2. t.op = "item_update" /\ t.receipt = i.receipt /\ t.kind = kind[i.receipt] /\ t.item = i.id
    BY DEF NoTxn
  <1> HIDE DEF t
  <1>3. "item_update" \in mix => Established(t)
    BY <1>2 DEF Established, LedgerInvariant, IdsUnique
  <1> QED  BY <1>1, <1>3, FitsBegin DEF t

LEMMA CreateManualFits ==
    ASSUME LedgerInvariant, Fits, NEW w \in Writers, NEW r \in Receipts, NEW k \in EntryKinds,
           NEW c \in categories \cup {NULL}, CreateManual(w, r, k, c)
    PROVE  Fits'
  <1>1. PICK i \in Items :
            Begin(w, "manual",
                  [NoTxn EXCEPT !.pc = ThenFit(c, "commit"), !.receipt = r, !.kind = k,
                                !.item = i, !.category = c])
    BY DEF CreateManual
  <1> DEFINE t0 == [NoTxn EXCEPT !.pc = ThenFit(c, "commit"), !.receipt = r, !.kind = k,
                                 !.item = i, !.category = c]
             t == [t0 EXCEPT !.op = "manual"]
  <1>2. t.op = "manual"
    BY DEF NoTxn
  <1> HIDE DEF t
  <1>3. "manual" \in mix => Established(t)
    BY <1>2 DEF Established, ItemWrites
  <1> QED  BY <1>1, <1>3, FitsBegin DEF t

LEMMA PatchLockFits ==
    ASSUME LedgerInvariant, Fits, NEW w \in Writers, NEW r \in Receipts, NEW k \in EntryKinds,
           NEW mark \in BOOLEAN, PatchLock(w, r, k, mark)
    PROVE  Fits'
  <1> DEFINE pc == IF IncomeSide(k) = IncomeSide(kind[r]) THEN "commit" ELSE "read"
             t0 == [NoTxn EXCEPT !.pc = pc, !.receipt = r, !.kind = k, !.mark = mark,
                                 !.receiptLock = TRUE]
             t == [t0 EXCEPT !.op = "patch"]
  <1>1. Begin(w, "patch", t0)
    BY DEF PatchLock
  <1>2. t.op = "patch" /\ t.pc = pc /\ t.receipt = r /\ t.kind = k
    BY DEF NoTxn
  <1> HIDE DEF t
  <1>3. "patch" \in mix => Established(t)
    BY <1>2 DEF Established, ItemWrites
  <1> QED  BY <1>1, <1>3, FitsBegin DEF t

LEMMA CategoryLockFits ==
    ASSUME LedgerInvariant, Fits, NEW w \in Writers, NEW c \in categories,
           FlipLock(w, c) \/ CategoryRemove(w, c)
    PROVE  Fits'
  <1>1. PICK op \in {"flip", "category_remove"}, pc \in {"clash", "commit"} :
            /\ op = "flip" => pc = "clash"
            /\ Begin(w, op, [NoTxn EXCEPT !.pc = pc, !.category = c, !.categoryLock = TRUE])
    BY DEF FlipLock, CategoryRemove
  <1> DEFINE t0 == [NoTxn EXCEPT !.pc = pc, !.category = c, !.categoryLock = TRUE]
             t == [t0 EXCEPT !.op = op]
  <1>2. t.op = op /\ t.pc = pc
    BY DEF NoTxn
  <1> HIDE DEF t
  <1>3. op \in mix => Established(t)
    BY <1>1, <1>2 DEF Established, ItemWrites
  <1> QED  BY <1>1, <1>3, FitsBegin DEF t

LEMMA ScanLoadFits ==
    ASSUME LedgerInvariant, Fits, NEW w \in Writers, NEW r \in Receipts, ScanLoad(w, r)
    PROVE  Fits'
  <1> DEFINE tax == {<<c, isIncome[c]>> : c \in categories}
             t0 == [NoTxn EXCEPT !.pc = "lock", !.receipt = r, !.taxonomy = tax]
             t == [t0 EXCEPT !.op = "scan"]
  <1>1. Begin(w, "scan", t0)
    BY DEF ScanLoad
  <1> HIDE DEF tax
  <1>2. t.op = "scan" /\ t.pc = "lock"
    BY DEF NoTxn
  <1> HIDE DEF t
  <1>3. "scan" \in mix => Established(t)
    BY <1>2 DEF Established, ItemWrites
  <1> QED  BY <1>1, <1>3, FitsBegin DEF t

(* A transaction moves on. *)
LEMMA FitsMoves ==
    ASSUME LedgerInvariant, Fits, NEW w \in Writers, NEW t, Moves(w, t), Established(t)
    PROVE  Fits'
  <1>1. txn' = [txn EXCEPT ![w] = t] /\ UNCHANGED <<mix, rows>>
    BY DEF Moves
  <1> QED  BY <1>1, FitsMove

LEMMA AbortFits ==
    ASSUME LedgerInvariant, Fits, NEW w \in Writers, Abort(w)
    PROVE  Fits'
  <1>1. Moves(w, NoTxn)
    BY DEF Abort
  <1>2. Established(NoTxn)
    BY NoTxnFields DEF Established, ItemWrites
  <1> QED  BY <1>1, <1>2, FitsMoves

LEMMA FitFits ==
    ASSUME LedgerInvariant, Fits, NEW w \in Writers, Fit(w)
    PROVE  Fits'
  <1> DEFINE s == txn[w]
             pc == IF s.op = "item_create" THEN "insert" ELSE "commit"
             t == [s EXCEPT !.shares = {s.category}, !.pc = pc]
  <1>1. s.pc = "fit" /\ Moves(w, t)
    BY DEF Fit
  <1>2. s \in Txn /\ Stage(s) /\ Established(s)
    BY TxnFacts DEF Fits
  <1>3. s.op \notin {"patch", "flip"}
    BY <1>1, <1>2, NoTxnFields DEF Stage
  <1>4. /\ t.op = s.op /\ t.receipt = s.receipt /\ t.kind = s.kind /\ t.item = s.item
        /\ t.itemLocks = s.itemLocks
    BY <1>2 DEF Txn
  <1> HIDE DEF t
  <1>5. Established(t)
    BY <1>1, <1>2, <1>3, <1>4 DEF Established
  <1> QED  BY <1>1, <1>5, FitsMoves

LEMMA ItemStepFits ==
    ASSUME LedgerInvariant, Fits, NEW w \in Writers, ItemInsert(w) \/ ItemLock(w)
    PROVE  Fits'
  <1> DEFINE s == txn[w]
  <1>1. s \in Txn /\ Stage(s) /\ Established(s)
    BY TxnFacts DEF Fits
  <1>2. s.pc \in {"insert", "item"}
    BY DEF ItemInsert, ItemLock
  <1>3. s.op \in ItemWrites
    BY <1>1, <1>2, NoTxnFields DEF Stage, ItemWrites
  <1>4. CASE ItemInsert(w)
    <2> DEFINE t == [s EXCEPT !.pc = "commit", !.keyShare = TRUE]
    <2>1. Moves(w, t)
      BY <1>4 DEF ItemInsert
    <2>2. t.op = s.op /\ t.receipt = s.receipt /\ t.kind = s.kind /\ t.item = s.item
      BY <1>1 DEF Txn
    <2> HIDE DEF t
    <2>3. Established(t)
      BY <1>1, <1>3, <2>2 DEF Established, ItemWrites
    <2> QED  BY <2>1, <2>3, FitsMoves
  <1>5. CASE ItemLock(w)
    <2> DEFINE t == [s EXCEPT !.pc = ThenFit(s.category, "commit"), !.itemLocks = {s.item}]
    <2>1. Moves(w, t)
      BY <1>5 DEF ItemLock
    <2>2. t.op = s.op /\ t.receipt = s.receipt /\ t.kind = s.kind /\ t.item = s.item
      BY <1>1 DEF Txn
    <2> HIDE DEF t
    <2>3. Established(t)
      BY <1>1, <1>3, <2>2 DEF Established, ItemWrites
    <2> QED  BY <2>1, <2>3, FitsMoves
  <1> QED  BY <1>4, <1>5

(* The snapshot has every category the receipt's items are in... *)
LEMMA PatchReadFits ==
    ASSUME LedgerInvariant, Fits, NEW w \in Writers, PatchRead(w)
    PROVE  Fits'
  <1> DEFINE s == txn[w]
             used == CategoriesOf(s.receipt)
             t == [s EXCEPT !.pc = "check", !.taxonomy = used]
  <1>1. s.pc = "read" /\ Moves(w, t)
    BY DEF PatchRead
  <1>2. s \in Txn /\ Stage(s) /\ Established(s)
    BY TxnFacts DEF Fits
  <1>3. s.op = "patch"
    BY <1>1, <1>2, NoTxnFields DEF Stage
  <1>4. \A i \in items : i.receipt = s.receipt /\ i.category # NULL => i.category \in used
    BY DEF CategoriesOf, ItemsOf
  <1> HIDE DEF used
  <1>5. t.op = s.op /\ t.receipt = s.receipt /\ t.pc = "check" /\ t.taxonomy = used
    BY <1>2 DEF Txn
  <1> HIDE DEF t
  <1>6. Established(t)
    BY <1>2, <1>3, <1>4, <1>5 DEF Established, ItemWrites
  <1> QED  BY <1>1, <1>6, FitsMoves

(* ... so that what is locked FOR SHARE is all of them. *)
LEMMA PatchCheckFits ==
    ASSUME LedgerInvariant, Fits, NEW w \in Writers, PatchCheck(w)
    PROVE  Fits'
  <1> DEFINE s == txn[w]
             used == s.taxonomy \cap categories
             t == [s EXCEPT !.pc = "commit", !.shares = used]
  <1>1. /\ s.pc = "check" /\ Moves(w, t)
        /\ \A c \in used : isIncome[c] = IncomeSide(s.kind)
    BY DEF PatchCheck, PatchFits
  <1>2. s \in Txn /\ Stage(s) /\ Established(s)
    BY TxnFacts DEF Fits
  <1>3. s.op = "patch"
    BY <1>1, <1>2, NoTxnFields DEF Stage
  <1>4. \A i \in items : i.receipt = s.receipt /\ i.category # NULL => i.category \in used
    BY <1>1, <1>2, <1>3 DEF Established, LedgerInvariant, ReferencesExist
  <1> HIDE DEF used
  <1>5. /\ t.op = s.op /\ t.receipt = s.receipt /\ t.pc = "commit" /\ t.shares = used
        /\ t.kind = s.kind
    BY <1>2 DEF Txn
  <1> HIDE DEF t
  <1>6. Established(t)
    BY <1>1, <1>2, <1>3, <1>4, <1>5 DEF Established, ItemWrites
  <1> QED  BY <1>1, <1>6, FitsMoves

(* By CategoryFits the query for items of the side a category leaves finds *)
(* every item that uses it.                                                *)
LEMMA FlipCheckFits ==
    ASSUME LedgerInvariant, Fits, NEW w \in Writers, FlipCheck(w)
    PROVE  Fits'
  <1> DEFINE s == txn[w]
             t == [s EXCEPT !.pc = "commit"]
  <1>1. s.pc = "clash" /\ ~Clash(s.category) /\ Moves(w, t)
    BY DEF FlipCheck
  <1>2. s \in Txn /\ Stage(s) /\ Held(s) /\ Established(s)
    BY TxnFacts DEF Fits
  <1>3. s.op = "flip" /\ s.categoryLock
    BY <1>1, <1>2, NoTxnFields DEF Stage
  <1>4. s.category # NULL
    BY <1>2, <1>3, LedgerAssumption DEF Held, LedgerInvariant, TypeOK
  <1>5. \A i \in items : i.category # s.category
    BY <1>1, <1>4 DEF Clash, Fits, CategoryFits
  <1>6. t.op = s.op /\ t.category = s.category
    BY <1>2 DEF Txn
  <1> HIDE DEF t
  <1>7. Established(t)
    BY <1>2, <1>3, <1>5, <1>6 DEF Established, ItemWrites
  <1> QED  BY <1>1, <1>7, FitsMoves

(* A scan keeps the kind of its row, or it has wiped the row's items. *)
LEMMA InsertScannedFits ==
    ASSUME LedgerInvariant, Fits, NEW w \in Writers, NEW t \in Txn, InsertScanned(w, t),
           t.op = "scan", "scan" \in mix,
           t.kind = kind[t.receipt] \/ \A i \in items : i.receipt = t.receipt => i.id \in t.itemLocks
    PROVE  Fits'
  <1>1. CASE Moves(w, [t EXCEPT !.pc = "commit"])
    <2> DEFINE u == [t EXCEPT !.pc = "commit"]
    <2>1. /\ u.op = t.op /\ u.kind = t.kind /\ u.receipt = t.receipt /\ u.itemLocks = t.itemLocks
      BY DEF Txn
    <2> HIDE DEF u
    <2>2. Established(u)
      BY <2>1 DEF Established, ItemWrites
    <2> QED  BY <1>1, <2>2, FitsMoves DEF u
  <1>2. ASSUME NEW i \in Items, NEW c \in Picks(w, t.kind),
               Moves(w, [t EXCEPT !.pc = ThenFit(c, "commit"), !.item = i, !.category = c])
        PROVE  Fits'
    <2> DEFINE u == [t EXCEPT !.pc = ThenFit(c, "commit"), !.item = i, !.category = c]
    <2>1. /\ u.op = t.op /\ u.kind = t.kind /\ u.receipt = t.receipt /\ u.itemLocks = t.itemLocks
      BY DEF Txn
    <2> HIDE DEF u
    <2>2. Established(u)
      BY <2>1 DEF Established, ItemWrites
    <2> QED  BY <1>2, <2>2, FitsMoves DEF u
  <1> QED  BY <1>1, <1>2 DEF InsertScanned

LEMMA ScanFacts ==
    ASSUME LedgerInvariant, Fits, NEW w \in Writers, txn[w].pc \in {"lock", "wipe"}
    PROVE  txn[w] \in Txn /\ txn[w].op = "scan" /\ "scan" \in mix /\ txn[w].receipt \in Receipts
  <1>1. txn[w] \in Txn /\ Stage(txn[w]) /\ Established(txn[w])
    BY TxnFacts DEF Fits
  <1> QED  BY <1>1, NoTxnFields DEF Stage, Established, Txn

LEMMA LockWaitFits ==
    ASSUME LedgerInvariant, Fits, NEW w \in Writers, LockWait(w)
    PROVE  Fits'
  <1> DEFINE t == [txn[w] EXCEPT !.sawNone = TRUE]
  <1>1. txn[w].pc = "lock" /\ Moves(w, t)
    BY DEF LockWait
  <1>2. txn[w] \in Txn /\ txn[w].op = "scan" /\ "scan" \in mix
    BY <1>1, ScanFacts
  <1>3. t.op = "scan" /\ t.pc = "lock"
    BY <1>1, <1>2 DEF Txn
  <1> HIDE DEF t
  <1>4. Established(t)
    BY <1>2, <1>3 DEF Established, ItemWrites
  <1> QED  BY <1>1, <1>4, FitsMoves

LEMMA VerifyLockFits ==
    ASSUME LedgerInvariant, Fits, NEW w \in Writers, VerifyLock(w)
    PROVE  Fits'
  <1> DEFINE r == txn[w].receipt
             t == [txn[w] EXCEPT !.kind = kind[r], !.receiptLock = TRUE]
  <1>1. /\ txn[w].pc = "lock"
        /\ InsertScanned(w, t) \/ Moves(w, [t EXCEPT !.pc = "commit"])
    BY DEF VerifyLock
  <1>2. txn[w] \in Txn /\ txn[w].op = "scan" /\ "scan" \in mix /\ r \in Receipts
    BY <1>1, ScanFacts
  <1>3. kind[r] \in KnownKinds \cup {"none"}
    BY <1>2 DEF LedgerInvariant, TypeOK
  <1>4. t \in Txn /\ t.op = "scan" /\ t.kind = kind[r] /\ t.receipt = r
    BY <1>2, <1>3 DEF Txn
  <1> HIDE DEF t
  <1>5. InsertScanned(w, t)
    BY <1>1 DEF InsertScanned
  <1> QED  BY <1>2, <1>4, <1>5, InsertScannedFits

LEMMA ExtractionLockFits ==
    ASSUME LedgerInvariant, Fits, NEW w \in Writers, ExtractionLock(w)
    PROVE  Fits'
  <1>1. PICK k \in ResultKinds :
            Moves(w, [txn[w] EXCEPT !.pc = "wipe", !.kind = k, !.receiptLock = TRUE])
    BY DEF ExtractionLock
  <1> DEFINE t == [txn[w] EXCEPT !.pc = "wipe", !.kind = k, !.receiptLock = TRUE]
  <1>2. txn[w] \in Txn /\ txn[w].op = "scan" /\ "scan" \in mix
    BY ScanFacts DEF ExtractionLock
  <1>3. t.op = "scan" /\ t.pc = "wipe"
    BY <1>2 DEF Txn
  <1> HIDE DEF t
  <1>4. Established(t)
    BY <1>2, <1>3 DEF Established, ItemWrites
  <1> QED  BY <1>1, <1>4, FitsMoves DEF t

LEMMA ExtractionWipeFits ==
    ASSUME LedgerInvariant, Fits, NEW w \in Writers, ExtractionWipe(w)
    PROVE  Fits'
  <1> DEFINE s == txn[w]
             wiped == {i.id : i \in ItemsOf(s.receipt)}
             t == [s EXCEPT !.itemLocks = wiped]
  <1>1. s.pc = "wipe" /\ InsertScanned(w, t)
    BY DEF ExtractionWipe
  <1>2. s \in Txn /\ s.op = "scan" /\ "scan" \in mix
    BY <1>1, ScanFacts
  <1>3. wiped \subseteq Items /\ \A i \in items : i.receipt = s.receipt => i.id \in wiped
    BY DEF LedgerInvariant, TypeOK, ItemsOf
  <1> HIDE DEF wiped
  <1>4. t \in Txn /\ t.op = "scan" /\ t.receipt = s.receipt /\ t.itemLocks = wiped
    BY <1>2, <1>3 DEF Txn
  <1> HIDE DEF t
  <1> QED  BY <1>1, <1>2, <1>3, <1>4, InsertScannedFits

(* What the other transactions have established, in the form the steps     *)
(* use: u is v's locals, s those of the transaction that commits.          *)
LEMMA OtherFacts ==
    ASSUME LedgerInvariant, Fits, NEW w \in Writers, NEW v \in Others(w), NEW u \in Txn, u = txn[v]
    PROVE  /\ Stage(u) /\ Held(u) /\ Established(u)
           /\ Apart(txn[w], u) /\ Apart(u, txn[w])
           /\ u.op = "flip" => u.category # NULL
           /\ u.op = "patch" \/ (u.op = "scan" /\ u.pc \in {"fit", "commit"}) =>
                  u.receiptLock /\ u.receipt \in Receipts
           /\ u.op \in ItemWrites => u.receipt \in Receipts
  <1>1. Stage(u) /\ Held(u) /\ Established(u) /\ Apart(txn[w], u) /\ Apart(u, txn[w])
    BY TxnFacts DEF Fits, Others
  <1>2. u.op = "flip" => u.category # NULL
    BY <1>1, NoTxnFields, LedgerAssumption DEF Stage, Held, LedgerInvariant, TypeOK
  <1>3. u.op = "patch" \/ (u.op = "scan" /\ u.pc \in {"fit", "commit"}) =>
            u.receiptLock /\ u.receipt \in Receipts
    BY <1>1, NoTxnFields DEF Stage, Held, Txn
  <1>4. u.op \in ItemWrites => u.receipt \in Receipts
    BY <1>1, NoTxnFields DEF Stage, Txn, ItemWrites
  <1> QED  BY <1>1, <1>2, <1>3, <1>4

LEMMA ItemCreatedFits ==
    ASSUME KindChangesAlone, LedgerInvariant, Fits, NEW w \in Writers, ItemCreated(w)
    PROVE  Fits'
  <1> DEFINE s == txn[w]
             row == [id |-> s.item, receipt |-> s.receipt, category |-> s.category]
  <1>1. /\ s.op = "item_create" /\ Commits(w) /\ items' = items \cup {row}
        /\ kind' = kind /\ isIncome' = isIncome
    BY DEF ItemCreated
  <1>2. s \in Txn /\ Stage(s) /\ Held(s) /\ Established(s) /\ s.pc = "commit" /\ s # NoTxn
    BY <1>1, TxnFacts, CommitFacts DEF Fits
  <1>3. s.item # NULL /\ s.keyShare
    BY <1>1, <1>2 DEF Stage
  <1>4. /\ Exists(s.receipt) /\ s.kind = kind[s.receipt]
        /\ s.category # NULL => s.category \in s.shares /\ isIncome[s.category] = IncomeSide(s.kind)
    BY <1>1, <1>2, <1>3 DEF Held, Inserting, ItemWriting, Established, ItemWrites
  <1>5. row.id = s.item /\ row.receipt = s.receipt /\ row.category = s.category
    OBVIOUS
  <1> HIDE DEF row
  <1>6. \A v \in Others(w), u \in Txn : u = txn[v] => Established(u)'
    <2> SUFFICES ASSUME NEW v \in Others(w), NEW u \in Txn, u = txn[v]  PROVE Established(u)'
      OBVIOUS
    <2>1. u.op \notin KindChanges
      BY <1>1, Alone DEF Others, ItemWrites
    <2>2. u.item # s.item
      BY <1>1, <1>3, OtherFacts DEF Apart, Inserting
    <2>3. u.op = "flip" => s.category # u.category
      <3>1. u.op = "flip" => u.categoryLock
        BY OtherFacts, NoTxnFields DEF Stage
      <3> QED  BY <1>4, <3>1, OtherFacts DEF Apart
    <2>4. Established(u) /\ mix' = mix
      BY <1>1, OtherFacts, CommitFacts
    <2> QED  BY <1>1, <1>5, <2>1, <2>2, <2>3, <2>4 DEF Established, Exists, KindChanges
  <1>7. CategoryFits'
    BY <1>1, <1>4, <1>5 DEF Fits, CategoryFits
  <1> QED  BY <1>1, <1>6, <1>7, CommitFacts, FitsTable

LEMMA ItemUpdatedFits ==
    ASSUME KindChangesAlone, LedgerInvariant, Fits, NEW w \in Writers, ItemUpdated(w)
    PROVE  Fits'
  <1> DEFINE s == txn[w]
             new(i) == IF i.id = s.item THEN [i EXCEPT !.category = s.category] ELSE i
  <1>1. /\ s.op = "item_update" /\ Commits(w) /\ items' = {new(i) : i \in items}
        /\ kind' = kind /\ isIncome' = isIncome
    BY DEF ItemUpdated
  <1>2. s \in Txn /\ Held(s) /\ Established(s) /\ s.pc = "commit"
    BY <1>1, TxnFacts, CommitFacts DEF Fits
  <1>3. s.category # NULL => s.category \in s.shares /\ isIncome[s.category] = IncomeSide(s.kind)
    BY <1>1, <1>2 DEF Held, Inserting, ItemWriting
  <1>4. \A i \in items : /\ new(i).id = i.id /\ new(i).receipt = i.receipt
                         /\ i.id = s.item => new(i).category = s.category
                         /\ i.id # s.item => new(i).category = i.category
    BY DEF LedgerInvariant, TypeOK
  <1> HIDE DEF new
  <1>5. \A i \in items : i.id = s.item => kind[i.receipt] = s.kind
    BY <1>1, <1>2 DEF Established, ItemWrites, LedgerInvariant, ReferencesExist
  <1>6. \A v \in Others(w), u \in Txn : u = txn[v] => Established(u)'
    <2> SUFFICES ASSUME NEW v \in Others(w), NEW u \in Txn, u = txn[v]  PROVE Established(u)'
      OBVIOUS
    <2>1. u.op \notin KindChanges
      BY <1>1, Alone DEF Others, ItemWrites
    <2>2. u.op = "flip" => s.category # u.category
      <3>1. u.op = "flip" => u.categoryLock
        BY OtherFacts, NoTxnFields DEF Stage
      <3> QED  BY <1>3, <3>1, OtherFacts DEF Apart
    <2>3. Established(u) /\ mix' = mix
      BY <1>1, OtherFacts, CommitFacts
    <2> QED  BY <1>1, <1>4, <2>1, <2>2, <2>3 DEF Established, Exists, KindChanges
  <1>7. CategoryFits'
    BY <1>1, <1>3, <1>4, <1>5 DEF Fits, CategoryFits
  <1> QED  BY <1>1, <1>6, <1>7, CommitFacts, FitsTable

LEMMA ItemRemoveFits ==
    ASSUME LedgerInvariant, Fits, NEW w \in Writers, NEW i \in items, ItemRemove(w, i)
    PROVE  Fits'
  <1>1. /\ Arrives(w, "item_remove") /\ items' = items \ {i} /\ txn' = txn
        /\ kind' = kind /\ isIncome' = isIncome
    BY DEF ItemRemove
  <1>2. \A v \in Others(w), u \in Txn : u = txn[v] => Established(u)'
    <2> SUFFICES ASSUME NEW v \in Others(w), NEW u \in Txn, u = txn[v]  PROVE Established(u)'
      OBVIOUS
    <2>1. Established(u) /\ mix' = mix
      BY <1>1, OtherFacts, ArrivesFacts
    <2> QED  BY <1>1, <2>1 DEF Established, Exists
  <1>3. CategoryFits'
    BY <1>1 DEF Fits, CategoryFits
  <1> QED  BY <1>1, <1>2, <1>3, ArrivesFacts, FitsTable

LEMMA ManualCreatedFits ==
    ASSUME LedgerInvariant, Fits, NEW w \in Writers, ManualCreated(w)
    PROVE  Fits'
  <1> DEFINE s == txn[w]
             row == [id |-> s.item, receipt |-> s.receipt, category |-> s.category]
  <1>1. /\ s.op = "manual" /\ Commits(w) /\ items' = items \cup {row}
        /\ kind' = [kind EXCEPT ![s.receipt] = s.kind] /\ isIncome' = isIncome
    BY DEF ManualCreated
  <1>2. s \in Txn /\ Stage(s) /\ Held(s) /\ s.pc = "commit" /\ s # NoTxn
    BY <1>1, TxnFacts, CommitFacts
  <1>3. s.item # NULL /\ s.receipt \in Receipts /\ ~Exists(s.receipt)
    BY <1>1, <1>2 DEF Stage, Held, Txn
  <1>4. s.category # NULL => s.category \in s.shares /\ isIncome[s.category] = IncomeSide(s.kind)
    BY <1>1, <1>2 DEF Held, Inserting, ItemWriting
  <1>5. row.id = s.item /\ row.receipt = s.receipt /\ row.category = s.category
    OBVIOUS
  <1> HIDE DEF row
  <1>6. \A r \in Receipts : kind'[r] = IF r = s.receipt THEN s.kind ELSE kind[r]
    BY <1>1 DEF LedgerInvariant, TypeOK
  <1>7. \A i \in items : i.receipt \in Receipts /\ i.receipt # s.receipt
    BY <1>3 DEF LedgerInvariant, TypeOK, ReferencesExist
  <1>8. \A v \in Others(w), u \in Txn : u = txn[v] => Established(u)'
    <2> SUFFICES ASSUME NEW v \in Others(w), NEW u \in Txn, u = txn[v]  PROVE Established(u)'
      OBVIOUS
    <2>1. u.item # s.item /\ u.receipt # s.receipt
      BY <1>1, <1>3, OtherFacts DEF Apart, Inserting
    <2>2. u.op = "flip" => s.category # u.category
      <3>1. u.op = "flip" => u.categoryLock
        BY OtherFacts, NoTxnFields DEF Stage
      <3> QED  BY <1>4, <3>1, OtherFacts DEF Apart
    <2>3. Established(u) /\ mix' = mix
      BY <1>1, OtherFacts, CommitFacts
    <2>4. u.op \in ItemWrites \/ u.op = "patch" \/ (u.op = "scan" /\ u.pc \in {"fit", "commit"}) =>
              kind'[u.receipt] = kind[u.receipt]
      BY <1>6, <2>1, OtherFacts
    <2> QED  BY <1>1, <1>5, <2>1, <2>2, <2>3, <2>4 DEF Established, Exists
  <1>9. CategoryFits'
    BY <1>1, <1>3, <1>4, <1>5, <1>6, <1>7 DEF Fits, CategoryFits
  <1> QED  BY <1>1, <1>8, <1>9, CommitFacts, FitsTable

(* A kind is written under the receipt's lock: what the others have        *)
(* established of it, they have of other receipts.                         *)
LEMMA OtherReceipt ==
    ASSUME LedgerInvariant, Fits, NEW w \in Writers, NEW v \in Others(w), NEW u \in Txn, u = txn[v],
           txn[w].receiptLock, txn[w].kind # "none",
           kind' = [kind EXCEPT ![txn[w].receipt] = txn[w].kind],
           u.op = "patch" \/ (u.op = "scan" /\ u.pc \in {"fit", "commit"})
    PROVE  u.receipt # txn[w].receipt /\ kind'[u.receipt] = kind[u.receipt]
  <1>1. u.receiptLock /\ u.receipt \in Receipts /\ Apart(txn[w], u)
    BY OtherFacts
  <1>2. u.receipt # txn[w].receipt
    BY <1>1 DEF Apart
  <1> QED  BY <1>1, <1>2 DEF LedgerInvariant, TypeOK

LEMMA PatchedFits ==
    ASSUME KindChangesAlone, LedgerInvariant, Fits, NEW w \in Writers, Patched(w)
    PROVE  Fits'
  <1> DEFINE s == txn[w]
  <1>1. /\ s.op = "patch" /\ Commits(w) /\ kind' = [kind EXCEPT ![s.receipt] = s.kind]
        /\ isIncome' = isIncome /\ items' = items
    BY DEF Patched
  <1>2. s \in Txn /\ Stage(s) /\ Established(s) /\ s.pc = "commit" /\ s # NoTxn
    BY <1>1, TxnFacts, CommitFacts DEF Fits
  <1>3. s.receiptLock /\ s.kind # "none"
    BY <1>1, <1>2 DEF Stage
  <1>4. \A v \in Others(w), u \in Txn : u = txn[v] => Established(u)'
    <2> SUFFICES ASSUME NEW v \in Others(w), NEW u \in Txn, u = txn[v]  PROVE Established(u)'
      OBVIOUS
    <2>1. u.op \notin ItemWrites
      BY <1>1, Alone DEF Others, KindChanges
    <2>2. u.op = "patch" \/ (u.op = "scan" /\ u.pc \in {"fit", "commit"}) =>
              kind'[u.receipt] = kind[u.receipt]
      BY <1>1, <1>3, OtherReceipt
    <2>3. Established(u) /\ mix' = mix
      BY <1>1, OtherFacts, CommitFacts
    <2> QED  BY <1>1, <2>1, <2>2, <2>3 DEF Established, ItemWrites
  <1>5. s.receipt \in Receipts
    BY <1>1, <1>3, KindWritten
  <1>6. \A r \in Receipts : kind'[r] = IF r = s.receipt THEN s.kind ELSE kind[r]
    BY <1>1 DEF LedgerInvariant, TypeOK
  <1>7. \/ IncomeSide(s.kind) = IncomeSide(kind[s.receipt])
        \/ \A i \in items : i.receipt = s.receipt /\ i.category # NULL =>
                                isIncome[i.category] = IncomeSide(s.kind)
    BY <1>1, <1>2 DEF Established
  <1>8. CategoryFits'
    <2> SUFFICES ASSUME NEW i \in items, i.category # NULL
                 PROVE  isIncome[i.category] = IncomeSide(kind'[i.receipt])
      BY <1>1 DEF CategoryFits, IncomeSide
    <2>1. i.receipt \in Receipts /\ isIncome[i.category] = IncomeSide(kind[i.receipt])
      BY DEF LedgerInvariant, TypeOK, Fits, CategoryFits
    <2> QED  BY <1>6, <1>7, <2>1
  <1> QED  BY <1>1, <1>4, <1>8, CommitFacts, FitsTable

LEMMA ScanWrittenFits ==
    ASSUME KindChangesAlone, LedgerInvariant, Fits, NEW w \in Writers, ScanWritten(w)
    PROVE  Fits'
  <1> DEFINE s == txn[w]
             row == [id |-> s.item, receipt |-> s.receipt, category |-> s.category]
  <1>1. /\ s.op = "scan" /\ Commits(w) /\ kind' = [kind EXCEPT ![s.receipt] = s.kind]
        /\ \A i \in items' : i = row \/ (i \in items /\ i.id \notin s.itemLocks)
        /\ isIncome' = isIncome
    BY DEF ScanWritten
  <1>2. s \in Txn /\ Stage(s) /\ Held(s) /\ Established(s) /\ s.pc = "commit" /\ s # NoTxn
    BY <1>1, TxnFacts, CommitFacts DEF Fits
  <1>3. s.receiptLock /\ s.kind # "none"
    BY <1>1, <1>2 DEF Stage
  <1>4. s.category # NULL => s.category \in s.shares /\ isIncome[s.category] = IncomeSide(s.kind)
    BY <1>1, <1>2 DEF Held, Inserting, ItemWriting
  <1>5. row.receipt = s.receipt /\ row.category = s.category
    OBVIOUS
  <1> HIDE DEF row
  <1>6. \A v \in Others(w), u \in Txn : u = txn[v] => Established(u)'
    <2> SUFFICES ASSUME NEW v \in Others(w), NEW u \in Txn, u = txn[v]  PROVE Established(u)'
      OBVIOUS
    <2>1. u.op \notin ItemWrites
      BY <1>1, Alone DEF Others, KindChanges
    <2>2. u.op = "patch" \/ (u.op = "scan" /\ u.pc \in {"fit", "commit"}) =>
              u.receipt # s.receipt /\ kind'[u.receipt] = kind[u.receipt]
      BY <1>1, <1>3, OtherReceipt
    <2>3. u.op = "flip" => s.category # u.category
      <3>1. u.op = "flip" => u.categoryLock
        BY OtherFacts, NoTxnFields DEF Stage
      <3> QED  BY <1>4, <3>1, OtherFacts DEF Apart
    <2>4. Established(u) /\ mix' = mix
      BY <1>1, OtherFacts, CommitFacts
    <2> QED  BY <1>1, <1>5, <2>1, <2>2, <2>3, <2>4 DEF Established, ItemWrites
  <1>7. s.receipt \in Receipts
    BY <1>1, <1>3, KindWritten
  <1>8. \A r \in Receipts : kind'[r] = IF r = s.receipt THEN s.kind ELSE kind[r]
    BY <1>1 DEF LedgerInvariant, TypeOK
  <1>9. s.kind = kind[s.receipt] \/ \A i \in items : i.receipt = s.receipt => i.id \in s.itemLocks
    BY <1>1, <1>2 DEF Established
  <1>10. CategoryFits'
    <2> SUFFICES ASSUME NEW i \in items', i.category # NULL
                 PROVE  isIncome[i.category] = IncomeSide(kind'[i.receipt])
      BY <1>1 DEF CategoryFits, IncomeSide
    <2>1. CASE i = row
      BY <1>4, <1>5, <1>7, <1>8, <2>1
    <2>2. CASE i \in items /\ i.id \notin s.itemLocks
      <3>1. i.receipt \in Receipts /\ isIncome[i.category] = IncomeSide(kind[i.receipt])
        BY <2>2 DEF LedgerInvariant, TypeOK, Fits, CategoryFits
      <3> QED  BY <1>8, <1>9, <2>2, <3>1
    <2> QED  BY <1>1, <2>1, <2>2
  <1> QED  BY <1>1, <1>6, <1>10, CommitFacts, FitsTable

LEMMA DeleteReceiptFits ==
    ASSUME LedgerInvariant, Fits, NEW w \in Writers, NEW r \in Receipts, DeleteReceipt(w, r)
    PROVE  Fits'
  <1>1. /\ Arrives(w, "delete") /\ ReceiptFree(w, r) /\ kind' = [kind EXCEPT ![r] = "none"]
        /\ items' = items \ ItemsOf(r) /\ isIncome' = isIncome /\ txn' = txn
    BY DEF DeleteReceipt
  <1>2. \A q \in Receipts : kind'[q] = IF q = r THEN "none" ELSE kind[q]
    BY <1>1 DEF LedgerInvariant, TypeOK
  <1>3. \A v \in Others(w), u \in Txn : u = txn[v] => Established(u)'
    <2> SUFFICES ASSUME NEW v \in Others(w), NEW u \in Txn, u = txn[v]  PROVE Established(u)'
      OBVIOUS
    <2>1. u.receiptLock => u.receipt # r
      BY <1>1 DEF ReceiptFree
    <2>2. u.op = "patch" \/ (u.op = "scan" /\ u.pc \in {"fit", "commit"}) =>
              kind'[u.receipt] = kind[u.receipt]
      BY <1>2, <2>1, OtherFacts
    <2>3. u.op \in ItemWrites => kind'[u.receipt] = "none" \/ kind'[u.receipt] = kind[u.receipt]
      BY <1>2, OtherFacts
    <2>4. Established(u) /\ mix' = mix
      BY <1>1, OtherFacts, ArrivesFacts
    <2> QED  BY <1>1, <2>2, <2>3, <2>4 DEF Established, Exists
  <1>4. CategoryFits'
    <2> SUFFICES ASSUME NEW i \in items', i.category # NULL
                 PROVE  isIncome[i.category] = IncomeSide(kind'[i.receipt])
      BY <1>1 DEF CategoryFits, IncomeSide
    <2>1. /\ i \in items /\ i.receipt # r /\ i.receipt \in Receipts
          /\ isIncome[i.category] = IncomeSide(kind[i.receipt])
      BY <1>1 DEF ItemsOf, LedgerInvariant, TypeOK, Fits, CategoryFits
    <2> QED  BY <1>2, <2>1
  <1> QED  BY <1>1, <1>3, <1>4, ArrivesFacts, FitsTable

LEMMA CategoryCreateFits ==
    ASSUME LedgerInvariant, Fits, NEW w \in Writers, NEW c \in Categories, NEW income \in BOOLEAN,
           CategoryCreate(w, c, income)
    PROVE  Fits'
  <1>1. /\ Arrives(w, "category_create") /\ c \notin categories
        /\ isIncome' = [isIncome EXCEPT ![c] = income]
        /\ kind' = kind /\ items' = items /\ txn' = txn
    BY DEF CategoryCreate
  <1>2. \A i \in items : i.category # NULL => isIncome'[i.category] = isIncome[i.category]
    <2> SUFFICES ASSUME NEW i \in items, i.category # NULL
                 PROVE  isIncome'[i.category] = isIncome[i.category]
      OBVIOUS
    <2>1. i.category \in categories /\ i.category \in Categories
      BY DEF LedgerInvariant, ReferencesExist, TypeOK
    <2> QED  BY <1>1, <2>1 DEF LedgerInvariant, TypeOK
  <1>3. \A v \in Others(w), u \in Txn : u = txn[v] => Established(u)'
    <2> SUFFICES ASSUME NEW v \in Others(w), NEW u \in Txn, u = txn[v]  PROVE Established(u)'
      OBVIOUS
    <2>1. Established(u) /\ mix' = mix
      BY <1>1, OtherFacts, ArrivesFacts
    <2> QED  BY <1>1, <1>2, <2>1 DEF Established, Exists
  <1>4. CategoryFits'
    BY <1>1, <1>2 DEF Fits, CategoryFits
  <1> QED  BY <1>1, <1>3, <1>4, ArrivesFacts, FitsTable

LEMMA FlippedFits ==
    ASSUME LedgerInvariant, Fits, NEW w \in Writers, Flipped(w)
    PROVE  Fits'
  <1> DEFINE s == txn[w]
             c == s.category
  <1>1. /\ s.op = "flip" /\ Commits(w) /\ isIncome' = [isIncome EXCEPT ![c] = ~@]
        /\ kind' = kind /\ items' = items
    BY DEF Flipped
  <1>2. \A i \in items : i.category # c
    BY <1>1, CommitFacts DEF Fits, Established
  <1>3. \A i \in items : i.category # NULL => isIncome'[i.category] = isIncome[i.category]
    BY <1>1, <1>2 DEF LedgerInvariant, TypeOK
  <1>4. \A v \in Others(w), u \in Txn : u = txn[v] => Established(u)'
    <2> SUFFICES ASSUME NEW v \in Others(w), NEW u \in Txn, u = txn[v]  PROVE Established(u)'
      OBVIOUS
    <2>1. Established(u) /\ mix' = mix
      BY <1>1, OtherFacts, CommitFacts
    <2> QED  BY <1>1, <1>3, <2>1 DEF Established, Exists
  <1>5. CategoryFits'
    BY <1>1, <1>3 DEF Fits, CategoryFits
  <1> QED  BY <1>1, <1>4, <1>5, CommitFacts, FitsTable

LEMMA CategoryRemovedFits ==
    ASSUME LedgerInvariant, Fits, NEW w \in Writers, CategoryRemoved(w)
    PROVE  Fits'
  <1> DEFINE c == txn[w].category
             new(i) == IF i.category = c THEN [i EXCEPT !.category = NULL] ELSE i
  <1>1. /\ Commits(w) /\ items' = {new(i) : i \in items} /\ kind' = kind /\ isIncome' = isIncome
    BY DEF CategoryRemoved, Uncategorized
  <1>2. \A i \in items : /\ new(i).id = i.id /\ new(i).receipt = i.receipt
                         /\ new(i).category \in {i.category, NULL}
    BY DEF LedgerInvariant, TypeOK
  <1> HIDE DEF new
  <1>3. \A v \in Others(w), u \in Txn : u = txn[v] => Established(u)'
    <2> SUFFICES ASSUME NEW v \in Others(w), NEW u \in Txn, u = txn[v]  PROVE Established(u)'
      OBVIOUS
    <2>1. Established(u) /\ mix' = mix /\ (u.op = "flip" => u.category # NULL)
      BY <1>1, OtherFacts, CommitFacts
    <2> QED  BY <1>1, <1>2, <2>1 DEF Established, Exists
  <1>4. CategoryFits'
    BY <1>1, <1>2 DEF Fits, CategoryFits
  <1> QED  BY <1>1, <1>3, <1>4, CommitFacts, FitsTable

LEMMA FitsNext == KindChangesAlone /\ LedgerInvariant /\ Fits /\ [Next]_vars => Fits'
  <1> SUFFICES ASSUME KindChangesAlone, LedgerInvariant, Fits, [Next]_vars  PROVE Fits'
    OBVIOUS
  <1>1. CASE UNCHANGED vars
    BY <1>1 DEF vars, Fits, Established, CategoryFits, Exists
  <1>2. ASSUME NEW w \in Writers, Request(w)
        PROVE  Fits'
    BY <1>2, ItemCreateFits, ItemUpdateFits, ItemRemoveFits, CreateManualFits, PatchLockFits,
       DeleteReceiptFits, CategoryCreateFits, CategoryLockFits, ScanLoadFits, Zenon DEF Request
  <1>3. ASSUME NEW w \in Writers, TxnStep(w)
        PROVE  Fits'
    BY <1>3, FitFits, ItemStepFits, ItemCreatedFits, ItemUpdatedFits, ManualCreatedFits,
       PatchReadFits, PatchCheckFits, PatchedFits, FlipCheckFits, FlippedFits,
       CategoryRemovedFits, LockWaitFits, VerifyLockFits, ExtractionLockFits, ExtractionWipeFits,
       ScanWrittenFits, AbortFits, Zenon DEF TxnStep
  <1> QED  BY <1>1, <1>2, <1>3 DEF Next

(* Every categorized item stays on its receipt's side, in every mix of     *)
(* requests in which item writes do not meet a change of a receipt's kind: *)
(* category flips, deletes and new categories, manual entries and receipt  *)
(* deletes may run against either.  The run of the race shows why the      *)
(* hypothesis is there.                                                    *)
THEOREM CategoriesFit == Spec => []SidesAgree
  <1>1. Init => (KindChangesAlone => Fits)
    BY InitFits
  <1>2. LedgerInvariant /\ (KindChangesAlone => Fits) /\ [Next]_vars => (KindChangesAlone => Fits)'
    BY FitsNext, MixStays
  <1>3. (KindChangesAlone => Fits) => SidesAgree
    BY DEF Fits, SidesAgree
  <1> QED  BY <1>1, <1>2, <1>3, LedgerCorrect, PTL DEF Spec

-----------------------------------------------------------------------------
(* The transactions implement AtomicLedger.  Beyond Fits this needs what a *)
(* transaction chose on the way: the kinds of entries and edits, and what  *)
(* a scan is about to do to its receipt, decided under the row's lock.     *)

(* writeVerify: the row's own kind, and an item only where there is none. *)
Keeps(t) ==
    /\ reviewed[t.receipt] /\ t.kind = kind[t.receipt] /\ t.itemLocks = {}
    /\ t.item # NULL => \A i \in items : i.receipt # t.receipt

(* writeExtraction: a kind of the result, and locks on the receipt's items *)
(* and on no others.                                                       *)
Replaces(t) ==
    /\ ~reviewed[t.receipt] /\ Writable(t.kind)
    /\ \A i \in items : i.receipt = t.receipt => i.id \in t.itemLocks
    /\ \A x \in t.itemLocks : \E i \in items : i.id = x /\ i.receipt = t.receipt

Chosen(t) ==
    /\ t.op \in {"manual", "patch"} => t.kind \in EntryKinds
    /\ t.op = "scan" /\ t.pc \in {"lock", "wipe"} => t.itemLocks = {}
    /\ t.op = "scan" /\ t.pc = "lock" => ~t.sawNone
    /\ t.op = "scan" /\ t.pc = "wipe" => ~reviewed[t.receipt] /\ Writable(t.kind)
    /\ t.op = "scan" /\ t.pc \in {"fit", "commit"} => Keeps(t) \/ Replaces(t)

AllChosen == \A w \in Writers : Chosen(txn[w])

LEMMA InitChosen == Init => AllChosen
  BY NoTxnFields DEF Init, AllChosen, Chosen

(* The two shapes of a step. *)
LEMMA ChosenMove ==
    ASSUME LedgerInvariant, AllChosen, NEW w \in Writers, NEW t,
           txn' = [txn EXCEPT ![w] = t], UNCHANGED rows, Chosen(t)
    PROVE  AllChosen'
  <1>1. kind' = kind /\ reviewed' = reviewed /\ items' = items
    BY DEF rows
  <1>2. \A v \in Writers : Chosen(txn'[v])
    BY DEF LedgerInvariant, TxnsOK, AllChosen
  <1>3. \A v \in Writers : Chosen(txn[v])'
    BY <1>1, <1>2 DEF Chosen, Keeps, Replaces
  <1> QED  BY <1>3 DEF AllChosen

LEMMA ChosenTable ==
    ASSUME LedgerInvariant, AllChosen, NEW w \in Writers, txn' = [txn EXCEPT ![w] = NoTxn],
           \A v \in Others(w), u \in Txn : u = txn[v] => Chosen(u)'
    PROVE  AllChosen'
  <1>1. txn'[w] = NoTxn /\ \A v \in Others(w) : txn'[v] = txn[v] /\ txn[v] \in Txn
    BY DEF LedgerInvariant, TxnsOK, Others
  <1>2. \A v \in Writers : Chosen(txn[v])'
    <2> SUFFICES ASSUME NEW v \in Writers, NEW u, u = txn'[v]  PROVE Chosen(u)'
      BY DEF Chosen, Keeps, Replaces
    <2>1. CASE v = w
      BY <1>1, <2>1, NoTxnFields DEF Chosen
    <2>2. CASE v # w
      BY <1>1, <2>2 DEF Others
    <2> QED  BY <2>1, <2>2
  <1> QED  BY <1>2 DEF AllChosen

LEMMA ChosenMoves ==
    ASSUME LedgerInvariant, AllChosen, NEW w \in Writers, NEW t, Moves(w, t), Chosen(t)
    PROVE  AllChosen'
  <1>1. txn' = [txn EXCEPT ![w] = t] /\ UNCHANGED rows
    BY DEF Moves
  <1> QED  BY <1>1, ChosenMove

(* A request begins: only an entry and an edit have chosen something. *)
LEMMA ChosenBegin ==
    ASSUME LedgerInvariant, AllChosen, NEW w \in Writers, NEW op, NEW t0, Begin(w, op, t0),
           DOMAIN t0 = DOMAIN NoTxn, t0.itemLocks = {},
           op \in {"manual", "patch"} => t0.kind \in EntryKinds,
           op = "scan" => t0.pc = "lock" /\ ~t0.sawNone
    PROVE  AllChosen'
  <1> DEFINE t == [t0 EXCEPT !.op = op]
  <1>1. txn' = [txn EXCEPT ![w] = t] /\ UNCHANGED rows
    BY DEF Begin
  <1>2. t.op = op /\ t.pc = t0.pc /\ t.kind = t0.kind /\ t.itemLocks = {} /\ t.sawNone = t0.sawNone
    BY DEF NoTxn
  <1> HIDE DEF t
  <1>3. Chosen(t)
    BY <1>2 DEF Chosen
  <1> QED  BY <1>1, <1>3, ChosenMove

LEMMA RequestChosen ==
    ASSUME LedgerInvariant, AllChosen, NEW w \in Writers, NEW r, NEW k, NEW c, NEW i, NEW mark,
           \/ ItemCreate(w, r, c) \/ ItemUpdate(w, i, c) \/ FlipLock(w, c) \/ CategoryRemove(w, c)
           \/ ScanLoad(w, r)
           \/ k \in EntryKinds /\ (CreateManual(w, r, k, c) \/ PatchLock(w, r, k, mark))
    PROVE  AllChosen'
  <1>1. ASSUME ItemCreate(w, r, c)  PROVE AllChosen'
    <2>1. PICK x : Begin(w, "item_create",
                         [NoTxn EXCEPT !.pc = ThenFit(c, "insert"), !.receipt = r,
                                       !.kind = kind[r], !.item = x, !.category = c])
      BY <1>1 DEF ItemCreate
    <2> DEFINE t0 == [NoTxn EXCEPT !.pc = ThenFit(c, "insert"), !.receipt = r, !.kind = kind[r],
                                   !.item = x, !.category = c]
    <2>2. DOMAIN t0 = DOMAIN NoTxn /\ t0.itemLocks = {}
      BY DEF NoTxn
    <2> QED  BY <2>1, <2>2, ChosenBegin
  <1>2. ASSUME ItemUpdate(w, i, c)  PROVE AllChosen'
    <2> DEFINE t0 == [NoTxn EXCEPT !.pc = "item", !.receipt = i.receipt, !.kind = kind[i.receipt],
                                   !.item = i.id, !.category = c]
    <2>1. Begin(w, "item_update", t0)
      BY <1>2 DEF ItemUpdate
    <2>2. DOMAIN t0 = DOMAIN NoTxn /\ t0.itemLocks = {}
      BY DEF NoTxn
    <2> QED  BY <2>1, <2>2, ChosenBegin
  <1>3. ASSUME k \in EntryKinds, CreateManual(w, r, k, c)  PROVE AllChosen'
    <2>1. PICK x : Begin(w, "manual",
                         [NoTxn EXCEPT !.pc = ThenFit(c, "commit"), !.receipt = r, !.kind = k,
                                       !.item = x, !.category = c])
      BY <1>3 DEF CreateManual
    <2> DEFINE t0 == [NoTxn EXCEPT !.pc = ThenFit(c, "commit"), !.receipt = r, !.kind = k,
                                   !.item = x, !.category = c]
    <2>2. DOMAIN t0 = DOMAIN NoTxn /\ t0.itemLocks = {} /\ t0.kind = k
      BY DEF NoTxn
    <2> QED  BY <1>3, <2>1, <2>2, ChosenBegin
  <1>4. ASSUME k \in EntryKinds, PatchLock(w, r, k, mark)  PROVE AllChosen'
    <2> DEFINE pc == IF IncomeSide(k) = IncomeSide(kind[r]) THEN "commit" ELSE "read"
               t0 == [NoTxn EXCEPT !.pc = pc, !.receipt = r, !.kind = k, !.mark = mark,
                                   !.receiptLock = TRUE]
    <2>1. Begin(w, "patch", t0)
      BY <1>4 DEF PatchLock
    <2>2. DOMAIN t0 = DOMAIN NoTxn /\ t0.itemLocks = {} /\ t0.kind = k
      BY DEF NoTxn
    <2> QED  BY <1>4, <2>1, <2>2, ChosenBegin
  <1>5. ASSUME FlipLock(w, c) \/ CategoryRemove(w, c)  PROVE AllChosen'
    <2>1. PICK op \in {"flip", "category_remove"}, pc \in {"clash", "commit"} :
              Begin(w, op, [NoTxn EXCEPT !.pc = pc, !.category = c, !.categoryLock = TRUE])
      BY <1>5 DEF FlipLock, CategoryRemove
    <2> DEFINE t0 == [NoTxn EXCEPT !.pc = pc, !.category = c, !.categoryLock = TRUE]
    <2>2. DOMAIN t0 = DOMAIN NoTxn /\ t0.itemLocks = {}
      BY DEF NoTxn
    <2> QED  BY <2>1, <2>2, ChosenBegin
  <1>6. ASSUME ScanLoad(w, r)  PROVE AllChosen'
    <2> DEFINE tax == {<<x, isIncome[x]>> : x \in categories}
               t0 == [NoTxn EXCEPT !.pc = "lock", !.receipt = r, !.taxonomy = tax]
    <2>1. Begin(w, "scan", t0)
      BY <1>6 DEF ScanLoad
    <2> HIDE DEF tax
    <2>2. DOMAIN t0 = DOMAIN NoTxn /\ t0.itemLocks = {} /\ t0.pc = "lock" /\ ~t0.sawNone
      BY DEF NoTxn
    <2> QED  BY <2>1, <2>2, ChosenBegin
  <1> QED  BY <1>1, <1>2, <1>3, <1>4, <1>5, <1>6

(* A step that only moves on keeps what was chosen. *)
LEMMA SameChoice ==
    ASSUME LedgerInvariant, AllChosen, NEW w \in Writers, NEW t, Moves(w, t),
           t.op = txn[w].op, t.kind = txn[w].kind, t.receipt = txn[w].receipt,
           t.item = txn[w].item, t.op = "scan" => t.itemLocks = txn[w].itemLocks,
           t.op = "scan" => txn[w].pc = "fit" /\ t.pc = "commit"
    PROVE  AllChosen'
  <1>1. Chosen(txn[w])
    BY DEF AllChosen
  <1>2. Chosen(t)
    BY <1>1 DEF Chosen, Keeps, Replaces
  <1> QED  BY <1>2, ChosenMoves

LEMMA MoveChosen ==
    ASSUME LedgerInvariant, AllChosen, NEW w \in Writers,
           \/ Fit(w) \/ ItemInsert(w) \/ ItemLock(w) \/ PatchRead(w) \/ PatchCheck(w)
           \/ FlipCheck(w) \/ Abort(w)
    PROVE  AllChosen'
  <1> DEFINE s == txn[w]
  <1>1. s \in Txn /\ Stage(s)
    BY TxnFacts
  <1>2. s.pc \in {"insert", "item", "read", "check", "clash"} => s.op # "scan"
    BY <1>1, NoTxnFields DEF Stage
  <1>3. ASSUME Fit(w)  PROVE AllChosen'
    <2> DEFINE pc == IF s.op = "item_create" THEN "insert" ELSE "commit"
               t == [s EXCEPT !.shares = {s.category}, !.pc = pc]
    <2>1. s.pc = "fit" /\ Moves(w, t)
      BY <1>3 DEF Fit
    <2>2. /\ t.op = s.op /\ t.kind = s.kind /\ t.receipt = s.receipt /\ t.item = s.item
          /\ t.itemLocks = s.itemLocks /\ (t.op = "scan" => t.pc = "commit")
      BY <1>1 DEF Txn
    <2> QED  BY <2>1, <2>2, SameChoice
  <1>4. ASSUME ItemInsert(w)  PROVE AllChosen'
    <2> DEFINE t == [s EXCEPT !.pc = "commit", !.keyShare = TRUE]
    <2>1. s.pc = "insert" /\ Moves(w, t)
      BY <1>4 DEF ItemInsert
    <2>2. t.op = s.op /\ t.kind = s.kind /\ t.receipt = s.receipt /\ t.item = s.item
      BY <1>1 DEF Txn
    <2> QED  BY <1>2, <2>1, <2>2, SameChoice
  <1>5. ASSUME ItemLock(w)  PROVE AllChosen'
    <2> DEFINE t == [s EXCEPT !.pc = ThenFit(s.category, "commit"), !.itemLocks = {s.item}]
    <2>1. s.pc = "item" /\ Moves(w, t)
      BY <1>5 DEF ItemLock
    <2>2. t.op = s.op /\ t.kind = s.kind /\ t.receipt = s.receipt /\ t.item = s.item
      BY <1>1 DEF Txn
    <2> QED  BY <1>2, <2>1, <2>2, SameChoice
  <1>6. ASSUME PatchRead(w)  PROVE AllChosen'
    <2> DEFINE t == [s EXCEPT !.pc = "check", !.taxonomy = CategoriesOf(s.receipt)]
    <2>1. s.pc = "read" /\ Moves(w, t)
      BY <1>6 DEF PatchRead
    <2>2. t.op = s.op /\ t.kind = s.kind /\ t.receipt = s.receipt /\ t.item = s.item
      BY <1>1 DEF Txn
    <2> QED  BY <1>2, <2>1, <2>2, SameChoice
  <1>7. ASSUME PatchCheck(w)  PROVE AllChosen'
    <2> DEFINE t == [s EXCEPT !.pc = "commit", !.shares = s.taxonomy \cap categories]
    <2>1. s.pc = "check" /\ Moves(w, t)
      BY <1>7 DEF PatchCheck
    <2>2. t.op = s.op /\ t.kind = s.kind /\ t.receipt = s.receipt /\ t.item = s.item
      BY <1>1 DEF Txn
    <2> QED  BY <1>2, <2>1, <2>2, SameChoice
  <1>8. ASSUME FlipCheck(w)  PROVE AllChosen'
    <2> DEFINE t == [s EXCEPT !.pc = "commit"]
    <2>1. s.pc = "clash" /\ Moves(w, t)
      BY <1>8 DEF FlipCheck
    <2>2. t.op = s.op /\ t.kind = s.kind /\ t.receipt = s.receipt /\ t.item = s.item
      BY <1>1 DEF Txn
    <2> QED  BY <1>2, <2>1, <2>2, SameChoice
  <1>9. ASSUME Abort(w)  PROVE AllChosen'
    <2>1. Moves(w, NoTxn) /\ Chosen(NoTxn)
      BY <1>9, NoTxnFields DEF Abort, Chosen
    <2> QED  BY <2>1, ChosenMoves
  <1> QED  BY <1>3, <1>4, <1>5, <1>6, <1>7, <1>8, <1>9

(* The scan decides under the row's lock. *)
LEMMA InsertScannedChosen ==
    ASSUME LedgerInvariant, AllChosen, NEW w \in Writers, NEW t \in Txn, InsertScanned(w, t),
           t.op = "scan",
           \/ Keeps(t) /\ \A i \in items : i.receipt # t.receipt
           \/ Replaces(t)
    PROVE  AllChosen'
  <1>1. ASSUME Moves(w, [t EXCEPT !.pc = "commit"])  PROVE AllChosen'
    <2> DEFINE u == [t EXCEPT !.pc = "commit"]
    <2>1. /\ u.op = t.op /\ u.kind = t.kind /\ u.receipt = t.receipt /\ u.itemLocks = t.itemLocks
          /\ u.item = t.item /\ u.pc = "commit"
      BY DEF Txn
    <2> HIDE DEF u
    <2>2. Chosen(u)
      BY <2>1 DEF Chosen, Keeps, Replaces
    <2> QED  BY <1>1, <2>2, ChosenMoves DEF u
  <1>2. ASSUME NEW i \in Items, NEW c \in Picks(w, t.kind),
               Moves(w, [t EXCEPT !.pc = ThenFit(c, "commit"), !.item = i, !.category = c])
        PROVE  AllChosen'
    <2> DEFINE u == [t EXCEPT !.pc = ThenFit(c, "commit"), !.item = i, !.category = c]
    <2>1. /\ u.op = t.op /\ u.kind = t.kind /\ u.receipt = t.receipt /\ u.itemLocks = t.itemLocks
          /\ u.pc \notin {"lock", "wipe"}
      BY DEF Txn, ThenFit
    <2> HIDE DEF u
    <2>2. Chosen(u)
      BY <2>1 DEF Chosen, Keeps, Replaces
    <2> QED  BY <1>2, <2>2, ChosenMoves DEF u
  <1> QED  BY <1>1, <1>2 DEF InsertScanned

(* No item is being inserted beside a scan, where kind changes are alone. *)
LEMMA LockNeverWaits ==
    ASSUME KindChangesAlone, LedgerInvariant, Fits, NEW w \in Writers
    PROVE  ~LockWait(w)
  <1> SUFFICES ASSUME LockWait(w)  PROVE FALSE
    OBVIOUS
  <1>1. txn[w].op \in KindChanges
    BY ScanFacts DEF LockWait, KindChanges
  <1>2. PICK v \in Writers : txn[v].op = "item_create"
    BY DEF LockWait, Others
  <1> QED  BY <1>1, <1>2, Alone DEF ItemWrites

LEMMA VerifyLockChosen ==
    ASSUME LedgerInvariant, AllChosen, NEW w \in Writers, VerifyLock(w)
    PROVE  AllChosen'
  <1> DEFINE r == txn[w].receipt
             t == [txn[w] EXCEPT !.kind = kind[r], !.receiptLock = TRUE]
  <1>1. /\ txn[w].pc = "lock" /\ reviewed[r]
        /\ \/ (ItemsOf(r) = {} \/ t.sawNone) /\ InsertScanned(w, t)
           \/ Moves(w, [t EXCEPT !.pc = "commit"])
    BY DEF VerifyLock
  <1>2. txn[w] \in Txn /\ Stage(txn[w]) /\ Chosen(txn[w])
    BY TxnFacts DEF AllChosen
  <1>3. /\ txn[w].op = "scan" /\ r \in Receipts /\ txn[w].item = NULL /\ txn[w].itemLocks = {}
        /\ ~txn[w].sawNone
    BY <1>1, <1>2, NoTxnFields DEF Stage, Txn, Chosen
  <1>4. kind[r] \in KnownKinds \cup {"none"}
    BY <1>3 DEF LedgerInvariant, TypeOK
  <1>5. t \in Txn /\ t.op = "scan" /\ t.kind = kind[r] /\ t.receipt = r /\ t.item = NULL
        /\ t.itemLocks = {} /\ ~t.sawNone
    BY <1>2, <1>3, <1>4 DEF Txn
  <1> HIDE DEF t
  <1>6. Keeps(t)
    BY <1>1, <1>5 DEF Keeps
  <1>7. ASSUME ItemsOf(r) = {}, InsertScanned(w, t)  PROVE AllChosen'
    <2>1. \A i \in items : i.receipt # t.receipt
      BY <1>5, <1>7 DEF ItemsOf
    <2> QED  BY <1>5, <1>6, <1>7, <2>1, InsertScannedChosen
  <1>8. ASSUME Moves(w, [t EXCEPT !.pc = "commit"])  PROVE AllChosen'
    <2> DEFINE u == [t EXCEPT !.pc = "commit"]
    <2>1. /\ u.op = t.op /\ u.kind = t.kind /\ u.receipt = t.receipt /\ u.itemLocks = t.itemLocks
          /\ u.item = t.item /\ u.pc = "commit"
      BY <1>5 DEF Txn
    <2> HIDE DEF u
    <2>2. Chosen(u)
      BY <1>5, <1>6, <2>1 DEF Chosen, Keeps
    <2> QED  BY <1>8, <2>2, ChosenMoves DEF u
  <1> QED  BY <1>1, <1>5, <1>7, <1>8

LEMMA ExtractionLockChosen ==
    ASSUME LedgerInvariant, AllChosen, NEW w \in Writers, ExtractionLock(w)
    PROVE  AllChosen'
  <1>1. PICK k \in ResultKinds :
            /\ Writable(k)
            /\ Moves(w, [txn[w] EXCEPT !.pc = "wipe", !.kind = k, !.receiptLock = TRUE])
    BY DEF ExtractionLock
  <1> DEFINE t == [txn[w] EXCEPT !.pc = "wipe", !.kind = k, !.receiptLock = TRUE]
  <1>2. txn[w].pc = "lock" /\ ~reviewed[txn[w].receipt]
    BY DEF ExtractionLock
  <1>3. txn[w] \in Txn /\ Stage(txn[w]) /\ Chosen(txn[w])
    BY TxnFacts DEF AllChosen
  <1>4. txn[w].op = "scan" /\ txn[w].itemLocks = {}
    BY <1>2, <1>3, NoTxnFields DEF Stage, Chosen
  <1>5. /\ t.op = "scan" /\ t.pc = "wipe" /\ t.kind = k /\ t.receipt = txn[w].receipt
        /\ t.itemLocks = {}
    BY <1>3, <1>4 DEF Txn
  <1>6. Moves(w, t)
    BY <1>1
  <1> HIDE DEF t
  <1>7. Chosen(t)
    BY <1>1, <1>2, <1>5 DEF Chosen
  <1> QED  BY <1>6, <1>7, ChosenMoves

LEMMA ExtractionWipeChosen ==
    ASSUME LedgerInvariant, AllChosen, NEW w \in Writers, ExtractionWipe(w)
    PROVE  AllChosen'
  <1> DEFINE s == txn[w]
             wiped == {i.id : i \in ItemsOf(s.receipt)}
             t == [s EXCEPT !.itemLocks = wiped]
  <1>1. s.pc = "wipe" /\ InsertScanned(w, t)
    BY DEF ExtractionWipe
  <1>2. s \in Txn /\ Stage(s) /\ Chosen(s)
    BY TxnFacts DEF AllChosen
  <1>3. s.op = "scan" /\ ~reviewed[s.receipt] /\ Writable(s.kind)
    BY <1>1, <1>2, NoTxnFields DEF Stage, Chosen
  <1>4. /\ wiped \subseteq Items
        /\ \A i \in items : i.receipt = s.receipt => i.id \in wiped
        /\ \A x \in wiped : \E i \in items : i.id = x /\ i.receipt = s.receipt
    BY DEF LedgerInvariant, TypeOK, ItemsOf
  <1> HIDE DEF wiped
  <1>5. t \in Txn /\ t.op = "scan" /\ t.kind = s.kind /\ t.receipt = s.receipt /\ t.itemLocks = wiped
    BY <1>2, <1>3, <1>4 DEF Txn
  <1> HIDE DEF t
  <1>6. Replaces(t)
    BY <1>3, <1>4, <1>5 DEF Replaces
  <1> QED  BY <1>1, <1>5, <1>6, InsertScannedChosen

(* A commit changes neither the row nor the set of items of a receipt that *)
(* another transaction has locked.                                         *)
Steady(r) ==
    /\ kind'[r] = kind[r] /\ reviewed'[r] = reviewed[r]
    /\ \A i \in items' : i.receipt = r => \E j \in items : j.id = i.id /\ j.receipt = r
    /\ \A i \in items : i.receipt = r => \E j \in items' : j.id = i.id /\ j.receipt = r

LEMMA ChosenSteady ==
    ASSUME LedgerInvariant, AllChosen, NEW w \in Writers, txn' = [txn EXCEPT ![w] = NoTxn],
           \A v \in Others(w) :
               txn[v].receiptLock /\ txn[v].receipt \in Receipts => Steady(txn[v].receipt)
    PROVE  AllChosen'
  <1> SUFFICES ASSUME NEW v \in Others(w), NEW u \in Txn, u = txn[v]
               PROVE  Chosen(u)'
    BY ChosenTable
  <1>1. Stage(u) /\ Held(u) /\ Chosen(u)
    BY TxnFacts DEF Others, AllChosen
  <1>2. CASE u.op = "scan" /\ u.pc \in {"wipe", "fit", "commit"}
    <2>1. u.receiptLock
      BY <1>1, <1>2, NoTxnFields DEF Stage
    <2>2. u.receipt \in Receipts
      BY <1>1, <2>1 DEF Held, Txn
    <2>3. Steady(u.receipt)
      BY <2>1, <2>2
    <2> QED  BY <1>1, <1>2, <2>3 DEF Chosen, Keeps, Replaces, Steady, Writable
  <1>3. CASE ~(u.op = "scan" /\ u.pc \in {"wipe", "fit", "commit"})
    BY <1>1, <1>3 DEF Chosen
  <1> QED  BY <1>2, <1>3

LEMMA ItemCreatedChosen ==
    ASSUME LedgerInvariant, AllChosen, NEW w \in Writers, ItemCreated(w) \/ ManualCreated(w)
    PROVE  AllChosen'
  <1> DEFINE s == txn[w]
             row == [id |-> s.item, receipt |-> s.receipt, category |-> s.category]
  <1>1. /\ s.op \in {"item_create", "manual"} /\ Commits(w) /\ items' = items \cup {row}
        /\ \/ kind' = kind /\ reviewed' = reviewed
           \/ /\ kind' = [kind EXCEPT ![s.receipt] = s.kind]
              /\ reviewed' = [reviewed EXCEPT ![s.receipt] = TRUE]
    BY DEF ItemCreated, ManualCreated
  <1>2. s \in Txn /\ Stage(s) /\ Held(s) /\ s.pc = "commit" /\ s # NoTxn
    BY <1>1, TxnFacts, CommitFacts
  <1>3. s.op = "item_create" => s.keyShare
    BY <1>1, <1>2 DEF Stage
  <1>4. row.receipt = s.receipt
    OBVIOUS
  <1> HIDE DEF row
  <1>5. ASSUME NEW v \in Others(w), txn[v].receiptLock, txn[v].receipt \in Receipts
        PROVE  Steady(txn[v].receipt)
    <2>1. Apart(txn[v], s) /\ Apart(s, txn[v])
      BY TxnFacts
    <2>2. txn[v].receipt # s.receipt
      BY <1>1, <1>3, <1>5, <2>1 DEF Apart
    <2>3. kind'[txn[v].receipt] = kind[txn[v].receipt]
          /\ reviewed'[txn[v].receipt] = reviewed[txn[v].receipt]
      BY <1>1, <1>5, <2>2 DEF LedgerInvariant, TypeOK
    <2> QED  BY <1>1, <1>4, <2>2, <2>3 DEF Steady
  <1> QED  BY <1>1, <1>5, CommitFacts, ChosenSteady

LEMMA ItemUpdatedChosen ==
    ASSUME LedgerInvariant, AllChosen, NEW w \in Writers, ItemUpdated(w) \/ CategoryRemoved(w)
    PROVE  AllChosen'
  <1> DEFINE s == txn[w]
             set(i) == IF i.id = s.item THEN [i EXCEPT !.category = s.category] ELSE i
             clear(i) == IF i.category = s.category THEN [i EXCEPT !.category = NULL] ELSE i
  <1>1. /\ Commits(w) /\ kind' = kind /\ reviewed' = reviewed
        /\ items' = {set(i) : i \in items} \/ items' = {clear(i) : i \in items}
    BY DEF ItemUpdated, CategoryRemoved, Uncategorized
  <1>2. \A i \in items : /\ set(i).id = i.id /\ set(i).receipt = i.receipt
                         /\ clear(i).id = i.id /\ clear(i).receipt = i.receipt
    BY DEF LedgerInvariant, TypeOK
  <1> HIDE DEF set, clear
  <1>3. \A r : Steady(r)
    BY <1>1, <1>2 DEF Steady
  <1> QED  BY <1>1, <1>3, CommitFacts, ChosenSteady

(* The items a scan is about to replace are locked: none is removed. *)
LEMMA ItemRemoveChosen ==
    ASSUME LedgerInvariant, AllChosen, NEW w \in Writers, NEW i \in items, ItemRemove(w, i)
    PROVE  AllChosen'
  <1>1. /\ Arrives(w, "item_remove") /\ ItemFree(w, i.id) /\ items' = items \ {i}
        /\ kind' = kind /\ reviewed' = reviewed /\ txn' = txn
    BY DEF ItemRemove
  <1>2. ASSUME NEW v \in Others(w), NEW u \in Txn, u = txn[v]
        PROVE  Chosen(u)'
    <2>1. Chosen(u) /\ i.id \notin u.itemLocks
      BY <1>1, <1>2 DEF AllChosen, Others, ItemFree
    <2> QED  BY <1>1, <2>1 DEF Chosen, Keeps, Replaces, Writable
  <1> QED  BY <1>1, <1>2, ArrivesFacts, ChosenTable

LEMMA PatchedChosen ==
    ASSUME LedgerInvariant, AllChosen, NEW w \in Writers, Patched(w)
    PROVE  AllChosen'
  <1> DEFINE s == txn[w]
  <1>1. /\ s.op = "patch" /\ Commits(w) /\ kind' = [kind EXCEPT ![s.receipt] = s.kind]
        /\ reviewed' = [reviewed EXCEPT ![s.receipt] = @ \/ s.mark] /\ items' = items
    BY DEF Patched
  <1>2. Stage(s) /\ s # NoTxn
    BY <1>1, TxnFacts, CommitFacts
  <1>3. s.receiptLock
    BY <1>1, <1>2 DEF Stage
  <1>4. ASSUME NEW v \in Others(w), txn[v].receiptLock, txn[v].receipt \in Receipts
        PROVE  Steady(txn[v].receipt)
    <2>1. txn[v].receipt # s.receipt
      BY <1>3, <1>4, TxnFacts DEF Apart
    <2> QED  BY <1>1, <1>4, <2>1 DEF Steady, LedgerInvariant, TypeOK
  <1> QED  BY <1>1, <1>4, CommitFacts, ChosenSteady

LEMMA DeleteReceiptChosen ==
    ASSUME LedgerInvariant, AllChosen, NEW w \in Writers, NEW r \in Receipts, DeleteReceipt(w, r)
    PROVE  AllChosen'
  <1>1. /\ Arrives(w, "delete") /\ ReceiptFree(w, r) /\ kind' = [kind EXCEPT ![r] = "none"]
        /\ reviewed' = [reviewed EXCEPT ![r] = FALSE]
        /\ items' = items \ ItemsOf(r) /\ txn' = txn
    BY DEF DeleteReceipt
  <1>2. ASSUME NEW v \in Others(w), txn[v].receiptLock, txn[v].receipt \in Receipts
        PROVE  Steady(txn[v].receipt)
    <2>1. txn[v].receipt # r
      BY <1>1, <1>2 DEF ReceiptFree
    <2> QED  BY <1>1, <1>2, <2>1 DEF Steady, ItemsOf, LedgerInvariant, TypeOK
  <1> QED  BY <1>1, <1>2, ArrivesFacts, ChosenSteady

LEMMA CategoryStepChosen ==
    ASSUME LedgerInvariant, AllChosen, NEW w \in Writers, NEW c, NEW income,
           CategoryCreate(w, c, income) \/ Flipped(w)
    PROVE  AllChosen'
  <1>1. /\ kind' = kind /\ reviewed' = reviewed /\ items' = items
        /\ Commits(w) \/ (Arrives(w, "category_create") /\ txn' = txn)
    BY DEF CategoryCreate, Flipped
  <1>2. \A r : Steady(r)
    BY <1>1 DEF Steady
  <1> QED  BY <1>1, <1>2, CommitFacts, ArrivesFacts, ChosenSteady

(* A scan replaces the items of its own receipt and of no other. *)
LEMMA ScanWrittenChosen ==
    ASSUME LedgerInvariant, AllChosen, NEW w \in Writers, ScanWritten(w)
    PROVE  AllChosen'
  <1> DEFINE s == txn[w]
             row == [id |-> s.item, receipt |-> s.receipt, category |-> s.category]
  <1>1. /\ s.op = "scan" /\ Commits(w) /\ kind' = [kind EXCEPT ![s.receipt] = s.kind]
        /\ \A i \in items' : i = row \/ i \in items
        /\ \A i \in items : i.id \notin s.itemLocks => i \in items'
        /\ reviewed' = reviewed
    BY DEF ScanWritten
  <1>2. Stage(s) /\ Chosen(s) /\ s # NoTxn /\ s.pc = "commit"
    BY <1>1, TxnFacts, CommitFacts DEF AllChosen
  <1>3. s.receiptLock
    BY <1>1, <1>2 DEF Stage
  <1>4. \A i \in items : i.id \in s.itemLocks => i.receipt = s.receipt
    BY <1>1, <1>2 DEF Chosen, Keeps, Replaces, LedgerInvariant, IdsUnique
  <1>5. row.receipt = s.receipt
    OBVIOUS
  <1> HIDE DEF row
  <1>6. ASSUME NEW v \in Others(w), txn[v].receiptLock, txn[v].receipt \in Receipts
        PROVE  Steady(txn[v].receipt)
    <2>1. txn[v].receipt # s.receipt
      BY <1>3, <1>6, TxnFacts DEF Apart
    <2>2. kind'[txn[v].receipt] = kind[txn[v].receipt]
      BY <1>1, <1>6, <2>1 DEF LedgerInvariant, TypeOK
    <2> QED  BY <1>1, <1>4, <1>5, <2>1, <2>2 DEF Steady
  <1> QED  BY <1>1, <1>6, CommitFacts, ChosenSteady

LEMMA ChosenNext ==
    ASSUME KindChangesAlone, LedgerInvariant, Fits, AllChosen, [Next]_vars
    PROVE  AllChosen'
  <1>1. CASE UNCHANGED vars
    BY <1>1 DEF vars, AllChosen, Chosen, Keeps, Replaces, Writable
  <1>2. ASSUME NEW w \in Writers, Request(w)
        PROVE  AllChosen'
    BY <1>2, RequestChosen, ItemRemoveChosen, DeleteReceiptChosen, CategoryStepChosen,
       Zenon DEF Request
  <1>3. ASSUME NEW w \in Writers, TxnStep(w)
        PROVE  AllChosen'
    BY <1>3, MoveChosen, ItemCreatedChosen, ItemUpdatedChosen, PatchedChosen, CategoryStepChosen,
       LockNeverWaits, VerifyLockChosen, ExtractionLockChosen, ExtractionWipeChosen, ScanWrittenChosen,
       Zenon DEF TxnStep
  <1> QED  BY <1>1, <1>2, <1>3 DEF Next

-----------------------------------------------------------------------------
(* Step by step. *)

LEMMA SuitsFrom ==
    ASSUME LedgerInvariant, NEW c \in Categories \cup {NULL}, NEW k,
           c # NULL => c \in categories /\ isIncome[c] = IncomeSide(k)
    PROVE  Contract!Suits(c, k)
  <1>1. c # NULL => isIncome[c] \in BOOLEAN
    BY DEF LedgerInvariant, TypeOK
  <1> QED  BY <1>1, Zenon DEF Contract!Suits, IncomeSide

(* The category a writer of items commits with suits the kind it goes by. *)
LEMMA WriterSuits ==
    ASSUME LedgerInvariant, NEW w \in Writers, Commits(w), txn[w].op \in ItemWriting
    PROVE  Contract!Suits(txn[w].category, txn[w].kind)
  <1> DEFINE s == txn[w]
  <1>1. s \in Txn /\ Held(s) /\ s.pc = "commit"
    BY TxnFacts, CommitFacts
  <1>2. s.category # NULL => s.category \in categories /\ isIncome[s.category] = IncomeSide(s.kind)
    BY <1>1 DEF Held
  <1>3. s.category \in Categories \cup {NULL}
    BY <1>1 DEF Txn
  <1> QED  BY <1>2, <1>3, SuitsFrom

LEMMA ItemCreatedRefines ==
    ASSUME LedgerInvariant, Fits, NEW w \in Writers, ItemCreated(w)
    PROVE  Contract!Next
  <1> DEFINE s == txn[w]
  <1>1. /\ s.op = "item_create" /\ Commits(w)
        /\ items' = items \cup {[id |-> s.item, receipt |-> s.receipt, category |-> s.category]}
        /\ UNCHANGED <<kind, reviewed, isIncome, categories>>
    BY DEF ItemCreated
  <1>2. s \in Txn /\ Stage(s) /\ Held(s) /\ Established(s) /\ s.pc = "commit" /\ s # NoTxn
    BY <1>1, TxnFacts, CommitFacts DEF Fits
  <1>3. s.keyShare /\ s.item # NULL
    BY <1>1, <1>2 DEF Stage
  <1>4. /\ s.receipt \in Receipts /\ s.item \in Items /\ s.category \in Categories \cup {NULL}
        /\ Exists(s.receipt) /\ s.kind = kind[s.receipt]
    BY <1>1, <1>2, <1>3 DEF Held, Established, ItemWrites, Txn
  <1>5. Contract!IsNew(s.item)
    BY <1>1, <1>2 DEF Held, Inserting, Contract!IsNew
  <1>6. Contract!Suits(s.category, kind[s.receipt])
    BY <1>1, <1>4, WriterSuits DEF ItemWriting, Inserting
  <1>7. Contract!AddItem(s.receipt, s.item, s.category)
    BY <1>1, <1>4, <1>5, <1>6 DEF Contract!AddItem, Contract!Exists, Exists
  <1> QED  BY <1>4, <1>7 DEF Contract!Next, Contract!ByUser

LEMMA ItemUpdatedRefines ==
    ASSUME LedgerInvariant, Fits, NEW w \in Writers, ItemUpdated(w)
    PROVE  Contract!Next \/ UNCHANGED Contract!vars
  <1> DEFINE s == txn[w]
             new(i) == IF i.id = s.item THEN [i EXCEPT !.category = s.category] ELSE i
  <1>1. /\ s.op = "item_update" /\ Commits(w) /\ items' = {new(i) : i \in items}
        /\ UNCHANGED <<kind, reviewed, isIncome, categories>>
    BY DEF ItemUpdated
  <1>2. s \in Txn /\ Stage(s) /\ Held(s) /\ Established(s)
    BY TxnFacts DEF Fits
  <1>3. ASSUME NEW i \in items, i.id = s.item
        PROVE  Contract!Next
    <2>1. i.receipt = s.receipt /\ Exists(i.receipt)
      BY <1>1, <1>2, <1>3 DEF Established, LedgerInvariant, ReferencesExist
    <2>2. s.kind = kind[i.receipt] /\ s.category \in Categories \cup {NULL}
      BY <1>1, <1>2, <2>1 DEF Established, ItemWrites, Txn
    <2>3. Contract!Suits(s.category, kind[i.receipt])
      BY <1>1, <2>2, WriterSuits DEF ItemWriting
    <2>4. \A j \in items : j.id = s.item <=> j = i
      BY <1>3 DEF LedgerInvariant, IdsUnique
    <2>5. items' = (items \ {i}) \cup {[i EXCEPT !.category = s.category]}
      BY <1>1, <2>4
    <2>6. Contract!Categorize(i, s.category)
      BY <1>1, <2>3, <2>5 DEF Contract!Categorize
    <2> QED  BY <2>2, <2>6 DEF Contract!Next, Contract!ByUser
  <1>4. CASE \A i \in items : i.id # s.item
    <2>1. items' = items
      BY <1>1, <1>4
    <2> QED  BY <1>1, <2>1 DEF Contract!vars
  <1> QED  BY <1>3, <1>4

LEMMA ManualCreatedRefines ==
    ASSUME LedgerInvariant, AllChosen, NEW w \in Writers, ManualCreated(w)
    PROVE  Contract!Next
  <1> DEFINE s == txn[w]
  <1>1. /\ s.op = "manual" /\ Commits(w)
        /\ kind' = [kind EXCEPT ![s.receipt] = s.kind]
        /\ reviewed' = [reviewed EXCEPT ![s.receipt] = TRUE]
        /\ items' = items \cup {[id |-> s.item, receipt |-> s.receipt, category |-> s.category]}
        /\ UNCHANGED <<isIncome, categories>>
    BY DEF ManualCreated
  <1>2. s \in Txn /\ Stage(s) /\ Held(s) /\ Chosen(s) /\ s # NoTxn
    BY <1>1, TxnFacts, CommitFacts DEF AllChosen
  <1>3. /\ s.receipt \in Receipts /\ s.item \in Items /\ s.category \in Categories \cup {NULL}
        /\ ~Exists(s.receipt) /\ s.kind \in EntryKinds
    BY <1>1, <1>2 DEF Stage, Held, Chosen, Txn
  <1>4. Contract!IsNew(s.item)
    BY <1>1, <1>2 DEF Held, Inserting, Contract!IsNew
  <1>5. Contract!Suits(s.category, s.kind)
    BY <1>1, WriterSuits DEF ItemWriting, Inserting
  <1>6. Contract!Enter(s.receipt, s.kind, s.item, s.category)
    BY <1>1, <1>3, <1>4, <1>5 DEF Contract!Enter, Contract!Exists, Exists
  <1> QED  BY <1>3, <1>6 DEF Contract!Next, Contract!ByUser

LEMMA PatchedRefines ==
    ASSUME LedgerInvariant, Fits, AllChosen, NEW w \in Writers, Patched(w)
    PROVE  Contract!Next
  <1> DEFINE s == txn[w]
  <1>1. /\ s.op = "patch" /\ Commits(w)
        /\ kind' = [kind EXCEPT ![s.receipt] = s.kind]
        /\ reviewed' = [reviewed EXCEPT ![s.receipt] = @ \/ s.mark]
        /\ UNCHANGED <<isIncome, categories, items>>
    BY DEF Patched
  <1>2. /\ s \in Txn /\ Stage(s) /\ Held(s) /\ Established(s) /\ Chosen(s)
        /\ s.pc = "commit" /\ s # NoTxn
    BY <1>1, TxnFacts, CommitFacts DEF Fits, AllChosen
  <1>3. s.receiptLock
    BY <1>1, <1>2 DEF Stage
  <1>4. s.receipt \in Receipts /\ Exists(s.receipt) /\ s.kind \in EntryKinds /\ s.mark \in BOOLEAN
    BY <1>1, <1>2, <1>3 DEF Held, Chosen, Txn
  <1>5. ASSUME NEW i \in items, i.receipt = s.receipt
        PROVE  Contract!Suits(i.category, s.kind)
    <2>1. i.category \in Categories \cup {NULL} /\ i.category \in categories \cup {NULL}
      BY DEF LedgerInvariant, TypeOK, ReferencesExist
    <2>2. i.category # NULL => isIncome[i.category] = IncomeSide(kind[s.receipt])
      BY <1>5 DEF Fits, CategoryFits
    <2>3. i.category # NULL => isIncome[i.category] = IncomeSide(s.kind)
      BY <1>1, <1>2, <1>5, <2>2 DEF Established
    <2> QED  BY <2>1, <2>3, SuitsFrom
  <1>6. Contract!Edit(s.receipt, s.kind, s.mark)
    BY <1>1, <1>4, <1>5 DEF Contract!Edit, Contract!ItemsOf, Contract!Exists, Exists
  <1> QED  BY <1>4, <1>6 DEF Contract!Next, Contract!ByUser

LEMMA PlainRefines ==
    ASSUME LedgerInvariant, NEW w \in Writers,
           \/ \E i \in items : ItemRemove(w, i)
           \/ \E r \in Receipts : DeleteReceipt(w, r)
           \/ \E c \in Categories, income \in BOOLEAN : CategoryCreate(w, c, income)
    PROVE  Contract!Next
  <1>1. ASSUME NEW i \in items, ItemRemove(w, i)  PROVE Contract!Next
    <2>1. Contract!RemoveItem(i)
      BY <1>1 DEF ItemRemove, Contract!RemoveItem
    <2> QED  BY <2>1 DEF Contract!Next, Contract!ByUser
  <1>2. ASSUME NEW r \in Receipts, DeleteReceipt(w, r)  PROVE Contract!Next
    <2>1. Contract!Delete(r)
      BY <1>2 DEF DeleteReceipt, Contract!Delete, Contract!Exists, Exists, Contract!ItemsOf, ItemsOf
    <2> QED  BY <2>1 DEF Contract!Next, Contract!ByUser
  <1>3. ASSUME NEW c \in Categories, NEW income \in BOOLEAN, CategoryCreate(w, c, income)
        PROVE  Contract!Next
    <2>1. Contract!AddCategory(c, income)
      BY <1>3 DEF CategoryCreate, Contract!AddCategory
    <2> QED  BY <2>1 DEF Contract!Next, Contract!ByUser
  <1> QED  BY <1>1, <1>2, <1>3

LEMMA CategoryStepRefines ==
    ASSUME LedgerInvariant, Fits, NEW w \in Writers, Flipped(w) \/ CategoryRemoved(w)
    PROVE  Contract!Next
  <1> DEFINE s == txn[w]
             c == s.category
  <1>1. Stage(s) /\ Held(s) /\ Established(s) /\ s.pc = "commit" /\ s # NoTxn
    BY TxnFacts, CommitFacts DEF Fits, Flipped, CategoryRemoved
  <1>2. c \in categories
    BY <1>1 DEF Stage, Held, Flipped, CategoryRemoved
  <1>3. ASSUME Flipped(w)  PROVE Contract!Next
    <2>1. \A i \in items : i.category # c
      BY <1>1, <1>3 DEF Flipped, Established
    <2>2. Contract!Flip(c)
      BY <1>3, <2>1 DEF Flipped, Contract!Flip
    <2> QED  BY <1>2, <2>2 DEF Contract!Next, Contract!ByUser
  <1>4. ASSUME CategoryRemoved(w)  PROVE Contract!Next
    <2>1. Contract!RemoveCategory(c)
      BY <1>4 DEF CategoryRemoved, Uncategorized, Contract!RemoveCategory
    <2> QED  BY <1>2, <2>1 DEF Contract!Next, Contract!ByUser
  <1> QED  BY <1>3, <1>4

(* writeVerify and writeExtraction, by what the scan chose. *)
LEMMA ScanWrittenRefines ==
    ASSUME LedgerInvariant, AllChosen, NEW w \in Writers, ScanWritten(w)
    PROVE  Contract!Next \/ UNCHANGED Contract!vars
  <1> DEFINE s == txn[w]
             r == s.receipt
             row == [id |-> s.item, receipt |-> r, category |-> s.category]
             new == {[id |-> i, receipt |-> r, category |-> s.category] : i \in {s.item} \ {NULL}}
  <1>1. /\ s.op = "scan" /\ Commits(w) /\ kind' = [kind EXCEPT ![r] = s.kind]
        /\ items' = {i \in items : i.id \notin s.itemLocks} \cup new
        /\ UNCHANGED <<reviewed, isIncome, categories>>
    BY DEF ScanWritten
  <1>2. s \in Txn /\ Stage(s) /\ Held(s) /\ Chosen(s) /\ s.pc = "commit" /\ s # NoTxn
    BY <1>1, TxnFacts, CommitFacts DEF AllChosen
  <1>3. s.receiptLock /\ s.kind # "none"
    BY <1>1, <1>2 DEF Stage
  <1>4. r \in Receipts /\ Exists(r) /\ s.category \in Categories \cup {NULL}
    BY <1>2, <1>3 DEF Held, Txn
  <1>5. new = IF s.item = NULL THEN {} ELSE {row}
    OBVIOUS
  <1>6. new \in Contract!Scanned(r, s.kind)
    <2>1. Contract!Suits(s.category, s.kind)
      BY <1>1, WriterSuits DEF ItemWriting, Inserting
    <2>2. s.item # NULL => s.item \in Items /\ Contract!IsNew(s.item)
      BY <1>1, <1>2 DEF Held, Inserting, Txn, Contract!IsNew
    <2> QED  BY <1>4, <1>5, <2>1, <2>2 DEF Contract!Scanned
  <1> HIDE DEF new
  <1>7. CASE Keeps(s)
    <2>1. kind' = kind
      BY <1>1, <1>4, <1>7 DEF Keeps, LedgerInvariant, TypeOK
    <2>2. items' = items \cup new
      BY <1>1, <1>7 DEF Keeps
    <2>3. CASE s.item = NULL
      BY <1>1, <1>5, <2>1, <2>2, <2>3 DEF Contract!vars
    <2>4. CASE s.item # NULL
      <3>1. Contract!ItemsOf(r) = {} /\ reviewed[r] /\ s.kind = kind[r]
        BY <1>7, <2>4 DEF Keeps, Contract!ItemsOf
      <3>2. Contract!Verify(r)
        BY <1>1, <1>4, <1>6, <2>1, <2>2, <3>1 DEF Contract!Verify, Contract!Exists, Exists
      <3> QED  BY <1>4, <3>2 DEF Contract!Next, Contract!ByScan
    <2> QED  BY <2>3, <2>4
  <1>8. CASE Replaces(s)
    <2>1. \A i \in items : i.id \in s.itemLocks <=> i.receipt = r
      BY <1>8 DEF Replaces, LedgerInvariant, IdsUnique
    <2>2. items' = (items \ Contract!ItemsOf(r)) \cup new
      BY <1>1, <2>1 DEF Contract!ItemsOf
    <2>3. ~reviewed[r] /\ s.kind \in {k \in ResultKinds : Scannable(k)}
      BY <1>8 DEF Replaces, Writable
    <2>4. Contract!Extract(r, s.kind)
      BY <1>1, <1>4, <1>6, <2>2, <2>3 DEF Contract!Extract, Contract!Exists, Exists
    <2> QED  BY <1>4, <2>3, <2>4 DEF Contract!Next, Contract!ByScan
  <1> QED  BY <1>1, <1>2, <1>7, <1>8 DEF Chosen

(* Every other step is between a transaction and its locks. *)
LEMMA UnseenSteps ==
    ASSUME NEW w \in Writers,
           \/ \E op, t : Begin(w, op, t)
           \/ \E t : Moves(w, t)
    PROVE  UNCHANGED Contract!vars
  BY DEF Begin, Moves, rows, Contract!vars

LEMMA RequestRefines ==
    ASSUME LedgerInvariant, NEW w \in Writers, Request(w)
    PROVE  Contract!Next \/ UNCHANGED Contract!vars
  <1>1. ASSUME NEW r \in Receipts, NEW c, ItemCreate(w, r, c)  PROVE UNCHANGED Contract!vars
    BY <1>1, UnseenSteps DEF ItemCreate
  <1>2. ASSUME NEW i \in items, NEW c, ItemUpdate(w, i, c)  PROVE UNCHANGED Contract!vars
    BY <1>2, UnseenSteps DEF ItemUpdate
  <1>3. ASSUME NEW r, NEW k, NEW c, CreateManual(w, r, k, c)  PROVE UNCHANGED Contract!vars
    BY <1>3, UnseenSteps DEF CreateManual
  <1>4. ASSUME NEW r, NEW k, NEW mark, PatchLock(w, r, k, mark)  PROVE UNCHANGED Contract!vars
    BY <1>4, UnseenSteps DEF PatchLock
  <1>5. ASSUME NEW c, FlipLock(w, c) \/ CategoryRemove(w, c)  PROVE UNCHANGED Contract!vars
    BY <1>5, UnseenSteps DEF FlipLock, CategoryRemove
  <1>6. ASSUME NEW r, ScanLoad(w, r)  PROVE UNCHANGED Contract!vars
    BY <1>6, UnseenSteps DEF ScanLoad
  <1> QED  BY <1>1, <1>2, <1>3, <1>4, <1>5, <1>6, PlainRefines, Zenon DEF Request

LEMMA TxnStepRefines ==
    ASSUME LedgerInvariant, Fits, AllChosen, NEW w \in Writers, TxnStep(w)
    PROVE  Contract!Next \/ UNCHANGED Contract!vars
  <1>1. ASSUME Fit(w) \/ ItemInsert(w) \/ ItemLock(w) \/ Abort(w)  PROVE UNCHANGED Contract!vars
    BY <1>1, UnseenSteps DEF Fit, ItemInsert, ItemLock, Abort
  <1>2. ASSUME PatchRead(w) \/ PatchCheck(w) \/ FlipCheck(w)  PROVE UNCHANGED Contract!vars
    BY <1>2, UnseenSteps DEF PatchRead, PatchCheck, FlipCheck
  <1>3. ASSUME LockWait(w) \/ VerifyLock(w) \/ ExtractionLock(w) \/ ExtractionWipe(w)
        PROVE  UNCHANGED Contract!vars
    BY <1>3, UnseenSteps DEF LockWait, VerifyLock, ExtractionLock, ExtractionWipe, InsertScanned
  <1> QED
    BY <1>1, <1>2, <1>3, ItemCreatedRefines, ItemUpdatedRefines, ManualCreatedRefines,
       PatchedRefines, CategoryStepRefines, ScanWrittenRefines, Zenon DEF TxnStep

(* The transactions of items, receipts, categories and scans take effect   *)
(* one at a time, each in its commit and each on tables that are as it     *)
(* checked them, in every mix of requests in which item writes do not meet *)
(* a change of a receipt's kind.                                           *)
THEOREM LedgerIsAtomic == Spec => LedgerLooksAtomic
  <1> DEFINE Decided == KindChangesAlone => Fits /\ AllChosen
  <1>1. Init => Contract!Init
    BY DEF Init, Contract!Init
  <1>2. Init => Decided
    BY InitFits, InitChosen
  <1>3. LedgerInvariant /\ Decided /\ [Next]_vars => Decided'
    BY FitsNext, ChosenNext, MixStays
  <1>4. LedgerInvariant /\ Decided /\ [Next]_vars =>
            [KindChangesAlone => Contract!Next]_(Contract!vars)
    <2> SUFFICES ASSUME LedgerInvariant, Fits, AllChosen, [Next]_vars
                 PROVE  Contract!Next \/ UNCHANGED Contract!vars
      OBVIOUS
    <2>1. CASE UNCHANGED vars
      BY <2>1 DEF vars, Contract!vars
    <2>2. CASE Next
      BY <2>2, RequestRefines, TxnStepRefines DEF Next
    <2> QED  BY <2>1, <2>2
  <1> QED
    BY <1>1, <1>2, <1>3, <1>4, LedgerCorrect, PTL DEF Spec, LedgerLooksAtomic
=============================================================================
