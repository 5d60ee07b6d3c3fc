------------------------ MODULE ReceiptFieldsProofs -------------------------
(***************************************************************************)
(* The properties of ReceiptFields for every set of receipts, bodies and   *)
(* open transactions.                                                      *)
(***************************************************************************)
EXTENDS ReceiptFields, TLAPS

Writing == {"manual", "patch", "scan"}

(* A transaction is idle, deletes, or is on its way to a write. *)
Shape(t) ==
    \/ t = NoTxn
    \/ t.op = "delete" /\ t.pc = "unlink" /\ t.receipt \in Receipts /\ t.share = NULL
    \/ /\ t.op \in Writing /\ t.pc \in {"check", "store", "commit"} /\ t.receipt \in Receipts
       /\ t.new.kind # "none"
       /\ t.pc # "commit" => t.share = NULL

(* What every stored row obeys, and every row about to be stored. *)
PassesChecks(r) ==
    /\ r.kind = "purchase" => r.direction = "outflow"
    /\ r.kind \in {"refund", "reimbursement", "income"} => r.direction = "inflow"
    /\ r.tax => r.kind = "purchase"
MayLink(r) == r.offsets # NULL => RulesFor(r.kind).canOffset
Sound(r) == ValidRow(r) /\ r.equivalent = AudEquivalent(r.total, r.rate)
RowOK(r) == PassesChecks(r) /\ MayLink(r) /\ (r.reviewed => Sound(r))

RowsOK ==
    \A r \in Receipts : IF Exists(r) THEN RowOK(row[r]) ELSE row[r].offsets = NULL

TxnsOK ==
    \A w \in Writers :
        /\ Shape(txn[w])
        /\ txn[w].op \in Writing => RowOK(txn[w].new)
        /\ txn[w].op = "manual" => ~Exists(txn[w].receipt)

(* Nobody else writes, or links to, the receipt of an open transaction. *)
LocksExclude ==
    \A v, w \in Writers : v # w /\ txn[v].receipt # NULL =>
        /\ txn[w].receipt # txn[v].receipt
        /\ txn[v].op # "manual" => txn[w].share # txn[v].receipt

TargetsExist == \A r \in Receipts : row[r].offsets # NULL => Exists(row[r].offsets)

(* A link about to be committed is the row's old one, or its target is     *)
(* held by KEY SHARE.                                                      *)
LinksHeld ==
    \A w \in Writers : txn[w].pc = "commit" /\ txn[w].new.offsets # NULL =>
        /\ Exists(txn[w].new.offsets)
        /\ \/ txn[w].share = txn[w].new.offsets
           \/ Locks(w, txn[w].receipt) /\ row[txn[w].receipt].offsets = txn[w].new.offsets

(* A link that passed validateReferences is not answered by one back. *)
LinksOneWay ==
    \A w \in Writers : txn[w].pc \in {"store", "commit"} /\ txn[w].new.offsets # NULL =>
        /\ txn[w].new.offsets # txn[w].receipt
        /\ row[txn[w].new.offsets].offsets # txn[w].receipt

FieldsInvariant ==
    /\ TypeOK
    /\ RowsOK
    /\ TxnsOK
    /\ LocksExclude
    /\ TargetsExist
    /\ LinksHeld
    /\ LinksOneWay
    /\ NoMutualOffsets

-----------------------------------------------------------------------------
(* What the kind table says, as far as the proofs use it. *)
LEMMA KindFacts ==
    ASSUME NEW k \in KnownKinds
    PROVE  /\ RulesFor(k).canonicalDirection \in Directions \cup {AnyDirection}
           /\ RulesFor(k).canonicalDirection \in {"outflow", AnyDirection} <=> k \in {"purchase", "transfer"}
           /\ RulesFor(k).canonicalDirection = AnyDirection <=> k = "transfer"
           /\ RulesFor(k).allowsTaxDeductible <=> k = "purchase"
           /\ RulesFor(k).canOffset \in BOOLEAN
           /\ RulesFor(k).isOffsetTarget => ~RulesFor(k).canOffset
           /\ Scannable(k) <=> k # "transfer"
  <1>1. CASE k = "purchase"
    BY <1>1 DEF RulesFor, KindRules, Directions, AnyDirection, Scannable, KnownKinds
  <1>2. CASE k = "refund"
    BY <1>2 DEF RulesFor, KindRules, Directions, AnyDirection, Scannable, KnownKinds
  <1>3. CASE k = "reimbursement"
    BY <1>3 DEF RulesFor, KindRules, Directions, AnyDirection, Scannable, KnownKinds
  <1>4. CASE k = "income"
    BY <1>4 DEF RulesFor, KindRules, Directions, AnyDirection, Scannable, KnownKinds
  <1>5. CASE k = "transfer"
    BY <1>5 DEF RulesFor, KindRules, Directions, AnyDirection, Scannable, KnownKinds
  <1> QED  BY <1>1, <1>2, <1>3, <1>4, <1>5 DEF KnownKinds

LEMMA ValidPasses ==
    ASSUME NEW r \in Row, r.kind \in KnownKinds, ValidRow(r)
    PROVE  PassesChecks(r) /\ MayLink(r)
  <1>1. r.direction \in {"inflow", "outflow"} /\ r.tax \in BOOLEAN
    BY DEF Row, Directions
  <1>2. RulesFor(r.kind).canonicalDirection \in {AnyDirection, r.direction}
        /\ (r.tax => RulesFor(r.kind).allowsTaxDeductible) /\ MayLink(r)
    BY DEF ValidRow, MayLink
  <1> QED  BY <1>1, <1>2, KindFacts DEF PassesChecks, KnownKinds, Directions, AnyDirection

LEMMA BlankRowType == BlankRow \in Row /\ NoRow \in Row
  BY FieldsAssumption DEF BlankRow, NoRow, Row, KnownKinds, Directions, Currencies, DefaultKind

LEMMA AudType ==
    ASSUME NEW total \in Nat, NEW rate \in Rates \cup {NULL}
    PROVE  AudEquivalent(total, rate) \in Nat \cup {NULL}
  <1>1. CASE rate = NULL
    BY <1>1 DEF AudEquivalent
  <1>2. CASE rate # NULL
    <2>1. rate \in Nat
      BY <1>2, FieldsAssumption
    <2>2. total * rate \in Nat
      BY <2>1
    <2>3. 2 * total * rate + 100 \in Nat
      BY <2>1, <2>2
    <2>4. (2 * total * rate + 100) \div 200 \in Nat
      BY <2>3
    <2> QED  BY <1>2, <2>4 DEF AudEquivalent
  <1> QED  BY <1>1, <1>2

(* A body merged into a row is a row, with the AUD equivalent of its own   *)
(* total and rate.                                                         *)
LEMMA MergeType ==
    ASSUME NEW old \in Row, old.kind \in KnownKinds, NEW body \in Bodies
    PROVE  /\ Merge(old, body) \in Row
           /\ Merge(old, body).kind \in KnownKinds
           /\ Merge(old, body).reviewed = old.reviewed
           /\ Merge(old, body).equivalent = AudEquivalent(Merge(old, body).total, Merge(old, body).rate)
  <1>0. body \in Body
    BY FieldsAssumption
  <1> DEFINE total == Given(body.total, old.total)
             rate == Given(body.rate, old.rate)
             kind == Given(body.kind, old.kind)
             currency == Given(body.currency, old.currency)
             tax == Given(body.tax, old.tax)
             offsets == Given(body.offsets, old.offsets)
             direction == DirectionOf(body, old.direction)
             aud == AudEquivalent(total, rate)
  <1>1. total \in Totals /\ rate \in Rates \cup {NULL} /\ kind \in KnownKinds
        /\ currency \in Currencies /\ tax \in BOOLEAN /\ offsets \in Receipts \cup {NULL}
    BY <1>0 DEF Given, Body, Row
  <1>2. direction \in Directions
    <2>1. CASE body.kind = Absent
      BY <1>0, <2>1 DEF DirectionOf, Body, Row
    <2>2. CASE body.kind # Absent
      <3>1. body.kind \in KnownKinds
        BY <1>0, <2>2 DEF Body
      <3> QED  BY <1>0, <3>1, KindFacts DEF DirectionOf, Body, Row
    <2> QED  BY <2>1, <2>2
  <1>3. aud \in Nat \cup {NULL}
    BY <1>1, AudType, FieldsAssumption
  <1>4. Merge(old, body) = [old EXCEPT !.kind = kind, !.direction = direction, !.total = total,
                                !.currency = currency, !.rate = rate, !.equivalent = aud,
                                !.tax = tax, !.offsets = offsets]
    BY DEF Merge
  <1> HIDE DEF total, rate, kind, currency, tax, offsets, direction
  <1>5. Merge(old, body) = [kind |-> kind, direction |-> direction, total |-> total,
                            currency |-> currency, rate |-> rate, equivalent |-> aud,
                            tax |-> tax, offsets |-> offsets, reviewed |-> old.reviewed]
    BY <1>4 DEF Row
  <1>6. old.reviewed \in BOOLEAN
    BY DEF Row
  <1> HIDE DEF aud
  <1>7. Merge(old, body) \in Row
    BY <1>1, <1>2, <1>3, <1>5, <1>6 DEF Row
  <1>8. Merge(old, body).kind \in KnownKinds /\ Merge(old, body).reviewed = old.reviewed
        /\ Merge(old, body).equivalent = aud /\ Merge(old, body).total = total
        /\ Merge(old, body).rate = rate
    BY <1>1, <1>5
  <1> QED  BY <1>7, <1>8 DEF aud

(* The row a manual entry or an edit will store. *)
LEMMA EntryOK ==
    ASSUME NEW old \in Row, old.kind \in KnownKinds, NEW body \in Bodies, NEW mark \in BOOLEAN,
           NEW new, new = [Merge(old, body) EXCEPT !.reviewed = mark], ValidRow(new)
    PROVE  new \in Row /\ new.kind \in KnownKinds /\ RowOK(new)
  <1>1. new \in Row /\ new.kind \in KnownKinds
        /\ new.equivalent = AudEquivalent(new.total, new.rate)
    <2> DEFINE m == Merge(old, body)
    <2>1. m \in Row /\ m.kind \in KnownKinds /\ m.equivalent = AudEquivalent(m.total, m.rate)
      BY MergeType
    <2> HIDE DEF m
    <2>2. new = [m EXCEPT !.reviewed = mark]
      BY DEF m
    <2>3. new \in Row /\ new.kind = m.kind /\ new.equivalent = m.equivalent
          /\ new.total = m.total /\ new.rate = m.rate
      BY <2>1, <2>2 DEF Row
    <2> QED  BY <2>1, <2>3
  <1>2. PassesChecks(new) /\ MayLink(new)
    BY <1>1, ValidPasses
  <1> QED  BY <1>1, <1>2 DEF RowOK, Sound

(* The row an extraction will store. *)
LEMMA ExtractedOK ==
    ASSUME NEW old \in Row, old.kind \in KnownKinds, ~old.reviewed, NEW kind \in KnownKinds,
           Scannable(kind), NEW total \in Totals, NEW currency \in Currencies,
           NEW new, new = Extracted(old, kind, total, currency)
    PROVE  /\ new \in Row /\ new.kind \in KnownKinds /\ RowOK(new)
           /\ new.offsets \in {old.offsets, NULL}
  <1> DEFINE direction == RulesFor(kind).canonicalDirection
             tax == old.tax /\ RulesFor(kind).allowsTaxDeductible
             offsets == IF RulesFor(kind).canOffset THEN old.offsets ELSE NULL
  <1>1. direction \in Directions /\ tax \in BOOLEAN /\ offsets \in Receipts \cup {NULL}
        /\ (tax => kind = "purchase")
        /\ (direction = "outflow" <=> kind = "purchase")
    BY KindFacts DEF Row, Directions, AnyDirection, KnownKinds
  <1>2. new = [old EXCEPT !.kind = kind, !.direction = direction, !.total = total,
                          !.currency = currency, !.tax = tax, !.offsets = offsets]
    BY DEF Extracted
  <1>3. offsets # NULL => RulesFor(kind).canOffset
    OBVIOUS
  <1>4. offsets \in {old.offsets, NULL}
    OBVIOUS
  <1> HIDE DEF direction, tax, offsets
  <1>5. /\ new \in Row /\ new.kind = kind /\ new.direction = direction /\ new.tax = tax
        /\ new.offsets = offsets /\ new.reviewed = old.reviewed
    BY <1>1, <1>2 DEF Row
  <1>6. PassesChecks(new)
    BY <1>1, <1>5 DEF PassesChecks, Directions
  <1>7. MayLink(new)
    BY <1>3, <1>5 DEF MayLink
  <1> QED  BY <1>4, <1>5, <1>6, <1>7 DEF RowOK

LEMMA BlankOK == RowOK(BlankRow) /\ BlankRow.kind # "none" /\ BlankRow.offsets = NULL
  BY DEF RowOK, BlankRow, DefaultKind, PassesChecks, MayLink

LEMMA NoTxnFacts ==
    /\ NoTxn.pc = "idle" /\ NoTxn.op = "none" /\ NoTxn.receipt = NULL /\ NoTxn.share = NULL
    /\ NoTxn.new.offsets = NULL /\ NoTxn.new \in Row
  BY BlankRowType DEF NoTxn, NoRow, BlankRow

Txn ==
    [pc : {"idle", "check", "store", "commit", "unlink"},
     op : {"none", "manual", "patch", "delete", "scan"},
     receipt : Receipts \cup {NULL}, new : Row, share : Receipts \cup {NULL}]

LEMMA NoTxnType == NoTxn \in Txn
  BY BlankRowType DEF NoTxn, Txn

(* What the shape says of an open transaction. *)
LEMMA OpenTxn ==
    ASSUME FieldsInvariant, NEW w \in Writers, txn[w].receipt # NULL
    PROVE  txn[w].op = "manual" \/ Locks(w, txn[w].receipt)
  BY NoTxnFacts DEF FieldsInvariant, TxnsOK, Shape, Locks, Writing

-----------------------------------------------------------------------------
LEMMA InitFields == Init => FieldsInvariant
  <1> SUFFICES ASSUME Init  PROVE FieldsInvariant
    OBVIOUS
  <1>1. /\ \A r \in Receipts : row[r] = NoRow /\ row[r].offsets = NULL /\ ~Exists(r)
        /\ \A w \in Writers : txn[w] = NoTxn
    BY DEF Init, NoRow, BlankRow, Exists
  <1>2. TypeOK
    BY BlankRowType, NoTxnType, FieldsAssumption DEF Init, TypeOK, Txn
  <1>3. RowsOK /\ TargetsExist
    BY <1>1 DEF RowsOK, TargetsExist
  <1>4. TxnsOK /\ LocksExclude /\ LinksHeld /\ LinksOneWay
    BY <1>1, NoTxnFacts DEF TxnsOK, LocksExclude, LinksHeld, LinksOneWay, Shape, Writing
  <1>5. NoMutualOffsets
    BY <1>1, NamesAssumption DEF NoMutualOffsets
  <1> QED  BY <1>2, <1>3, <1>4, <1>5 DEF FieldsInvariant

(* A request that opens a transaction. *)
LEMMA BeginStep ==
    ASSUME FieldsInvariant, NEW w \in Writers, NEW r \in Receipts,
           NEW op \in Writing \cup {"delete"}, NEW new \in Row,
           NEW pc \in {"check", "store", "unlink"}, Begin(w, op, r, new, pc),
           pc = "unlink" <=> op = "delete",
           op \in Writing => new.kind # "none" /\ RowOK(new),
           op = "manual" => FreshId(r),
           op # "manual" => Exists(r) /\ Free(w, r),
           pc = "store" /\ new.offsets # NULL => new.offsets # r /\ row[new.offsets].offsets # r
    PROVE  FieldsInvariant'
  <1> DEFINE t == [pc |-> pc, op |-> op, receipt |-> r, new |-> new, share |-> NULL]
  <1>0. TypeOK /\ RowsOK /\ TxnsOK /\ LocksExclude /\ TargetsExist /\ LinksHeld /\ LinksOneWay
        /\ NoMutualOffsets
    BY DEF FieldsInvariant
  <1>1. /\ row' = row
        /\ txn' = [txn EXCEPT ![w] = t]
        /\ requests' \in 0..MaxRequests
    BY <1>0, FieldsAssumption DEF Begin, Arrives, TypeOK
  <1>2. /\ txn'[w] = t
        /\ \A v \in Writers \ {w} : txn'[v] = txn[v]
    BY <1>0, <1>1 DEF TypeOK
  <1>3. t \in Txn
    BY DEF Txn, Writing
  <1>4. TypeOK'
    BY <1>0, <1>1, <1>3 DEF TypeOK, Txn
  <1>5. t.pc = pc /\ t.op = op /\ t.receipt = r /\ t.new = new /\ t.share = NULL
    OBVIOUS
  <1> HIDE DEF t
  <1>6. RowsOK' /\ TargetsExist' /\ NoMutualOffsets'
    BY <1>0, <1>1 DEF RowsOK, TargetsExist, NoMutualOffsets, Exists
  <1>7. TxnsOK'
    <2>1. Shape(t)
      BY <1>5 DEF Shape, Writing
    <2>2. op = "manual" => ~Exists(r)
      BY DEF FreshId
    <2> QED  BY <1>0, <1>1, <1>2, <1>5, <2>1, <2>2 DEF TxnsOK, Exists, Writing
  <1>8. \A v \in Writers \ {w} : txn[v].receipt # r /\ (op # "manual" => txn[v].share # r)
    <2> SUFFICES ASSUME NEW v \in Writers \ {w}
                 PROVE  txn[v].receipt # r /\ (op # "manual" => txn[v].share # r)
      OBVIOUS
    <2>1. CASE op = "manual"
      BY <2>1 DEF FreshId
    <2>2. CASE op # "manual"
      <3>1. ~Locks(v, r) /\ txn[v].share # r /\ Exists(r)
        BY <2>2 DEF Free
      <3>2. txn[v].receipt # r
        BY <1>0, <3>1, OpenTxn, NamesAssumption DEF TxnsOK
      <3> QED  BY <3>1, <3>2
    <2> QED  BY <2>1, <2>2
  <1>9. LocksExclude'
    BY <1>0, <1>2, <1>5, <1>8 DEF LocksExclude
  <1>10. LinksHeld'
    BY <1>0, <1>1, <1>2, <1>5 DEF LinksHeld, Exists, Locks
  <1>11. LinksOneWay'
    BY <1>0, <1>1, <1>2, <1>5 DEF LinksOneWay
  <1> QED  BY <1>4, <1>6, <1>7, <1>9, <1>10, <1>11 DEF FieldsInvariant

LEMMA UploadStep ==
    ASSUME FieldsInvariant, NEW w \in Writers, NEW r \in Receipts, Upload(w, r)
    PROVE  FieldsInvariant'
  <1>0. TypeOK /\ RowsOK /\ TxnsOK /\ LocksExclude /\ TargetsExist /\ LinksHeld /\ LinksOneWay
        /\ NoMutualOffsets
    BY DEF FieldsInvariant
  <1>1. /\ txn' = txn
        /\ row' = [row EXCEPT ![r] = BlankRow]
        /\ requests' \in 0..MaxRequests
        /\ ~Exists(r)
        /\ \A v \in Writers : txn[v].receipt # r /\ txn[v].new.offsets # r
    BY <1>0, FieldsAssumption DEF Upload, Arrives, FreshId, TypeOK
  <1>2. /\ row'[r] = BlankRow
        /\ \A q \in Receipts \ {r} : row'[q] = row[q]
    BY <1>0, <1>1 DEF TypeOK
  <1>3. TypeOK'
    BY <1>0, <1>1, BlankRowType DEF TypeOK
  <1>4. \A q \in Receipts : /\ Exists(q) => Exists(q)'
                            /\ q # r => Exists(q)' = Exists(q)
                            /\ row'[q].offsets = row[q].offsets
    BY <1>0, <1>1, <1>2, BlankOK DEF Exists, RowsOK
  <1>5. RowsOK'
    BY <1>0, <1>2, <1>4, BlankOK DEF RowsOK, Exists
  <1>6. TxnsOK' /\ LocksExclude'
    <2>1. \A v \in Writers : txn[v].op = "manual" => txn[v].receipt \in Receipts
      BY <1>0, NoTxnFacts DEF TxnsOK, Shape
    <2> QED  BY <1>0, <1>1, <1>4, <2>1 DEF TxnsOK, LocksExclude
  <1>7. \A v \in Writers : txn[v].new.offsets \in Receipts \cup {NULL}
                           /\ txn[v].receipt \in Receipts \cup {NULL}
    BY <1>0 DEF TypeOK, Row
  <1>8. \A q \in Receipts : row[q].offsets \in Receipts \cup {NULL}
    BY <1>0 DEF TypeOK, Row
  <1>9. TargetsExist' /\ NoMutualOffsets'
    BY <1>0, <1>4, <1>8 DEF TargetsExist, NoMutualOffsets
  <1>10. LinksHeld' /\ LinksOneWay'
    <2>1. \A v \in Writers : txn[v].pc = "commit" => txn[v].receipt \in Receipts
      BY <1>0, NoTxnFacts DEF TxnsOK, Shape
    <2> QED  BY <1>0, <1>1, <1>4, <1>7, <2>1 DEF LinksHeld, LinksOneWay, Locks
  <1> QED  BY <1>3, <1>5, <1>6, <1>9, <1>10 DEF FieldsInvariant

LEMMA CreateManualStep ==
    ASSUME FieldsInvariant, NEW w \in Writers, NEW r \in Receipts, NEW body \in Bodies,
           CreateManual(w, r, body)
    PROVE  FieldsInvariant'
  <1> DEFINE new == [Merge(BlankRow, body) EXCEPT !.reviewed = TRUE]
  <1>1. BlankRow.kind \in KnownKinds
    BY DEF BlankRow, DefaultKind, KnownKinds
  <1>2. ValidRow(new) /\ FreshId(r) /\ Begin(w, "manual", r, new, FirstPc(new))
    BY DEF CreateManual
  <1>3. new \in Row /\ new.kind \in KnownKinds /\ RowOK(new)
    BY <1>1, <1>2, BlankRowType, EntryOK
  <1> HIDE DEF new
  <1>4. FirstPc(new) \in {"check", "store"} /\ (FirstPc(new) = "store" => new.offsets = NULL)
    BY DEF FirstPc
  <1> QED  BY <1>2, <1>3, <1>4, BeginStep DEF Writing, KnownKinds

LEMMA PatchLockStep ==
    ASSUME FieldsInvariant, NEW w \in Writers, NEW r \in Receipts, NEW body \in Bodies,
           NEW mark \in BOOLEAN, PatchLock(w, r, body, mark)
    PROVE  FieldsInvariant'
  <1> DEFINE m == Merge(row[r], body)
             new == [m EXCEPT !.reviewed = @ \/ mark]
  <1>1. row[r] \in Row /\ row[r].kind \in KnownKinds
    BY DEF FieldsInvariant, TypeOK, Row, PatchLock, Exists
  <1>2. Exists(r) /\ Free(w, r) /\ ValidRow(new) /\ Begin(w, "patch", r, new, FirstPc(new))
    BY DEF PatchLock
  <1>3. new = [m EXCEPT !.reviewed = m.reviewed \/ mark] /\ (m.reviewed \/ mark) \in BOOLEAN
    OBVIOUS
  <1>4. new \in Row /\ new.kind \in KnownKinds /\ RowOK(new)
    BY <1>1, <1>2, <1>3, EntryOK
  <1> HIDE DEF new
  <1>5. FirstPc(new) \in {"check", "store"} /\ (FirstPc(new) = "store" => new.offsets = NULL)
    BY DEF FirstPc
  <1> QED  BY <1>2, <1>4, <1>5, BeginStep DEF Writing, KnownKinds

LEMMA DeleteLockStep ==
    ASSUME FieldsInvariant, NEW w \in Writers, NEW r \in Receipts, DeleteLock(w, r)
    PROVE  FieldsInvariant'
  BY BlankRowType, BeginStep DEF DeleteLock, Writing

LEMMA ScanLockStep ==
    ASSUME FieldsInvariant, NEW w \in Writers, NEW r \in Receipts, NEW kind \in ResultKinds,
           NEW total \in Totals, NEW currency \in Currencies, ScanLock(w, r, kind, total, currency)
    PROVE  FieldsInvariant'
  <1> DEFINE new == Extracted(row[r], kind, total, currency)
  <1>1. Scannable(kind) /\ kind \in KnownKinds
    BY DEF ScanLock, Scannable
  <1>2. Exists(r) /\ ~row[r].reviewed /\ Free(w, r) /\ Begin(w, "scan", r, new, "store")
    BY DEF ScanLock, Extractable
  <1>3. row[r] \in Row /\ row[r].kind \in KnownKinds
    BY <1>2 DEF FieldsInvariant, TypeOK, Row, Exists
  <1>4. /\ new \in Row /\ new.kind \in KnownKinds /\ RowOK(new)
        /\ new.offsets \in {row[r].offsets, NULL}
    BY <1>1, <1>2, <1>3, ExtractedOK
  <1> HIDE DEF new
  <1>5. new.offsets # NULL => new.offsets # r /\ row[new.offsets].offsets # r
    <2>1. row[r].offsets \in Receipts \cup {NULL}
      BY <1>3 DEF Row
    <2> QED  BY <1>4, <2>1 DEF FieldsInvariant, NoMutualOffsets
  <1> QED  BY <1>2, <1>4, <1>5, BeginStep DEF Writing, KnownKinds

(* A transaction that ends without a write to the rows. *)
LEMMA AbortStep ==
    ASSUME FieldsInvariant, NEW w \in Writers, Abort(w)
    PROVE  FieldsInvariant'
  <1>0. TypeOK /\ RowsOK /\ TxnsOK /\ LocksExclude /\ TargetsExist /\ LinksHeld /\ LinksOneWay
        /\ NoMutualOffsets
    BY DEF FieldsInvariant
  <1>1. row' = row /\ requests' = requests /\ txn' = [txn EXCEPT ![w] = NoTxn]
    BY DEF Abort, Moves
  <1>2. /\ txn'[w] = NoTxn
        /\ \A v \in Writers \ {w} : txn'[v] = txn[v]
    BY <1>0, <1>1 DEF TypeOK
  <1>3. TypeOK'
    BY <1>0, <1>1, NoTxnType DEF TypeOK, Txn
  <1>4. RowsOK' /\ TargetsExist' /\ NoMutualOffsets'
    BY <1>0, <1>1 DEF RowsOK, TargetsExist, NoMutualOffsets, Exists
  <1>5. TxnsOK'
    BY <1>0, <1>1, <1>2, NoTxnFacts DEF TxnsOK, Shape, Writing, Exists
  <1>6. LocksExclude'
    BY <1>0, <1>2, NoTxnFacts DEF LocksExclude
  <1>7. LinksHeld'
    BY <1>0, <1>1, <1>2, NoTxnFacts DEF LinksHeld, Exists, Locks
  <1>8. LinksOneWay'
    BY <1>0, <1>1, <1>2, NoTxnFacts DEF LinksOneWay
  <1> QED  BY <1>3, <1>4, <1>5, <1>6, <1>7, <1>8 DEF FieldsInvariant

(* The target that validateReferences accepts is no link itself: its kind  *)
(* is a target's, and no kind is both.                                     *)
LEMMA CheckTargetStep ==
    ASSUME FieldsInvariant, NEW w \in Writers, CheckTarget(w)
    PROVE  FieldsInvariant'
  <1> DEFINE t == [txn[w] EXCEPT !.pc = "store"]
             target == txn[w].new.offsets
  <1>0. TypeOK /\ RowsOK /\ TxnsOK /\ LocksExclude /\ TargetsExist /\ LinksHeld /\ LinksOneWay
        /\ NoMutualOffsets
    BY DEF FieldsInvariant
  <1>1. row' = row /\ requests' = requests /\ txn' = [txn EXCEPT ![w] = t]
    BY DEF CheckTarget, Moves
  <1>2. /\ txn'[w] = t
        /\ \A v \in Writers \ {w} : txn'[v] = txn[v]
    BY <1>0, <1>1 DEF TypeOK
  <1>3. txn[w] \in Txn /\ txn[w].pc = "check"
    BY <1>0 DEF TypeOK, Txn, CheckTarget
  <1>4. /\ t \in Txn /\ t.pc = "store" /\ t.op = txn[w].op /\ t.receipt = txn[w].receipt
        /\ t.new = txn[w].new /\ t.share = txn[w].share
    BY <1>3 DEF Txn
  <1>5. Shape(t)
    BY <1>0, <1>3, <1>4, NoTxnFacts DEF TxnsOK, Shape
  <1>6. target # NULL => target # txn[w].receipt /\ row[target].offsets # txn[w].receipt
    <2> SUFFICES ASSUME target # NULL
                 PROVE  target # txn[w].receipt /\ row[target].offsets # txn[w].receipt
      OBVIOUS
    <2>1. /\ target # txn[w].receipt
          /\ Exists(target)
          /\ RulesFor(row[target].kind).isOffsetTarget
      BY DEF CheckTarget, TargetFits
    <2>2. target \in Receipts
      BY <1>3 DEF Txn, Row
    <2>3. row[target].kind \in KnownKinds
      BY <1>0, <2>1, <2>2 DEF TypeOK, Row, Exists
    <2>4. row[target].offsets = NULL
      BY <1>0, <2>1, <2>2, <2>3, KindFacts DEF RowsOK, RowOK, MayLink
    <2>5. txn[w].receipt # NULL
      BY <1>0, <1>3, NoTxnFacts, NamesAssumption DEF TxnsOK, Shape
    <2> QED  BY <2>1, <2>4, <2>5
  <1> HIDE DEF t, target
  <1>7. TypeOK'
    BY <1>0, <1>1, <1>4 DEF TypeOK, Txn
  <1>8. RowsOK' /\ TargetsExist' /\ NoMutualOffsets'
    BY <1>0, <1>1 DEF RowsOK, TargetsExist, NoMutualOffsets, Exists
  <1>9. TxnsOK'
    BY <1>0, <1>1, <1>2, <1>4, <1>5 DEF TxnsOK, Exists
  <1>10. LocksExclude'
    BY <1>0, <1>2, <1>4 DEF LocksExclude
  <1>11. LinksHeld'
    BY <1>0, <1>1, <1>2, <1>4 DEF LinksHeld, Exists, Locks
  <1>12. LinksOneWay'
    BY <1>0, <1>1, <1>2, <1>4, <1>6 DEF LinksOneWay, target
  <1> QED  BY <1>7, <1>8, <1>9, <1>10, <1>11, <1>12 DEF FieldsInvariant

(* The statement that takes KEY SHARE of a new link's target. *)
LEMMA StoreStep ==
    ASSUME FieldsInvariant, NEW w \in Writers, Store(w)
    PROVE  FieldsInvariant'
  <1> DEFINE target == txn[w].new.offsets
             linked == target # NULL /\ target # row[txn[w].receipt].offsets
             share == IF linked THEN target ELSE NULL
             t == [txn[w] EXCEPT !.pc = "commit", !.share = share]
  <1>0. TypeOK /\ RowsOK /\ TxnsOK /\ LocksExclude /\ TargetsExist /\ LinksHeld /\ LinksOneWay
        /\ NoMutualOffsets
    BY DEF FieldsInvariant
  <1>1. /\ row' = row /\ requests' = requests /\ txn' = [txn EXCEPT ![w] = t]
        /\ txn[w].pc = "store"
        /\ linked => Exists(target) /\ Shareable(w, target)
    BY DEF Store, Moves
  <1>2. /\ txn'[w] = t
        /\ \A v \in Writers \ {w} : txn'[v] = txn[v]
    BY <1>0, <1>1 DEF TypeOK
  <1>3. txn[w] \in Txn
    BY <1>0 DEF TypeOK, Txn
  <1>4. target \in Receipts \cup {NULL}
    BY <1>3 DEF Txn, Row
  <1>5. /\ t \in Txn /\ t.pc = "commit" /\ t.op = txn[w].op /\ t.receipt = txn[w].receipt
        /\ t.new = txn[w].new /\ t.share = share
    BY <1>3, <1>4 DEF Txn
  <1>6. /\ Shape(t) /\ txn[w].receipt \in Receipts
        /\ txn[w].op = "manual" \/ Locks(w, txn[w].receipt)
    BY <1>0, <1>1, <1>5, NoTxnFacts DEF TxnsOK, Shape, Locks, Writing
  <1>7. TypeOK'
    BY <1>0, <1>1, <1>5 DEF TypeOK, Txn
  <1>8. RowsOK' /\ TargetsExist' /\ NoMutualOffsets'
    BY <1>0, <1>1 DEF RowsOK, TargetsExist, NoMutualOffsets, Exists
  <1>9. TxnsOK'
    <2> HIDE DEF t
    <2> QED  BY <1>0, <1>1, <1>2, <1>5, <1>6 DEF TxnsOK, Exists
  <1>10. \A v \in Writers \ {w} : txn[v].receipt # NULL /\ txn[v].op # "manual" =>
             share # txn[v].receipt
    <2> SUFFICES ASSUME NEW v \in Writers \ {w}, txn[v].receipt # NULL, txn[v].op # "manual",
                        share = txn[v].receipt
                 PROVE  FALSE
      OBVIOUS
    <2>1. linked /\ target = txn[v].receipt
      OBVIOUS
    <2>2. ~Locks(v, txn[v].receipt)
      BY <1>1, <2>1 DEF Shareable
    <2> QED  BY <2>2, OpenTxn
  <1>11. LocksExclude'
    <2> HIDE DEF t, share
    <2> QED  BY <1>0, <1>2, <1>5, <1>10 DEF LocksExclude
  <1>12. target # NULL =>
             /\ Exists(target)
             /\ \/ share = target
                \/ Locks(w, txn[w].receipt) /\ row[txn[w].receipt].offsets = target
    <2>1. CASE linked
      BY <1>1, <2>1
    <2>2. CASE ~linked /\ target # NULL
      <3>1. row[txn[w].receipt].offsets = target
        BY <2>2
      <3>2. Exists(target) /\ txn[w].op # "manual"
        BY <1>0, <1>6, <2>2, <3>1 DEF TargetsExist, TxnsOK, RowsOK
      <3> QED  BY <1>6, <3>1, <3>2
    <2> QED  BY <2>1, <2>2
  <1>13. LinksHeld'
    <2> HIDE DEF t, share, linked, target
    <2>1. t.new.offsets = target
      BY <1>5 DEF target
    <2> QED  BY <1>0, <1>1, <1>2, <1>5, <1>12, <2>1 DEF LinksHeld, Exists, Locks
  <1>14. LinksOneWay'
    <2> HIDE DEF t
    <2> QED  BY <1>0, <1>1, <1>2, <1>5 DEF LinksOneWay
  <1> QED  BY <1>7, <1>8, <1>9, <1>11, <1>13, <1>14 DEF FieldsInvariant

(* The commit of a write.  That no other transaction is about to commit    *)
(* the link back is <1>12: it would hold KEY SHARE of a row that this one  *)
(* has locked.                                                             *)
LEMMA CommitStep ==
    ASSUME FieldsInvariant, NEW w \in Writers, Commit(w)
    PROVE  FieldsInvariant'
  <1>a. PICK r, new : r = txn[w].receipt /\ new = txn[w].new
    OBVIOUS
  <1>0. TypeOK /\ RowsOK /\ TxnsOK /\ LocksExclude /\ TargetsExist /\ LinksHeld /\ LinksOneWay
        /\ NoMutualOffsets
    BY DEF FieldsInvariant
  <1>1. /\ txn[w].pc = "commit" /\ requests' = requests
        /\ row' = [row EXCEPT ![r] = new] /\ txn' = [txn EXCEPT ![w] = NoTxn]
    BY <1>a DEF Commit
  <1>2. txn[w].op \in Writing /\ r \in Receipts /\ new.kind # "none" /\ RowOK(new)
    BY <1>a, <1>0, <1>1, NoTxnFacts DEF TxnsOK, Shape, Writing
  <1>3. new \in Row
    BY <1>a, <1>0 DEF TypeOK
  <1>4. /\ txn'[w] = NoTxn
        /\ \A v \in Writers \ {w} : txn'[v] = txn[v]
        /\ row'[r] = new
        /\ \A q \in Receipts \ {r} : row'[q] = row[q]
    BY <1>0, <1>1, <1>2 DEF TypeOK
  <1>5. TypeOK'
    BY <1>0, <1>1, <1>3, NoTxnType DEF TypeOK, Txn
  <1>6. /\ Exists(r)'
        /\ \A q \in Receipts \ {r} : Exists(q)' = Exists(q)
        /\ \A q \in Receipts : Exists(q) => Exists(q)'
    BY <1>2, <1>4 DEF Exists
  <1>7. new.offsets # NULL => /\ new.offsets \in Receipts \ {r} /\ Exists(new.offsets)
                              /\ row[new.offsets].offsets # r
    BY <1>a, <1>0, <1>1, <1>3 DEF LinksHeld, LinksOneWay, Row
  <1>8. RowsOK'
    BY <1>0, <1>2, <1>4, <1>6 DEF RowsOK
  <1>9. \A q \in Receipts : row[q].offsets \in Receipts \cup {NULL}
    BY <1>0 DEF TypeOK, Row
  <1>10. TargetsExist'
    BY <1>0, <1>4, <1>6, <1>7, <1>9 DEF TargetsExist
  <1>11. NoMutualOffsets'
    <2> SUFFICES ASSUME NEW p \in Receipts, NEW q \in Receipts,
                        row'[p].offsets = q, row'[q].offsets = p
                 PROVE  FALSE
      BY DEF NoMutualOffsets
    <2>1. CASE p = r
      BY <1>4, <1>7, <2>1, NamesAssumption
    <2>2. CASE q = r
      BY <1>4, <1>7, <2>2, NamesAssumption
    <2>3. CASE p # r /\ q # r
      BY <1>0, <1>4, <2>3 DEF NoMutualOffsets
    <2> QED  BY <2>1, <2>2, <2>3
  <1>12. \A v \in Writers \ {w} :
             txn[v].pc \in {"store", "commit"} /\ txn[v].new.offsets = r => new.offsets # txn[v].receipt
    <2> SUFFICES ASSUME NEW v \in Writers \ {w}, txn[v].pc \in {"store", "commit"},
                        txn[v].new.offsets = r, new.offsets = txn[v].receipt
                 PROVE  FALSE
      OBVIOUS
    <2>1. txn[v].receipt \in Receipts /\ txn[v].receipt # NULL /\ r # NULL
      BY <1>0, <1>2, NoTxnFacts, NamesAssumption DEF TxnsOK, Shape
    <2>2. Exists(txn[v].receipt) /\ txn[v].op # "manual"
      BY <1>0, <1>7, <2>1 DEF TxnsOK
    <2>3. txn[w].share # txn[v].receipt
      BY <1>0, <2>1, <2>2 DEF LocksExclude
    <2>4. row[r].offsets = txn[v].receipt
      BY <1>a, <1>0, <1>1, <2>1, <2>3 DEF LinksHeld
    <2>5. row[r].offsets # txn[v].receipt
      BY <1>0, <2>1 DEF LinksOneWay
    <2> QED  BY <2>4, <2>5
  <1>13. \A v \in Writers \ {w} : txn[v].receipt # r
    BY <1>a, <1>0, <1>2, NamesAssumption DEF LocksExclude
  <1>14. TxnsOK'
    <2>1. \A v \in Writers : txn[v].op = "manual" => txn[v].receipt \in Receipts
      BY <1>0, NoTxnFacts DEF TxnsOK, Shape
    <2> QED  BY <1>0, <1>4, <1>6, <1>13, <2>1, NoTxnFacts DEF TxnsOK, Shape, Writing
  <1>15. LocksExclude'
    BY <1>0, <1>4, NoTxnFacts DEF LocksExclude
  <1>16. \A v \in Writers : /\ txn[v].new.offsets \in Receipts \cup {NULL}
                            /\ txn[v].pc \in {"store", "commit"} => txn[v].receipt \in Receipts
    BY <1>0, NoTxnFacts DEF TypeOK, Row, TxnsOK, Shape
  <1>17. LinksHeld'
    BY <1>0, <1>4, <1>6, <1>13, <1>16, NoTxnFacts DEF LinksHeld, Locks
  <1>18. LinksOneWay'
    BY <1>0, <1>4, <1>12, <1>16, NoTxnFacts DEF LinksOneWay
  <1> QED  BY <1>5, <1>8, <1>10, <1>11, <1>14, <1>15, <1>17, <1>18 DEF FieldsInvariant

(* The end of a delete: nobody is about to commit a link to the row.  A    *)
(* new link would hold KEY SHARE of it, and the rows with an old one are   *)
(* not locked.                                                             *)
LEMMA UnlinkStep ==
    ASSUME FieldsInvariant, NEW w \in Writers, Unlink(w)
    PROVE  FieldsInvariant'
  <1>a. PICK r : r = txn[w].receipt
    OBVIOUS
  <1>0. TypeOK /\ RowsOK /\ TxnsOK /\ LocksExclude /\ TargetsExist /\ LinksHeld /\ LinksOneWay
        /\ NoMutualOffsets
    BY DEF FieldsInvariant
  <1>1. /\ txn[w].pc = "unlink" /\ requests' = requests
        /\ \A q \in Receipts : row[q].offsets = r => Shareable(w, q)
        /\ row' = [q \in Receipts |->
                       IF q = r THEN NoRow
                       ELSE IF row[q].offsets = r THEN [row[q] EXCEPT !.offsets = NULL] ELSE row[q]]
        /\ txn' = [txn EXCEPT ![w] = NoTxn]
    BY <1>a DEF Unlink
  <1>2. txn[w].op = "delete" /\ r \in Receipts /\ r # NULL
    BY <1>a, <1>0, <1>1, NoTxnFacts, NamesAssumption DEF TxnsOK, Shape
  <1>3. /\ txn'[w] = NoTxn
        /\ \A v \in Writers \ {w} : txn'[v] = txn[v]
        /\ row'[r] = NoRow
        /\ \A q \in Receipts \ {r} :
               row'[q] = IF row[q].offsets = r THEN [row[q] EXCEPT !.offsets = NULL] ELSE row[q]
    BY <1>0, <1>1, <1>2 DEF TypeOK
  <1>4. \A q \in Receipts : row[q] \in Row
    BY <1>0 DEF TypeOK
  <1>5. \A q \in Receipts \ {r} :
            /\ row'[q] \in Row /\ row'[q].kind = row[q].kind
            /\ row'[q].offsets = IF row[q].offsets = r THEN NULL ELSE row[q].offsets
    <2> SUFFICES ASSUME NEW q \in Receipts \ {r}
                 PROVE  /\ row'[q] \in Row /\ row'[q].kind = row[q].kind
                        /\ row'[q].offsets = IF row[q].offsets = r THEN NULL ELSE row[q].offsets
      OBVIOUS
    <2>1. CASE row[q].offsets = r
      <3>1. row'[q] = [row[q] EXCEPT !.offsets = NULL] /\ row[q] \in Row
        BY <1>3, <1>4, <2>1
      <3> QED  BY <2>1, <3>1 DEF Row
    <2>2. CASE row[q].offsets # r
      BY <1>3, <1>4, <2>2
    <2> QED  BY <2>1, <2>2
  <1>6. NoRow.kind = "none" /\ NoRow.offsets = NULL
    BY DEF NoRow, BlankRow
  <1>7. TypeOK'
    <2>1. row' \in [Receipts -> Row]
      BY <1>1, <1>3, <1>5, BlankRowType
    <2> QED  BY <1>0, <1>1, <2>1, NoTxnType DEF TypeOK, Txn
  <1>8. /\ ~Exists(r)'
        /\ \A q \in Receipts \ {r} : Exists(q)' = Exists(q)
    BY <1>3, <1>5, <1>6 DEF Exists
  <1>9. \A q \in Receipts : row'[q].offsets \in {row[q].offsets, NULL} /\ row'[q].offsets # r
    BY <1>2, <1>3, <1>5, <1>6
  <1>10. RowsOK'
    <2> SUFFICES ASSUME NEW q \in Receipts
                 PROVE  IF Exists(q)' THEN RowOK(row'[q]) ELSE row'[q].offsets = NULL
      BY DEF RowsOK, RowOK, PassesChecks, MayLink, Sound, ValidRow
    <2>1. CASE ~Exists(q)'
      BY <1>0, <1>3, <1>6, <1>8, <1>9, <2>1 DEF RowsOK
    <2>2. CASE Exists(q)' /\ row[q].offsets # r
      BY <1>0, <1>3, <1>8, <2>2 DEF RowsOK
    <2>3. CASE Exists(q)' /\ row[q].offsets = r
      <3>1. q # r /\ RowOK(row[q]) /\ row'[q] = [row[q] EXCEPT !.offsets = NULL]
        BY <1>0, <1>3, <1>8, <2>3 DEF RowsOK
      <3>2. /\ row'[q].kind = row[q].kind /\ row'[q].direction = row[q].direction
            /\ row'[q].total = row[q].total /\ row'[q].currency = row[q].currency
            /\ row'[q].rate = row[q].rate /\ row'[q].equivalent = row[q].equivalent
            /\ row'[q].tax = row[q].tax /\ row'[q].reviewed = row[q].reviewed
            /\ row'[q].offsets = NULL
        BY <1>4, <3>1 DEF Row
      <3>3. PassesChecks(row'[q]) /\ MayLink(row'[q])
        BY <3>1, <3>2 DEF RowOK, PassesChecks, MayLink
      <3>4. ValidRow(row[q]) => ValidRow(row'[q])
        BY <3>2 DEF ValidRow
      <3> QED  BY <2>3, <3>1, <3>2, <3>3, <3>4 DEF RowOK, Sound
    <2> QED  BY <2>1, <2>2, <2>3
  <1>11. \A q \in Receipts : row[q].offsets \in Receipts \cup {NULL}
    BY <1>4 DEF Row
  <1>12. TargetsExist'
    BY <1>0, <1>8, <1>9, <1>11 DEF TargetsExist
  <1>13. NoMutualOffsets'
    BY <1>0, <1>9, NamesAssumption DEF NoMutualOffsets
  <1>14. \A v \in Writers \ {w} : txn[v].receipt # r /\ txn[v].share # r
    BY <1>a, <1>0, <1>2 DEF LocksExclude
  <1>15. TxnsOK'
    <2>1. \A v \in Writers : txn[v].op = "manual" => txn[v].receipt \in Receipts
      BY <1>0, NoTxnFacts DEF TxnsOK, Shape
    <2> QED  BY <1>0, <1>3, <1>8, <1>14, <2>1, NoTxnFacts DEF TxnsOK, Shape, Writing
  <1>16. LocksExclude'
    BY <1>0, <1>3, NoTxnFacts DEF LocksExclude
  <1>17. \A v \in Writers : /\ txn[v].new.offsets \in Receipts \cup {NULL}
                            /\ txn[v].pc \in {"store", "commit"} =>
                                   txn[v].receipt \in Receipts /\ txn[v].receipt # NULL
    BY <1>0, NoTxnFacts, NamesAssumption DEF TypeOK, Row, TxnsOK, Shape
  <1>18. LinksHeld'
    <2> SUFFICES ASSUME NEW v \in Writers, txn'[v].pc = "commit", txn'[v].new.offsets # NULL
                 PROVE  /\ Exists(txn[v].new.offsets)'
                        /\ \/ txn'[v].share = txn'[v].new.offsets
                           \/ /\ Locks(v, txn[v].receipt)'
                              /\ row'[txn'[v].receipt].offsets = txn'[v].new.offsets
      BY DEF LinksHeld, Locks, Exists
    <2>1. v # w /\ txn'[v] = txn[v]
      BY <1>3, NoTxnFacts
    <2>2. CASE txn[v].share = txn[v].new.offsets
      BY <1>0, <1>8, <1>14, <1>17, <2>1, <2>2 DEF LinksHeld
    <2>3. CASE Locks(v, txn[v].receipt) /\ row[txn[v].receipt].offsets = txn[v].new.offsets
      <3>1. txn[v].receipt \in Receipts \ {r}
        BY <1>14, <1>17, <2>1
      <3>2. txn[v].new.offsets # r
        BY <1>1, <2>1, <2>3, <3>1 DEF Shareable
      <3>3. row'[txn[v].receipt].offsets = txn[v].new.offsets
        BY <1>5, <2>3, <3>1, <3>2
      <3>4. Exists(txn[v].new.offsets)'
        BY <1>0, <1>8, <1>17, <2>1, <3>2 DEF LinksHeld
      <3> QED  BY <2>1, <2>3, <3>3, <3>4 DEF Locks
    <2> QED  BY <1>0, <2>1, <2>2, <2>3 DEF LinksHeld
  <1>19. LinksOneWay'
    BY <1>0, <1>3, <1>9, <1>17, NoTxnFacts DEF LinksOneWay
  <1> QED  BY <1>7, <1>10, <1>12, <1>13, <1>15, <1>16, <1>18, <1>19 DEF FieldsInvariant

LEMMA FieldsNext ==
    ASSUME FieldsInvariant, [Next]_vars
    PROVE  FieldsInvariant'
  <1>1. CASE UNCHANGED vars
    BY <1>1 DEF vars, FieldsInvariant, TypeOK, RowsOK, TxnsOK, LocksExclude, TargetsExist,
                LinksHeld, LinksOneWay, NoMutualOffsets, Exists, Locks
  <1>2. CASE Next
    <2>1. PICK w \in Writers : Request(w) \/ TxnStep(w)
      BY <1>2 DEF Next
    <2>2. CASE Request(w)
      <3>1. PICK r \in Receipts :
                \/ Upload(w, r)
                \/ DeleteLock(w, r)
                \/ \E body \in Bodies : CreateManual(w, r, body)
                \/ \E body \in Bodies, mark \in BOOLEAN : PatchLock(w, r, body, mark)
                \/ \E kind \in ResultKinds, total \in Totals, currency \in Currencies :
                       ScanLock(w, r, kind, total, currency)
        BY <2>2 DEF Request
      <3> QED  BY <3>1, UploadStep, DeleteLockStep, CreateManualStep, PatchLockStep, ScanLockStep
    <2>3. CASE TxnStep(w)
      BY <2>3, CheckTargetStep, StoreStep, CommitStep, UnlinkStep, AbortStep DEF TxnStep
    <2> QED  BY <2>1, <2>2, <2>3
  <1> QED  BY <1>1, <1>2

-----------------------------------------------------------------------------
(* The inductive invariant holds of every behaviour of ReceiptService,     *)
(* LedgerInput and writeExtraction on the fields of the receipts.          *)
THEOREM FieldsCorrect == Spec => []FieldsInvariant
  BY InitFields, FieldsNext, PTL DEF Spec

(* The columns, and the locals of the transactions that write them, keep   *)
(* their domains whatever bodies come.                                     *)
THEOREM FieldsTypeCorrect == Spec => []TypeOK
  <1>1. FieldsInvariant => TypeOK
    BY DEF FieldsInvariant
  <1> QED  BY <1>1, FieldsCorrect, PTL

(* No manual entry, edit or extraction writes a row that the CHECKs of the *)
(* schema refuse.                                                          *)
THEOREM ChecksNeverFail == Spec => []RowsPassChecks
  <1>1. FieldsInvariant => RowsPassChecks
    BY DEF FieldsInvariant, RowsOK, RowOK, PassesChecks, RowsPassChecks
  <1> QED  BY <1>1, FieldsCorrect, PTL

(* A reviewed row obeys validateReceipt and has the AUD equivalent of its  *)
(* own total and rate, although extractions leave both stale.              *)
THEOREM ReviewedSound == Spec => []ReviewedRowsSound
  <1>1. FieldsInvariant => ReviewedRowsSound
    BY DEF FieldsInvariant, RowsOK, RowOK, Sound, ReviewedRowsSound
  <1> QED  BY <1>1, FieldsCorrect, PTL

(* Links lead from kinds that may offset to rows that exist, for any       *)
(* number of concurrent edits, scans and deletes.                          *)
THEOREM LinksCorrect == Spec => []LinksHold
  <1>1. FieldsInvariant => LinksHold
    BY DEF FieldsInvariant, RowsOK, RowOK, MayLink, TargetsExist, LinksHold
  <1> QED  BY <1>1, FieldsCorrect, PTL

(* No two receipts offset each other: the unlocked check of                *)
(* validateReferences and the locks of the statements together suffice.    *)
THEOREM NeverMutual == Spec => []NoMutualOffsets
  <1>1. FieldsInvariant => NoMutualOffsets
    BY DEF FieldsInvariant
  <1> QED  BY <1>1, FieldsCorrect, PTL

=============================================================================
