---------------------------- MODULE UploadsProofs ----------------------------
(***************************************************************************)
(* Proofs about Uploads, for any users, receipts, requests, deletes, caps, *)
(* batches and faults: its safety properties follow from one inductive     *)
(* invariant.                                                              *)
(***************************************************************************)
EXTENDS Uploads, FiniteSetTheorems, TLAPS

Storing == {"put", "insert"}
Working == {"cap", "conflict", "receipt"} \cup Storing

(* What request q, with locals k, knows by itself at each statement. *)
ShapeOK(k) ==
    /\ k.pc = "idle" => k = NoRequest
    /\ k.pc # "idle" => k.user \in Users /\ k.batch \in Batches
    /\ k.upload => k.pc # "cap" /\ Len(k.batch) <= MaxImages
    /\ k.upload /\ k.pc \in {"locking", "conflict", "receipt"} => k.receipt = Nobody
    /\ k.pc = "receipt" => k.upload
    /\ k.pc # "idle" /\ (~k.upload \/ k.pc \in Storing) => k.receipt \in Receipts

(* The rows it has inserted are the first ones of its batch. *)
InsertedOK(q, k) ==
    /\ k.pc \notin Storing => k.inserted = {}
    /\ IsFiniteSet(k.inserted)
    /\ Cardinality(k.inserted) <= Len(k.batch)
    /\ k.pc = "insert" => Cardinality(k.inserted) < Len(k.batch)
    /\ \A row \in k.inserted :
           /\ row.receipt = k.receipt
           /\ row.user = k.user
           /\ row.key[1] = q
           /\ row.key[2] <= Cardinality(k.inserted)
           /\ row.sha \in ShasOf(k.batch)

(* Who works holds the lock of its user. *)
LockOK(q, k) == k.pc \in Working => lock[k.user] = q

(* The images of the inserted rows, and of the one that comes next, are    *)
(* stored; without faults, nothing else of a request in flight is.         *)
PlacedOK(q, k) ==
    /\ \A row \in k.inserted : row.key \in store
    /\ k.pc = "insert" => <<q, Cardinality(k.inserted) + 1>> \in store
StoredOK(q, k) ==
    faults = 0 /\ k.pc # "done" =>
        \A i \in 1..MaxBatch : <<q, i>> \in store =>
            \/ \E row \in k.inserted : row.key = <<q, i>>
            \/ k.pc = "insert" /\ i = Cardinality(k.inserted) + 1

(* Its receipt's id comes from the sequence; until an upload commits nobody*)
(* else knows it.                                                          *)
FreshOK(q, k) ==
    /\ k.receipt # Nobody => k.receipt \in used
    /\ k.upload /\ k.pc \in Storing =>
           /\ owner[k.receipt] = Nobody
           /\ k.receipt \notin Manual
           /\ \A p \in Requests \ {q} : req[p].receipt # k.receipt
           /\ \A d \in Deleters : del[d].receipt # k.receipt

(* An attach works on a receipt of its user, or on one that is gone; once  *)
(* it has inserted a row the receipt stays.                                *)
AttachOK(k) ==
    ~k.upload /\ k.pc \notin {"idle", "done"} =>
        /\ owner[k.receipt] \in {k.user, Nobody}
        /\ k.inserted # {} => owner[k.receipt] = k.user

(* What was checked under the lock still holds. *)
CheckedOK(k) ==
    /\ ~k.upload /\ k.pc \in {"conflict", "put", "insert"} =>
           Cardinality(RowsOf(k.receipt)) + Len(k.batch) <= MaxImages
    /\ ~k.force /\ k.pc \in {"receipt", "put", "insert"} =>
           \A row \in rows : row.user = k.user => row.sha \notin ShasOf(k.batch)

RequestOK(q, k) ==
    /\ ShapeOK(k) /\ InsertedOK(q, k) /\ LockOK(q, k) /\ PlacedOK(q, k) /\ StoredOK(q, k)
    /\ FreshOK(q, k) /\ AttachOK(k) /\ CheckedOK(k)

RequestsOK == \A q \in Requests : RequestOK(q, req[q])

(* A committed row came from a request that is over, and is as it wrote    *)
(* it; its receipt's id comes from the sequence.                           *)
RowsKnown ==
    /\ IsFiniteSet(rows)
    /\ Manual \subseteq used
    /\ \A r \in Receipts : owner[r] # Nobody => r \in used
    /\ \A row \in rows :
           /\ req[row.key[1]].pc = "done"
           /\ req[row.key[1]].receipt = row.receipt

(* A delete only knows keys of its receipt, and all of those that came     *)
(* with the upload; a receipt it has deleted stays deleted.                *)
DeletesKnow ==
    \A d \in Deleters : del[d].pc # "idle" =>
        /\ del[d].receipt \in used
        /\ \A key \in del[d].keys : req[key[1]].pc = "done" /\ req[key[1]].receipt = del[d].receipt
        /\ del[d].pc = "deleted" => owner[del[d].receipt] = Nobody
        /\ del[d].pc = "listed" =>
               \A row \in RowsOf(del[d].receipt) : req[row.key[1]].upload => row.key \in del[d].keys

(* Without faults an object that no row names is being stored or removed,  *)
(* or came with an attach whose receipt is gone.                           *)
OrphansHaveReasons ==
    faults = 0 =>
        \A key \in store :
            \/ \E row \in rows : row.key = key
            \/ req[key[1]].pc \in {"put", "insert"}
            \/ \E d \in Deleters : del[d].pc = "deleted" /\ key \in del[d].keys
            \/ ~req[key[1]].upload /\ owner[req[key[1]].receipt] = Nobody

(* No delete has begun. *)
IdleDeletes == \A d \in Deleters : del[d].pc = "idle" => del[d] = NoDelete

TablesOK ==
    /\ RowsHaveImages /\ RowsBelongToOwner /\ ReceiptsHaveImages /\ CapHolds /\ BatchAllOrNothing
    /\ RowsKnown /\ DeletesKnow /\ IdleDeletes /\ OrphansHaveReasons

UploadsInvariant == TypeOK /\ RequestsOK /\ TablesOK

-----------------------------------------------------------------------------
LEMMA BatchLength ==
    ASSUME NEW batch \in Batches
    PROVE  /\ Len(batch) \in 1..MaxBatch
           /\ \A i \in 1..Len(batch) : batch[i] \in Shas /\ batch[i] \in ShasOf(batch)
<1>1. PICK n \in 1..MaxBatch : batch \in [1..n -> Shas]
  BY DEF Batches
<1>2. n \in Nat /\ batch \in Seq(Shas) /\ Len(batch) = n
  BY <1>1, UploadsAssumption
<1> QED BY <1>1, <1>2 DEF ShasOf

LEMMA LocalsLength ==
    ASSUME NEW k \in RequestLocals
    PROVE  Len(k.batch) \in Nat
<1>1. k.batch \in Batches \cup {<<>>}
  BY DEF RequestLocals
<1>2. CASE k.batch \in Batches
  BY <1>2, BatchLength, UploadsAssumption
<1>3. CASE k.batch = <<>>
  BY <1>3
<1> QED BY <1>1, <1>2, <1>3

LEMMA RowFields ==
    ASSUME NEW row \in Rows
    PROVE  /\ row.receipt \in Receipts /\ row.user \in Users /\ row.sha \in Shas
           /\ row.key \in Keys /\ row.key[1] \in Requests /\ row.key[2] \in 1..MaxBatch
           /\ row.key = <<row.key[1], row.key[2]>>
  BY DEF Rows, Keys

(* The images of a receipt are counted. *)
LEMMA RowsCounted ==
    ASSUME IsFiniteSet(rows), NEW r
    PROVE  IsFiniteSet(RowsOf(r)) /\ Cardinality(RowsOf(r)) \in Nat
  BY FS_Subset, FS_CardinalityType DEF RowsOf

(* What a request p knows stands if its lock, its receipt and its objects  *)
(* stay, and the rows that appear are not its user's.                      *)
LEMMA RequestStands ==
    ASSUME TypeOK, TypeOK', IsFiniteSet(rows), IsFiniteSet(rows'),
           NEW p \in Requests, NEW j \in RequestLocals, RequestOK(p, j),
           used \subseteq used', faults' = 0 => faults = 0,
           j.pc \in Working => lock'[j.user] = lock[j.user],
           j.pc # "done" => \A i \in 1..MaxBatch : <<p, i>> \in store' <=> <<p, i>> \in store,
           j.receipt \in Receipts /\ j.pc \notin {"idle", "done"} =>
               owner'[j.receipt] = owner[j.receipt] \/ (owner'[j.receipt] = Nobody /\ j.inserted = {}),
           j.upload /\ j.pc \in Storing =>
               /\ \A q \in Requests \ {p} : req'[q].receipt # j.receipt
               /\ \A d \in Deleters : del'[d].receipt # j.receipt,
           j.pc \in Working =>
               \A row \in rows' : row \notin rows => row.user # j.user /\ row.receipt # j.receipt
    PROVE  RequestOK(p, j)'
<1>1. /\ ShapeOK(j) /\ InsertedOK(p, j) /\ LockOK(p, j) /\ PlacedOK(p, j) /\ StoredOK(p, j)
      /\ FreshOK(p, j) /\ AttachOK(j) /\ CheckedOK(j)
  BY DEF RequestOK
<1>2. ShapeOK(j)' /\ InsertedOK(p, j)'
  BY <1>1 DEF ShapeOK, InsertedOK
<1>3. LockOK(p, j)'
  BY <1>1 DEF LockOK
<1>4. j.inserted \subseteq Rows /\ Len(j.batch) \in Nat /\ Cardinality(j.inserted) \in Nat
  BY <1>1, LocalsLength, FS_CardinalityType DEF RequestLocals, InsertedOK
<1>5. PlacedOK(p, j)'
  <2>1. CASE j.pc \in Storing
    <3>1. \A row \in j.inserted : row.key = <<p, row.key[2]>> /\ row.key[2] \in 1..MaxBatch
      BY <1>1, <1>4, RowFields DEF InsertedOK
    <3>2. \A row \in j.inserted : row.key \in store'
      BY <1>1, <2>1, <3>1 DEF PlacedOK, Storing
    <3>3. ASSUME j.pc = "insert" PROVE <<p, Cardinality(j.inserted) + 1>> \in store'
      <4>1. <<p, Cardinality(j.inserted) + 1>> \in store /\ store \subseteq Keys
        BY <1>1, <3>3 DEF PlacedOK, TypeOK
      <4>2. Cardinality(j.inserted) + 1 \in 1..MaxBatch
        BY <4>1 DEF Keys
      <4> QED BY <3>3, <4>1, <4>2
    <3> QED BY <3>2, <3>3 DEF PlacedOK
  <2>2. CASE j.pc \notin Storing
    BY <1>1, <2>2 DEF PlacedOK, InsertedOK, Storing
  <2> QED BY <2>1, <2>2
<1>6. StoredOK(p, j)'
  BY <1>1 DEF StoredOK
<1>7. FreshOK(p, j)'
  BY <1>1 DEF FreshOK, ShapeOK, Storing
<1>8. AttachOK(j)'
  BY <1>1 DEF AttachOK, ShapeOK
<1>9. CheckedOK(j)'
  <2>1. ASSUME ~j.upload, j.pc \in {"conflict", "put", "insert"}
        PROVE  Cardinality(RowsOf(j.receipt)') + Len(j.batch) <= MaxImages
    <3>1. RowsOf(j.receipt)' \subseteq RowsOf(j.receipt)
      BY <2>1 DEF RowsOf, Working, Storing
    <3>2. Cardinality(RowsOf(j.receipt)') <= Cardinality(RowsOf(j.receipt))
          /\ Cardinality(RowsOf(j.receipt)') \in Nat /\ Cardinality(RowsOf(j.receipt)) \in Nat
      BY <3>1, RowsCounted, FS_Subset, FS_CardinalityType
    <3>3. Cardinality(RowsOf(j.receipt)) + Len(j.batch) <= MaxImages
      BY <1>1, <2>1 DEF CheckedOK
    <3> QED BY <1>4, <3>2, <3>3, UploadsAssumption
  <2>2. ASSUME ~j.force, j.pc \in {"receipt", "put", "insert"}
        PROVE  \A row \in rows' : row.user = j.user => row.sha \notin ShasOf(j.batch)
    BY <1>1, <2>2 DEF CheckedOK, Working, Storing
  <2> QED BY <2>1, <2>2 DEF CheckedOK, RowsOf
<1> QED BY <1>2, <1>3, <1>5, <1>6, <1>7, <1>8, <1>9 DEF RequestOK

LEMMA SameRequest ==
    ASSUME NEW p \in Requests, NEW k, req'[p] = k, RequestOK(p, k)'
    PROVE  RequestOK(p, req[p])'
<1>1. ShapeOK(req[p])'
  BY DEF RequestOK, ShapeOK
<1>2. InsertedOK(p, req[p])'
  BY DEF RequestOK, InsertedOK
<1>3. LockOK(p, req[p])' /\ PlacedOK(p, req[p])' /\ StoredOK(p, req[p])'
  BY DEF RequestOK, LockOK, PlacedOK, StoredOK
<1>4. FreshOK(p, req[p])' /\ AttachOK(req[p])'
  BY DEF RequestOK, FreshOK, AttachOK
<1>5. CheckedOK(req[p])'
  BY DEF RequestOK, CheckedOK
<1> QED BY <1>1, <1>2, <1>3, <1>4, <1>5 DEF RequestOK

(* One request goes on, to locals k, or ends without writing a row. *)
LEMMA RequestMoves ==
    ASSUME UploadsInvariant, TypeOK', NEW q \in Requests, NEW k \in RequestLocals,
           req' = [req EXCEPT ![q] = k], req[q].pc # "done", RequestOK(q, k)',
           UNCHANGED <<owner, rows, del>>, used \subseteq used', faults' = 0 => faults = 0,
           store \subseteq store', \A key \in store' : key \in store \/ key[1] = q,
           \A p \in Requests \ {q} : req[p].pc \in Working => lock'[req[p].user] = lock[req[p].user],
           \A p \in Requests \ {q} : req[p].upload /\ req[p].pc \in Storing => k.receipt # req[p].receipt,
           faults' = 0 /\ k.pc = "done" =>
               \A i \in 1..MaxBatch : <<q, i>> \in store' => ~k.upload /\ owner[k.receipt] = Nobody
    PROVE  UploadsInvariant'
<1>1. TypeOK /\ RequestsOK /\ TablesOK
  BY DEF UploadsInvariant
<1>2. req'[q] = k /\ \A p \in Requests \ {q} : req'[p] = req[p]
  BY <1>1 DEF TypeOK
<1>3. IsFiniteSet(rows) /\ IsFiniteSet(rows')
  BY <1>1 DEF TablesOK, RowsKnown
<1>4. rows \subseteq Rows /\ store' \subseteq Keys /\ store \subseteq Keys
  BY <1>1 DEF TypeOK
<1>5. RequestsOK'
  <2>1. SUFFICES ASSUME NEW p \in Requests PROVE RequestOK(p, req[p])'
    BY DEF RequestsOK
  <2>2. CASE p = q
    BY <1>2, <2>2, SameRequest
  <2>3. CASE p # q
    <3>1. PICK j \in RequestLocals : j = req[p]
      BY <1>1 DEF TypeOK
    <3>2. RequestOK(p, j)
      BY <1>1, <3>1 DEF RequestsOK
    <3>3. \A i \in 1..MaxBatch : <<p, i>> \in store' <=> <<p, i>> \in store
      BY <2>3
    <3>4. j.upload /\ j.pc \in Storing =>
              /\ \A r \in Requests \ {p} : req'[r].receipt # j.receipt
              /\ \A d \in Deleters : del'[d].receipt # j.receipt
      BY <1>2, <2>3, <3>1, <3>2 DEF RequestOK, FreshOK
    <3>5. RequestOK(p, j)'
      BY <1>1, <1>3, <2>3, <3>1, <3>2, <3>3, <3>4, RequestStands
    <3>6. req'[p] = j
      BY <1>2, <2>3, <3>1
    <3> QED BY <3>5, <3>6, SameRequest
  <2> QED BY <2>2, <2>3
<1>6. \A row \in rows : row.key[1] \in Requests \ {q}
  BY <1>1, <1>4, RowFields DEF TablesOK, RowsKnown
<1>7. RowsHaveImages' /\ RowsBelongToOwner' /\ ReceiptsHaveImages' /\ CapHolds' /\ IdleDeletes'
  BY <1>1 DEF TablesOK, RowsHaveImages, RowsBelongToOwner, ReceiptsHaveImages, CapHolds, IdleDeletes, RowsOf
<1>8. BatchAllOrNothing'
  <2>1. SUFFICES ASSUME NEW p \in Requests, {row \in rows : row.key[1] = p} # {}
                 PROVE  Cardinality({row \in rows : row.key[1] = p}) = Len(req'[p].batch)
    BY DEF BatchAllOrNothing
  <2>2. p # q
    BY <1>6, <2>1
  <2> QED BY <1>1, <1>2, <2>1, <2>2 DEF TablesOK, BatchAllOrNothing
<1>9. RowsKnown'
  BY <1>1, <1>2, <1>6 DEF TablesOK, RowsKnown
<1>10. DeletesKnow'
  <2>1. SUFFICES ASSUME NEW d \in Deleters, del[d].pc # "idle"
                 PROVE  /\ del[d].receipt \in used'
                        /\ \A key \in del[d].keys : req'[key[1]].pc = "done" /\ req'[key[1]].receipt = del[d].receipt
                        /\ del[d].pc = "deleted" => owner[del[d].receipt] = Nobody
                        /\ del[d].pc = "listed" =>
                               \A row \in RowsOf(del[d].receipt) : req'[row.key[1]].upload => row.key \in del[d].keys
    BY DEF DeletesKnow, RowsOf
  <2>2. \A key \in del[d].keys : key[1] \in Requests \ {q}
    BY <1>1, <2>1 DEF TablesOK, DeletesKnow, TypeOK, DeleteLocals, Keys
  <2> QED BY <1>1, <1>2, <1>6, <2>1, <2>2 DEF TablesOK, DeletesKnow, RowsOf
<1>11. OrphansHaveReasons'
  <2>1. SUFFICES ASSUME faults' = 0, NEW key \in store'
                 PROVE  \/ \E row \in rows : row.key = key
                        \/ req'[key[1]].pc \in {"put", "insert"}
                        \/ \E d \in Deleters : del[d].pc = "deleted" /\ key \in del[d].keys
                        \/ ~req'[key[1]].upload /\ owner[req'[key[1]].receipt] = Nobody
    BY DEF OrphansHaveReasons
  <2>2. key[1] \in Requests /\ key[2] \in 1..MaxBatch /\ key = <<key[1], key[2]>>
    BY <1>4, <2>1 DEF Keys
  <2>3. CASE key[1] # q
    BY <1>1, <1>2, <2>1, <2>2, <2>3 DEF TablesOK, OrphansHaveReasons
  <2>4. CASE key[1] = q /\ k.pc = "done"
    BY <1>2, <2>1, <2>2, <2>4
  <2>5. CASE key[1] = q /\ k.pc # "done"
    <3>1. (\E row \in k.inserted : row.key = key) \/ k.pc = "insert"
      BY <2>1, <2>2, <2>5 DEF RequestOK, StoredOK
    <3>2. k.pc \in Storing
      BY <3>1 DEF RequestOK, InsertedOK, Storing
    <3> QED BY <1>2, <2>5, <3>2 DEF Storing
  <2> QED BY <2>3, <2>4, <2>5
<1>12. TablesOK'
  BY <1>7, <1>8, <1>9, <1>10, <1>11 DEF TablesOK
<1> QED BY <1>5, <1>12 DEF UploadsInvariant

-----------------------------------------------------------------------------
(* A request that has inserted nothing. *)
LEMMA NothingInserted ==
    ASSUME NEW q \in Requests, NEW k \in RequestLocals, k.inserted = {}, k.pc # "insert"
    PROVE  InsertedOK(q, k)' /\ PlacedOK(q, k)'
<1>1. Len(k.batch) \in Nat
  BY LocalsLength
<1> QED BY <1>1, FS_EmptySet DEF InsertedOK, PlacedOK

(* A request that is not storing yet has no object in S3. *)
LEMMA NothingStored ==
    ASSUME RequestsOK, NEW q \in Requests, req[q].pc \notin Storing \cup {"done"}, faults = 0,
           NEW i \in 1..MaxBatch
    PROVE  <<q, i>> \notin store
<1>1. RequestOK(q, req[q])
  BY DEF RequestsOK
<1> QED BY <1>1 DEF RequestOK, InsertedOK, StoredOK, Storing

LEMMA StartUploadKeeps ==
    ASSUME UploadsInvariant, NEW q \in Requests, StartUpload(q)
    PROVE  UploadsInvariant'
<1>1. TypeOK /\ RequestsOK /\ TablesOK
  BY DEF UploadsInvariant
<1>2. PICK u \in Users, batch \in Batches, force \in BOOLEAN :
          /\ Len(batch) <= MaxImages
          /\ req' = [req EXCEPT ![q] =
                 [NoRequest EXCEPT !.pc = "locking", !.user = u, !.upload = TRUE,
                                   !.batch = batch, !.force = force]]
  BY DEF StartUpload
<1>3. PICK k : k = [NoRequest EXCEPT !.pc = "locking", !.user = u, !.upload = TRUE,
                                     !.batch = batch, !.force = force]
  OBVIOUS
<1>4. /\ k.pc = "locking" /\ k.user = u /\ k.receipt = Nobody /\ k.upload = TRUE
      /\ k.batch = batch /\ k.force = force /\ k.inserted = {}
  BY <1>3 DEF NoRequest
<1>5. k \in RequestLocals
  BY <1>3, Zenon DEF NoRequest, RequestLocals
<1>6. UNCHANGED <<owner, used, rows, store, lock, del, faults>> /\ req[q].pc = "idle"
  BY DEF StartUpload, NoRequest
<1>7. TypeOK'
  BY <1>1, <1>2, <1>3, <1>5, <1>6 DEF TypeOK
<1>8. RequestOK(q, k)'
  <2>1. ShapeOK(k)' /\ LockOK(q, k)' /\ FreshOK(q, k)' /\ AttachOK(k)' /\ CheckedOK(k)'
    BY <1>2, <1>4 DEF ShapeOK, LockOK, FreshOK, AttachOK, CheckedOK, Working, Storing
  <2>2. StoredOK(q, k)'
    BY <1>1, <1>6, NothingStored DEF StoredOK, Storing
  <2> QED BY <1>4, <1>5, <2>1, <2>2, NothingInserted DEF RequestOK
<1>9. \A p \in Requests \ {q} : req[p].upload /\ req[p].pc \in Storing => k.receipt # req[p].receipt
  BY <1>1, <1>4, UploadsAssumption DEF RequestsOK, RequestOK, ShapeOK, Storing
<1> QED BY <1>2, <1>3, <1>4, <1>5, <1>6, <1>7, <1>8, <1>9, RequestMoves

LEMMA StartAddKeeps ==
    ASSUME UploadsInvariant, NEW q \in Requests, StartAdd(q)
    PROVE  UploadsInvariant'
<1>1. TypeOK /\ RequestsOK /\ TablesOK
  BY DEF UploadsInvariant
<1>2. PICK r \in Receipts, batch \in Batches, force \in BOOLEAN :
          /\ owner[r] # Nobody
          /\ req' = [req EXCEPT ![q] =
                 [NoRequest EXCEPT !.pc = "locking", !.user = owner[r], !.receipt = r,
                                   !.batch = batch, !.force = force]]
  BY DEF StartAdd
<1>3. PICK k : k = [NoRequest EXCEPT !.pc = "locking", !.user = owner[r], !.receipt = r,
                                     !.batch = batch, !.force = force]
  OBVIOUS
<1>4. /\ k.pc = "locking" /\ k.user = owner[r] /\ k.receipt = r /\ k.upload = FALSE
      /\ k.batch = batch /\ k.force = force /\ k.inserted = {}
  BY <1>3 DEF NoRequest
<1>5. owner[r] \in Users
  BY <1>1, <1>2 DEF TypeOK
<1>6. k \in RequestLocals
  BY <1>3, <1>5, Zenon DEF NoRequest, RequestLocals
<1>7. UNCHANGED <<owner, used, rows, store, lock, del, faults>> /\ req[q].pc = "idle"
  BY DEF StartAdd, NoRequest
<1>8. TypeOK'
  BY <1>1, <1>2, <1>3, <1>6, <1>7 DEF TypeOK
<1>9. RequestOK(q, k)'
  <2>1. ShapeOK(k)' /\ LockOK(q, k)' /\ AttachOK(k)' /\ CheckedOK(k)'
    BY <1>2, <1>4, <1>5, <1>7 DEF ShapeOK, LockOK, AttachOK, CheckedOK, Working, Storing
  <2>2. FreshOK(q, k)'
    BY <1>1, <1>2, <1>4, <1>7 DEF FreshOK, TablesOK, RowsKnown
  <2>3. StoredOK(q, k)'
    BY <1>1, <1>7, NothingStored DEF StoredOK, Storing
  <2> QED BY <1>4, <1>6, <2>1, <2>2, <2>3, NothingInserted DEF RequestOK
<1>10. \A p \in Requests \ {q} : req[p].upload /\ req[p].pc \in Storing => k.receipt # req[p].receipt
  BY <1>1, <1>2, <1>4 DEF RequestsOK, RequestOK, FreshOK
<1> QED BY <1>2, <1>3, <1>4, <1>6, <1>7, <1>8, <1>9, <1>10, RequestMoves

(* A request that has its receipt, or none yet, clashes with no upload. *)
LEMMA NoClash ==
    ASSUME RequestsOK, NEW q \in Requests
    PROVE  \A p \in Requests \ {q} :
               req[p].upload /\ req[p].pc \in Storing => req[q].receipt # req[p].receipt
  BY DEF RequestsOK, RequestOK, FreshOK

LEMMA LockKeeps ==
    ASSUME UploadsInvariant, NEW q \in Requests, Lock(q)
    PROVE  UploadsInvariant'
<1>1. TypeOK /\ RequestsOK /\ TablesOK
  BY DEF UploadsInvariant
<1>2. req[q].pc = "locking" /\ lock[req[q].user] = Nobody /\ RequestOK(q, req[q]) /\ req[q] \in RequestLocals
  BY <1>1 DEF Lock, LockFree, RequestsOK, TypeOK
<1>3. PICK k : k = [req[q] EXCEPT !.pc = IF req[q].upload THEN "conflict" ELSE "cap"]
  OBVIOUS
<1>4. req' = [req EXCEPT ![q] = k] /\ lock' = [lock EXCEPT ![req[q].user] = q]
      /\ UNCHANGED <<owner, used, rows, store, del, faults>>
  BY <1>1, <1>2, <1>3 DEF Lock, TypeOK, RequestLocals
<1>5. /\ k.pc = (IF req[q].upload THEN "conflict" ELSE "cap") /\ k.user = req[q].user
      /\ k.receipt = req[q].receipt /\ k.upload = req[q].upload /\ k.batch = req[q].batch
      /\ k.force = req[q].force /\ k.inserted = req[q].inserted
  BY <1>2, <1>3 DEF RequestLocals
<1>6. k \in RequestLocals
  BY <1>2, <1>3 DEF RequestLocals
<1>7. req[q].user \in Users /\ req[q].inserted = {}
  BY <1>2 DEF RequestOK, ShapeOK, InsertedOK, Storing
<1>8. lock' \in [Users -> Requests \cup {Nobody}] /\ lock'[req[q].user] = q
      /\ \A u \in Users \ {req[q].user} : lock'[u] = lock[u]
  BY <1>1, <1>4, <1>7 DEF TypeOK
<1>9. TypeOK'
  BY <1>1, <1>4, <1>6, <1>8 DEF TypeOK
<1>10. \A p \in Requests \ {q} : req[p].pc \in Working => lock'[req[p].user] = lock[req[p].user]
  <2>1. SUFFICES ASSUME NEW p \in Requests \ {q}, req[p].pc \in Working
                 PROVE  lock'[req[p].user] = lock[req[p].user]
    OBVIOUS
  <2>2. lock[req[p].user] = p /\ req[p].user \in Users
    BY <1>1, <2>1 DEF RequestsOK, RequestOK, LockOK, ShapeOK, Working, Storing
  <2> QED BY <1>2, <1>8, <2>2, UploadsAssumption
<1>11. RequestOK(q, k)'
  <2>1. k.pc \in {"conflict", "cap"}
    BY <1>5
  <2>2. ShapeOK(k)'
    BY <1>2, <1>5 DEF RequestOK, ShapeOK, Storing
  <2>3. LockOK(q, k)'
    BY <1>5, <1>8 DEF LockOK
  <2>4. FreshOK(q, k)' /\ AttachOK(k)'
    BY <1>2, <1>4, <1>5, <2>1 DEF RequestOK, FreshOK, AttachOK, Storing
  <2>5. CheckedOK(k)'
    BY <1>5 DEF CheckedOK
  <2>6. StoredOK(q, k)'
    BY <1>1, <1>2, <1>4, NothingStored DEF StoredOK, Storing
  <2> QED BY <1>5, <1>6, <1>7, <2>1, <2>2, <2>3, <2>4, <2>5, <2>6, NothingInserted DEF RequestOK
<1> QED BY <1>1, <1>2, <1>4, <1>5, <1>6, <1>9, <1>10, <1>11, NoClash, RequestMoves

(* A request that only moves its program counter, while it holds the lock. *)
LEMMA MovesKeeps ==
    ASSUME UploadsInvariant, NEW q \in Requests, req[q].pc \in {"cap", "conflict"},
           NEW pc \in {"conflict", "receipt", "put"}, Moves(q, pc),
           pc = "receipt" <=> req[q].upload /\ req[q].pc = "conflict",
           req[q].pc = "cap" => pc = "conflict" /\ WithinCap(q),
           req[q].pc = "conflict" => pc # "conflict" /\ (req[q].force \/ ~Conflict(q))
    PROVE  UploadsInvariant'
<1>1. TypeOK /\ RequestsOK /\ TablesOK
  BY DEF UploadsInvariant
<1>2. RequestOK(q, req[q]) /\ req[q] \in RequestLocals
  BY <1>1 DEF RequestsOK, TypeOK
<1>3. PICK k : k = [req[q] EXCEPT !.pc = pc]
  OBVIOUS
<1>4. req' = [req EXCEPT ![q] = k] /\ UNCHANGED <<owner, used, rows, store, lock, del, faults>>
  BY <1>1, <1>2, <1>3 DEF Moves, TypeOK, RequestLocals
<1>5. /\ k.pc = pc /\ k.user = req[q].user /\ k.receipt = req[q].receipt /\ k.upload = req[q].upload
      /\ k.batch = req[q].batch /\ k.force = req[q].force /\ k.inserted = req[q].inserted
  BY <1>2, <1>3 DEF RequestLocals
<1>6. k \in RequestLocals
  BY <1>2, <1>3 DEF RequestLocals
<1>7. TypeOK'
  BY <1>1, <1>4, <1>6 DEF TypeOK
<1>8. req[q].inserted = {}
  BY <1>2 DEF RequestOK, InsertedOK, Storing
<1>9. ShapeOK(k)' /\ LockOK(q, k)'
  BY <1>2, <1>4, <1>5 DEF RequestOK, ShapeOK, LockOK, Storing, Working
<1>10. FreshOK(q, k)' /\ AttachOK(k)'
  BY <1>2, <1>4, <1>5, <1>8 DEF RequestOK, ShapeOK, FreshOK, AttachOK, Storing
<1>11. CheckedOK(k)'
  <2>1. ASSUME ~k.upload, k.pc \in {"conflict", "put", "insert"}
        PROVE  Cardinality(RowsOf(k.receipt)) + Len(k.batch) <= MaxImages
    BY <1>2, <1>5, <2>1 DEF RequestOK, CheckedOK, WithinCap
  <2>2. ASSUME ~k.force, k.pc \in {"receipt", "put", "insert"}, NEW row \in rows, row.user = k.user
        PROVE  row.sha \notin ShasOf(k.batch)
    BY <1>5, <2>2 DEF Conflict
  <2> QED BY <1>4, <2>1, <2>2 DEF CheckedOK, RowsOf
<1>12. StoredOK(q, k)'
  BY <1>1, <1>4, NothingStored DEF StoredOK, Storing
<1>13. RequestOK(q, k)'
  BY <1>5, <1>6, <1>8, <1>9, <1>10, <1>11, <1>12, NothingInserted DEF RequestOK
<1> QED BY <1>1, <1>4, <1>5, <1>6, <1>7, <1>13, NoClash, RequestMoves

LEMMA CheckKeeps ==
    ASSUME UploadsInvariant, NEW q \in Requests, CountImages(q) \/ NoConflict(q)
    PROVE  UploadsInvariant'
<1>1. CASE CountImages(q)
  BY <1>1, MovesKeeps DEF CountImages
<1>2. CASE NoConflict(q)
  <2>1. CASE req[q].upload
    BY <1>2, <2>1, MovesKeeps DEF NoConflict
  <2>2. CASE ~req[q].upload
    BY <1>2, <2>2, MovesKeeps DEF NoConflict
  <2> QED BY <2>1, <2>2
<1> QED BY <1>1, <1>2

LEMMA InsertReceiptKeeps ==
    ASSUME UploadsInvariant, NEW q \in Requests, InsertReceipt(q)
    PROVE  UploadsInvariant'
<1>1. TypeOK /\ RequestsOK /\ TablesOK
  BY DEF UploadsInvariant
<1>2. RequestOK(q, req[q]) /\ req[q] \in RequestLocals /\ req[q].pc = "receipt"
  BY <1>1 DEF RequestsOK, TypeOK, InsertReceipt
<1>3. PICK r \in Receipts \ used :
          used' = used \cup {r} /\ req' = [req EXCEPT ![q].pc = "put", ![q].receipt = r]
  BY DEF InsertReceipt
<1>4. PICK k : k = [req[q] EXCEPT !.pc = "put", !.receipt = r]
  OBVIOUS
<1>5. req' = [req EXCEPT ![q] = k] /\ UNCHANGED <<owner, rows, store, lock, del, faults>>
  BY <1>1, <1>2, <1>3, <1>4 DEF InsertReceipt, TypeOK, RequestLocals
<1>6. /\ k.pc = "put" /\ k.user = req[q].user /\ k.receipt = r /\ k.upload = req[q].upload
      /\ k.batch = req[q].batch /\ k.force = req[q].force /\ k.inserted = req[q].inserted
  BY <1>2, <1>4 DEF RequestLocals
<1>7. k \in RequestLocals
  BY <1>2, <1>4 DEF RequestLocals
<1>8. TypeOK'
  BY <1>1, <1>3, <1>5, <1>7 DEF TypeOK
<1>9. req[q].inserted = {} /\ req[q].upload /\ r # Nobody
  BY <1>2, UploadsAssumption DEF RequestOK, ShapeOK, InsertedOK, Storing
<1>10. ShapeOK(k)' /\ LockOK(q, k)' /\ AttachOK(k)' /\ CheckedOK(k)'
  BY <1>2, <1>5, <1>6, <1>9 DEF RequestOK, ShapeOK, LockOK, AttachOK, CheckedOK, Storing, Working
<1>11. \A p \in Requests : req[p].receipt # r
  BY <1>1, <1>3, <1>9 DEF RequestsOK, RequestOK, FreshOK
<1>12. FreshOK(q, k)'
  <2>1. owner[r] = Nobody /\ r \notin Manual
    BY <1>1, <1>3 DEF TablesOK, RowsKnown
  <2>2. \A p \in Requests \ {q} : req'[p].receipt # r
    BY <1>1, <1>5, <1>11 DEF TypeOK
  <2>3. \A d \in Deleters : del'[d].receipt # r
    BY <1>1, <1>3, <1>5, <1>9 DEF TablesOK, DeletesKnow, IdleDeletes, NoDelete
  <2> QED BY <1>3, <1>5, <1>6, <2>1, <2>2, <2>3 DEF FreshOK
<1>13. StoredOK(q, k)'
  BY <1>1, <1>2, <1>5, NothingStored DEF StoredOK, Storing
<1>14. RequestOK(q, k)'
  BY <1>6, <1>7, <1>9, <1>10, <1>12, <1>13, NothingInserted DEF RequestOK
<1>15. used \subseteq used' /\ \A p \in Requests \ {q} : k.receipt # req[p].receipt
  BY <1>3, <1>6, <1>11
<1> QED BY <1>2, <1>5, <1>6, <1>7, <1>8, <1>14, <1>15, RequestMoves

LEMMA PutImageKeeps ==
    ASSUME UploadsInvariant, NEW q \in Requests, PutImage(q)
    PROVE  UploadsInvariant'
<1>1. TypeOK /\ RequestsOK /\ TablesOK
  BY DEF UploadsInvariant
<1>2. RequestOK(q, req[q]) /\ req[q] \in RequestLocals /\ req[q].pc = "put"
  BY <1>1 DEF RequestsOK, TypeOK, PutImage
<1>3. PICK k : k = [req[q] EXCEPT !.pc = "insert"]
  OBVIOUS
<1>4. req' = [req EXCEPT ![q] = k] /\ UNCHANGED <<owner, used, rows, lock, del, faults>>
  BY <1>1, <1>2, <1>3 DEF PutImage, TypeOK, RequestLocals
<1>5. /\ k.pc = "insert" /\ k.user = req[q].user /\ k.receipt = req[q].receipt /\ k.upload = req[q].upload
      /\ k.batch = req[q].batch /\ k.force = req[q].force /\ k.inserted = req[q].inserted
  BY <1>2, <1>3 DEF RequestLocals
<1>6. k \in RequestLocals
  BY <1>2, <1>3 DEF RequestLocals
<1>7. PICK n \in Nat : n = Cardinality(k.inserted)
  BY <1>2, <1>5, FS_CardinalityType DEF RequestOK, InsertedOK
<1>8. n < Len(k.batch) /\ Len(k.batch) \in 1..MaxBatch /\ n + 1 \in 1..MaxBatch
  <2>1. k.batch \in Batches
    BY <1>2, <1>5 DEF RequestOK, ShapeOK
  <2>2. n <= Len(k.batch) /\ n # Len(k.batch)
    BY <1>2, <1>5, <1>7 DEF RequestOK, InsertedOK, PutImage, AllStored
  <2>3. Len(k.batch) \in 1..MaxBatch
    BY <2>1, BatchLength
  <2> QED BY <1>7, <2>2, <2>3, UploadsAssumption
<1>9. store' = store \cup {<<q, n + 1>>}
  BY <1>5, <1>7 DEF PutImage, NextImage
<1>10. TypeOK'
  <2>1. <<q, n + 1>> \in Keys
    BY <1>8 DEF Keys
  <2> QED BY <1>1, <1>4, <1>6, <1>9, <2>1 DEF TypeOK
<1>11. ShapeOK(k)' /\ LockOK(q, k)' /\ AttachOK(k)'
  BY <1>2, <1>4, <1>5 DEF RequestOK, ShapeOK, LockOK, AttachOK, Storing, Working
<1>12. InsertedOK(q, k)'
  BY <1>2, <1>5, <1>7, <1>8 DEF RequestOK, InsertedOK, Storing
<1>13. PlacedOK(q, k)'
  BY <1>2, <1>5, <1>7, <1>9 DEF RequestOK, PlacedOK
<1>14. StoredOK(q, k)'
  <2>1. SUFFICES ASSUME faults = 0, NEW i \in 1..MaxBatch, <<q, i>> \in store'
                 PROVE  (\E row \in k.inserted : row.key = <<q, i>>) \/ i = n + 1
    BY <1>4, <1>5, <1>7 DEF StoredOK
  <2>2. CASE i # n + 1
    BY <1>2, <1>5, <1>9, <2>1, <2>2 DEF RequestOK, StoredOK
  <2> QED BY <2>2
<1>15. FreshOK(q, k)'
  <2>1. \A p \in Requests \ {q} : req'[p] = req[p]
    BY <1>1, <1>4 DEF TypeOK
  <2> QED BY <1>2, <1>4, <1>5, <2>1 DEF RequestOK, FreshOK, Storing
<1>16. CheckedOK(k)'
  BY <1>2, <1>4, <1>5 DEF RequestOK, CheckedOK, RowsOf, ShapeOK
<1>17. RequestOK(q, k)'
  BY <1>11, <1>12, <1>13, <1>14, <1>15, <1>16 DEF RequestOK
<1>18. store \subseteq store' /\ \A key \in store' : key \in store \/ key[1] = q
  BY <1>9
<1> QED BY <1>1, <1>2, <1>4, <1>5, <1>6, <1>10, <1>17, <1>18, NoClash, RequestMoves

LEMMA InsertImageKeeps ==
    ASSUME UploadsInvariant, NEW q \in Requests, InsertImage(q)
    PROVE  UploadsInvariant'
<1>1. TypeOK /\ RequestsOK /\ TablesOK
  BY DEF UploadsInvariant
<1>2. RequestOK(q, req[q]) /\ req[q] \in RequestLocals /\ req[q].pc = "insert"
  BY <1>1 DEF RequestsOK, TypeOK, InsertImage
<1>3. PICK n \in Nat : n = Cardinality(req[q].inserted)
  BY <1>2, FS_CardinalityType DEF RequestOK, InsertedOK
<1>4. req[q].batch \in Batches /\ Len(req[q].batch) \in 1..MaxBatch /\ n < Len(req[q].batch)
      /\ n + 1 \in 1..MaxBatch /\ n + 1 \in 1..Len(req[q].batch)
  <2>1. req[q].batch \in Batches /\ n < Len(req[q].batch)
    BY <1>2, <1>3 DEF RequestOK, ShapeOK, InsertedOK
  <2>2. Len(req[q].batch) \in 1..MaxBatch
    BY <2>1, BatchLength
  <2> QED BY <2>1, <2>2, UploadsAssumption
<1>5. PICK new : new = [receipt |-> req[q].receipt, user |-> req[q].user, key |-> <<q, n + 1>>,
                        sha |-> req[q].batch[n + 1]]
  OBVIOUS
<1>6. new.receipt = req[q].receipt /\ new.user = req[q].user /\ new.key = <<q, n + 1>>
      /\ new.sha = req[q].batch[n + 1]
  BY <1>5
<1>7. new \in Rows /\ new.sha \in ShasOf(req[q].batch)
  <2>1. req[q].receipt \in Receipts /\ req[q].user \in Users
    BY <1>2 DEF RequestOK, ShapeOK, Storing
  <2>2. req[q].batch[n + 1] \in Shas /\ req[q].batch[n + 1] \in ShasOf(req[q].batch)
    BY <1>4, BatchLength
  <2>3. <<q, n + 1>> \in Keys
    BY <1>4 DEF Keys
  <2> QED BY <1>5, <2>1, <2>2, <2>3 DEF Rows
<1>8. PICK k : k = [req[q] EXCEPT !.pc = "put", !.inserted = req[q].inserted \cup {new}]
  OBVIOUS
<1>9. req' = [req EXCEPT ![q] = k] /\ UNCHANGED <<owner, used, rows, store, lock, del, faults>>
  BY <1>1, <1>2, <1>3, <1>5, <1>8 DEF InsertImage, NextImage, TypeOK, RequestLocals
<1>10. /\ k.pc = "put" /\ k.user = req[q].user /\ k.receipt = req[q].receipt /\ k.upload = req[q].upload
       /\ k.batch = req[q].batch /\ k.force = req[q].force /\ k.inserted = req[q].inserted \cup {new}
  BY <1>2, <1>8 DEF RequestLocals
<1>11. k \in RequestLocals
  BY <1>2, <1>7, <1>8 DEF RequestLocals
<1>12. TypeOK'
  BY <1>1, <1>9, <1>11 DEF TypeOK
<1>13. IsFiniteSet(k.inserted) /\ Cardinality(k.inserted) = n + 1
  <2>1. new \notin req[q].inserted
    BY <1>2, <1>3, <1>6 DEF RequestOK, InsertedOK
  <2>2. IsFiniteSet(req[q].inserted)
    BY <1>2 DEF RequestOK, InsertedOK
  <2> QED BY <1>3, <1>10, <2>1, <2>2, FS_AddElement
<1>14. InsertedOK(q, k)'
  <2>1. \A row \in req[q].inserted : row.key[2] <= n /\ row.key[2] \in Nat
    <3>1. req[q].inserted \subseteq Rows
      BY <1>2 DEF RequestLocals
    <3> QED BY <1>2, <1>3, <3>1, RowFields, UploadsAssumption DEF RequestOK, InsertedOK
  <2>2. \A row \in k.inserted : row.key[2] <= n + 1
    BY <1>3, <1>6, <1>10, <2>1
  <2>3. \A row \in k.inserted :
            row.receipt = k.receipt /\ row.user = k.user /\ row.key[1] = q /\ row.sha \in ShasOf(k.batch)
    BY <1>2, <1>6, <1>7, <1>10 DEF RequestOK, InsertedOK
  <2>4. n + 1 <= Len(k.batch)
    BY <1>4, <1>10
  <2> QED BY <1>10, <1>13, <2>2, <2>3, <2>4 DEF InsertedOK, Storing, ShasOf
<1>15. ShapeOK(k)' /\ LockOK(q, k)'
  BY <1>2, <1>9, <1>10 DEF RequestOK, ShapeOK, LockOK, Storing, Working
<1>16. AttachOK(k)'
  BY <1>2, <1>9, <1>10 DEF RequestOK, AttachOK, InsertImage, ReceiptThere
<1>17. PlacedOK(q, k)'
  BY <1>2, <1>3, <1>6, <1>9, <1>10 DEF RequestOK, PlacedOK
<1>18. StoredOK(q, k)'
  <2>1. SUFFICES ASSUME faults = 0, NEW i \in 1..MaxBatch, <<q, i>> \in store
                 PROVE  \E row \in k.inserted : row.key = <<q, i>>
    BY <1>9 DEF StoredOK
  <2>2. CASE i = n + 1
    BY <1>6, <1>10, <2>2
  <2>3. CASE i # n + 1
    BY <1>2, <1>3, <1>10, <2>1, <2>3 DEF RequestOK, StoredOK
  <2> QED BY <2>2, <2>3
<1>19. FreshOK(q, k)'
  <2>1. \A p \in Requests \ {q} : req'[p] = req[p]
    BY <1>1, <1>9 DEF TypeOK
  <2> QED BY <1>2, <1>9, <1>10, <2>1 DEF RequestOK, FreshOK, Storing
<1>20. CheckedOK(k)'
  BY <1>2, <1>9, <1>10 DEF RequestOK, CheckedOK, RowsOf, ShapeOK
<1>21. RequestOK(q, k)'
  BY <1>14, <1>15, <1>16, <1>17, <1>18, <1>19, <1>20 DEF RequestOK
<1> QED BY <1>1, <1>2, <1>9, <1>10, <1>11, <1>12, <1>21, NoClash, RequestMoves

-----------------------------------------------------------------------------
(* A transaction that rolls back; its objects, if any, are explained. *)
LEMMA RollbackKeeps ==
    ASSUME UploadsInvariant, NEW q \in Requests, req[q].pc \in Working, Rollback(q),
           UNCHANGED <<used, del>>, faults' \in 0..MaxFaults, faults' = 0 => faults = 0,
           store \subseteq store', store' \subseteq Keys,
           \A key \in store' : key \in store \/ key[1] = q,
           faults' = 0 => \A i \in 1..MaxBatch : <<q, i>> \in store' =>
                              ~req[q].upload /\ owner[req[q].receipt] = Nobody
    PROVE  UploadsInvariant'
<1>1. TypeOK /\ RequestsOK /\ TablesOK
  BY DEF UploadsInvariant
<1>2. RequestOK(q, req[q]) /\ req[q] \in RequestLocals
  BY <1>1 DEF RequestsOK, TypeOK
<1>3. PICK k : k = [req[q] EXCEPT !.pc = "done", !.inserted = {}]
  OBVIOUS
<1>4. req' = [req EXCEPT ![q] = k] /\ lock' = [lock EXCEPT ![req[q].user] = Nobody]
      /\ UNCHANGED <<owner, rows>>
  BY <1>1, <1>2, <1>3 DEF Rollback, Ends, TypeOK, RequestLocals
<1>5. /\ k.pc = "done" /\ k.user = req[q].user /\ k.receipt = req[q].receipt /\ k.upload = req[q].upload
      /\ k.batch = req[q].batch /\ k.force = req[q].force /\ k.inserted = {}
  BY <1>2, <1>3 DEF RequestLocals
<1>6. k \in RequestLocals
  BY <1>2, <1>3 DEF RequestLocals
<1>7. req[q].user \in Users /\ lock[req[q].user] = q
  BY <1>2 DEF RequestOK, ShapeOK, LockOK, Working, Storing
<1>8. lock' \in [Users -> Requests \cup {Nobody}] /\ \A u \in Users \ {req[q].user} : lock'[u] = lock[u]
  BY <1>1, <1>4, <1>7 DEF TypeOK
<1>9. TypeOK'
  BY <1>1, <1>4, <1>6, <1>8 DEF TypeOK
<1>10. \A p \in Requests \ {q} : req[p].pc \in Working => lock'[req[p].user] = lock[req[p].user]
  <2>1. SUFFICES ASSUME NEW p \in Requests \ {q}, req[p].pc \in Working
                 PROVE  lock'[req[p].user] = lock[req[p].user]
    OBVIOUS
  <2>2. lock[req[p].user] = p /\ req[p].user \in Users
    BY <1>1, <2>1 DEF RequestsOK, RequestOK, LockOK, ShapeOK, Working, Storing
  <2> QED BY <1>7, <1>8, <2>2
<1>11. RequestOK(q, k)'
  <2>1. ShapeOK(k)' /\ LockOK(q, k)' /\ AttachOK(k)' /\ CheckedOK(k)' /\ StoredOK(q, k)'
    BY <1>2, <1>5 DEF RequestOK, ShapeOK, LockOK, AttachOK, CheckedOK, StoredOK, Storing, Working
  <2>2. FreshOK(q, k)'
    BY <1>2, <1>5 DEF RequestOK, FreshOK, Storing
  <2> QED BY <1>5, <1>6, <2>1, <2>2, NothingInserted DEF RequestOK
<1>12. req[q].pc # "done" /\ \A p \in Requests \ {q} :
           req[p].upload /\ req[p].pc \in Storing => k.receipt # req[p].receipt
  BY <1>1, <1>5, NoClash DEF Working, Storing
<1> QED BY <1>4, <1>5, <1>6, <1>9, <1>10, <1>11, <1>12, RequestMoves

LEMMA RefusalsKeep ==
    ASSUME UploadsInvariant, NEW q \in Requests,
           TooManyImages(q) \/ ConflictFound(q) \/ InsertRefused(q)
    PROVE  UploadsInvariant'
<1>1. TypeOK /\ RequestsOK /\ TablesOK
  BY DEF UploadsInvariant
<1>2. Rollback(q) /\ UNCHANGED <<used, store, del, faults>> /\ faults \in 0..MaxFaults /\ store \subseteq Keys
  BY <1>1 DEF TooManyImages, ConflictFound, InsertRefused, TypeOK
<1>3. req[q].pc \in Working
  BY DEF TooManyImages, ConflictFound, InsertRefused, Working, Storing
<1>4. ASSUME faults = 0, NEW i \in 1..MaxBatch, <<q, i>> \in store
      PROVE  ~req[q].upload /\ owner[req[q].receipt] = Nobody
  <2>1. CASE TooManyImages(q) \/ ConflictFound(q)
    BY <1>1, <1>4, <2>1, NothingStored DEF TooManyImages, ConflictFound, Storing
  <2>2. CASE InsertRefused(q)
    BY <2>2 DEF InsertRefused, ReceiptThere
  <2> QED BY <2>1, <2>2
<1> QED BY <1>2, <1>3, <1>4, RollbackKeeps

LEMMA LockFailsKeeps ==
    ASSUME UploadsInvariant, NEW q \in Requests, LockFails(q)
    PROVE  UploadsInvariant'
<1>1. TypeOK /\ RequestsOK /\ TablesOK
  BY DEF UploadsInvariant
<1>2. RequestOK(q, req[q]) /\ req[q] \in RequestLocals /\ req[q].pc = "locking"
  BY <1>1 DEF RequestsOK, TypeOK, LockFails
<1>3. PICK k : k = [req[q] EXCEPT !.pc = "done"]
  OBVIOUS
<1>4. req' = [req EXCEPT ![q] = k] /\ UNCHANGED <<owner, used, rows, store, lock, del>>
  BY <1>1, <1>2, <1>3 DEF LockFails, TypeOK, RequestLocals
<1>5. /\ k.pc = "done" /\ k.user = req[q].user /\ k.receipt = req[q].receipt /\ k.upload = req[q].upload
      /\ k.batch = req[q].batch /\ k.force = req[q].force /\ k.inserted = req[q].inserted
  BY <1>2, <1>3 DEF RequestLocals
<1>6. k \in RequestLocals
  BY <1>2, <1>3 DEF RequestLocals
<1>7. faults' \in 0..MaxFaults /\ faults' # 0
  BY <1>1, UploadsAssumption DEF LockFails, Fault, TypeOK
<1>8. TypeOK'
  BY <1>1, <1>4, <1>6, <1>7 DEF TypeOK
<1>9. RequestOK(q, k)'
  <2>1. k.inserted = {}
    BY <1>2, <1>5 DEF RequestOK, InsertedOK, Storing
  <2>2. ShapeOK(k)' /\ LockOK(q, k)' /\ AttachOK(k)' /\ CheckedOK(k)' /\ StoredOK(q, k)'
    BY <1>2, <1>5 DEF RequestOK, ShapeOK, LockOK, AttachOK, CheckedOK, StoredOK, Storing, Working
  <2>3. FreshOK(q, k)'
    BY <1>2, <1>4, <1>5 DEF RequestOK, FreshOK, Storing
  <2> QED BY <1>5, <1>6, <2>1, <2>2, <2>3, NothingInserted DEF RequestOK
<1>10. \A p \in Requests \ {q} : req[p].upload /\ req[p].pc \in Storing => k.receipt # req[p].receipt
  BY <1>1, <1>5, NoClash
<1> QED BY <1>2, <1>4, <1>6, <1>7, <1>8, <1>9, <1>10, RequestMoves

LEMMA CallFailsKeeps ==
    ASSUME UploadsInvariant, NEW q \in Requests, CallFails(q)
    PROVE  UploadsInvariant'
<1>1. TypeOK /\ RequestsOK /\ TablesOK
  BY DEF UploadsInvariant
<1>2. faults' \in 0..MaxFaults /\ faults' # 0
  BY <1>1, UploadsAssumption DEF CallFails, Fault, TypeOK
<1>3. store \subseteq store' /\ store' \subseteq Keys /\ \A key \in store' : key \in store \/ key[1] = q
  <2>1. CASE store' = store
    BY <1>1, <2>1 DEF TypeOK
  <2>2. CASE req[q].pc = "put" /\ ~AllStored(q) /\ store' = store \cup {<<q, NextImage(q)>>}
    <3>1. RequestOK(q, req[q]) /\ Cardinality(req[q].inserted) \in Nat
      BY <1>1, FS_CardinalityType DEF RequestsOK, RequestOK, InsertedOK
    <3>2. req[q].batch \in Batches
      BY <2>2, <3>1 DEF RequestOK, ShapeOK
    <3>3. NextImage(q) \in 1..MaxBatch
      BY <2>2, <3>1, <3>2, BatchLength, UploadsAssumption DEF RequestOK, InsertedOK, AllStored, NextImage
    <3> QED BY <1>1, <2>2, <3>3 DEF Keys, TypeOK
  <2> QED BY <2>1, <2>2 DEF CallFails
<1>4. req[q].pc \in Working /\ Rollback(q) /\ UNCHANGED <<used, del>>
  BY DEF CallFails, Working, Storing
<1> QED BY <1>2, <1>3, <1>4, RollbackKeeps

LEMMA CommitKeeps ==
    ASSUME UploadsInvariant, NEW q \in Requests, Commit(q)
    PROVE  UploadsInvariant'
<1>1. TypeOK /\ RequestsOK /\ TablesOK
  BY DEF UploadsInvariant
<1>2. RequestOK(q, req[q]) /\ req[q] \in RequestLocals /\ req[q].pc = "put"
  BY <1>1 DEF RequestsOK, TypeOK, Commit
<1>3. PICK k : k = [req[q] EXCEPT !.pc = "done", !.inserted = {}]
  OBVIOUS
<1>4. PICK u, r, ins, up, batch :
          u = req[q].user /\ r = req[q].receipt /\ ins = req[q].inserted /\ up = req[q].upload
          /\ batch = req[q].batch
  OBVIOUS
<1>5. /\ req' = [req EXCEPT ![q] = k] /\ lock' = [lock EXCEPT ![u] = Nobody] /\ rows' = rows \cup ins
      /\ owner' = (IF up THEN [owner EXCEPT ![r] = u] ELSE owner)
      /\ UNCHANGED <<used, store, del, faults>>
  BY <1>1, <1>2, <1>3, <1>4 DEF Commit, Ends, TypeOK, RequestLocals
<1>6. /\ k.pc = "done" /\ k.user = u /\ k.receipt = r /\ k.upload = up
      /\ k.batch = batch /\ k.force = req[q].force /\ k.inserted = {}
  BY <1>2, <1>3, <1>4 DEF RequestLocals
<1>7. k \in RequestLocals
  BY <1>2, <1>3 DEF RequestLocals
<1>8. /\ u \in Users /\ r \in Receipts /\ batch \in Batches /\ lock[u] = q /\ ins \subseteq Rows
      /\ up \in BOOLEAN /\ r \in used /\ r # Nobody /\ u # Nobody
  BY <1>2, <1>4, UploadsAssumption DEF RequestOK, ShapeOK, LockOK, FreshOK, Working, Storing, RequestLocals
<1>9. IsFiniteSet(ins) /\ Cardinality(ins) = Len(batch) /\ Len(batch) \in Nat \ {0} /\ ins # {}
  <2>1. IsFiniteSet(ins) /\ Cardinality(ins) = Len(batch)
    BY <1>2, <1>4 DEF RequestOK, InsertedOK, Commit, AllStored
  <2>2. Len(batch) \in Nat \ {0}
    BY <1>8, BatchLength, UploadsAssumption
  <2> QED BY <2>1, <2>2, FS_EmptySet
<1>10. \A row \in ins : row.receipt = r /\ row.user = u /\ row.key[1] = q
                        /\ row.key \in store /\ row.sha \in ShasOf(batch)
  BY <1>2, <1>4 DEF RequestOK, InsertedOK, PlacedOK
<1>11. owner[r] = IF up THEN Nobody ELSE u
  BY <1>2, <1>4, <1>8, <1>9 DEF RequestOK, FreshOK, AttachOK, Storing
<1>12. owner' \in [Receipts -> Users \cup {Nobody}] /\ owner'[r] = u
       /\ \A s \in Receipts \ {r} : owner'[s] = owner[s]
  BY <1>1, <1>5, <1>8, <1>11 DEF TypeOK
<1>13. lock' \in [Users -> Requests \cup {Nobody}] /\ \A v \in Users \ {u} : lock'[v] = lock[v]
  BY <1>1, <1>5, <1>8 DEF TypeOK
<1>14. TypeOK'
  BY <1>1, <1>5, <1>7, <1>8, <1>12, <1>13 DEF TypeOK
<1>15. req'[q] = k /\ \A p \in Requests \ {q} : req'[p] = req[p]
  BY <1>1, <1>5 DEF TypeOK
<1>16. IsFiniteSet(rows) /\ IsFiniteSet(rows') /\ rows \subseteq Rows /\ rows' \subseteq Rows /\ store \subseteq Keys
  BY <1>1, <1>5, <1>9, <1>14, FS_Union DEF TablesOK, RowsKnown, TypeOK
(* Nobody else knows the receipt of an upload. *)
<1>17. up => /\ r \notin Manual
             /\ \A p \in Requests \ {q} : req[p].receipt # r
             /\ \A d \in Deleters : del[d].receipt # r
  BY <1>2, <1>4 DEF RequestOK, FreshOK, Storing
<1>18. RequestsOK'
  <2>1. SUFFICES ASSUME NEW p \in Requests PROVE RequestOK(p, req[p])'
    BY DEF RequestsOK
  <2>2. CASE p = q
    <3>1. ShapeOK(k)' /\ LockOK(q, k)' /\ AttachOK(k)' /\ CheckedOK(k)' /\ StoredOK(q, k)'
      BY <1>2, <1>4, <1>6, <1>8
      DEF RequestOK, ShapeOK, LockOK, AttachOK, CheckedOK, StoredOK, Storing, Working
    <3>2. FreshOK(q, k)'
      BY <1>5, <1>6, <1>8 DEF FreshOK, Storing
    <3>3. RequestOK(q, k)'
      BY <1>6, <1>7, <3>1, <3>2, NothingInserted DEF RequestOK
    <3> QED BY <1>15, <2>2, <3>3, SameRequest
  <2>3. CASE p # q
    <3>1. PICK j \in RequestLocals : j = req[p]
      BY <1>1 DEF TypeOK
    <3>2. RequestOK(p, j)
      BY <1>1, <3>1 DEF RequestsOK
    <3>3. ASSUME j.pc \in Working PROVE j.user \in Users /\ j.user # u /\ lock'[j.user] = lock[j.user]
      <4>1. j.user \in Users /\ lock[j.user] = p
        BY <3>2, <3>3 DEF RequestOK, LockOK, ShapeOK, Working, Storing
      <4> QED BY <1>8, <1>13, <2>3, <4>1
    <3>4. ASSUME j.receipt \in Receipts PROVE owner'[j.receipt] = owner[j.receipt]
      BY <1>5, <1>8, <1>12, <1>17, <2>3, <3>1, <3>4
    <3>5. ASSUME j.upload, j.pc \in Storing
          PROVE  /\ \A s \in Requests \ {p} : req'[s].receipt # j.receipt
                 /\ \A d \in Deleters : del'[d].receipt # j.receipt
      <4>1. /\ \A s \in Requests \ {p} : req[s].receipt # j.receipt
            /\ \A d \in Deleters : del[d].receipt # j.receipt
        BY <3>2, <3>5 DEF RequestOK, FreshOK
      <4> QED BY <1>4, <1>5, <1>6, <1>15, <4>1
    <3>6. ASSUME j.pc \in Working PROVE j.receipt # r
      <4>1. CASE up
        BY <1>17, <2>3, <3>1, <4>1
      <4>2. CASE ~up /\ ~j.upload
        <5>1. j.receipt \in Receipts /\ owner[j.receipt] \in {j.user, Nobody}
          BY <3>2, <3>6, <4>2 DEF RequestOK, ShapeOK, AttachOK, Working, Storing
        <5> QED BY <1>8, <1>11, <3>3, <3>6, <4>2, <5>1
      <4>3. CASE j.upload /\ j.pc \in Storing
        BY <1>4, <2>3, <3>2, <4>3 DEF RequestOK, FreshOK
      <4>4. CASE j.upload /\ j.pc \notin Storing
        BY <1>8, <3>2, <3>6, <4>4 DEF RequestOK, ShapeOK, Working, Storing
      <4> QED BY <1>8, <4>1, <4>2, <4>3, <4>4
    <3>7. j.pc \in Working =>
              \A row \in rows' : row \notin rows => row.user # j.user /\ row.receipt # j.receipt
      BY <1>5, <1>10, <3>3, <3>6
    <3>8. RequestOK(p, j)'
      BY <1>1, <1>5, <1>14, <1>16, <3>2, <3>3, <3>4, <3>5, <3>7, RequestStands
    <3> QED BY <1>15, <2>3, <3>1, <3>8, SameRequest
  <2> QED BY <2>2, <2>3
<1>19. \A row \in rows : /\ row.key[1] \in Requests \ {q} /\ row.receipt \in Receipts /\ row.user \in Users
                         /\ owner[row.receipt] = row.user /\ req[row.key[1]].pc = "done"
                         /\ req[row.key[1]].receipt = row.receipt
  BY <1>1, <1>2, <1>16, RowFields DEF TablesOK, RowsKnown, RowsBelongToOwner
<1>20. RowsHaveImages'
  BY <1>1, <1>5, <1>10 DEF TablesOK, RowsHaveImages
<1>21. RowsBelongToOwner'
  <2>1. SUFFICES ASSUME NEW row \in rows' PROVE owner'[row.receipt] = row.user
    BY DEF RowsBelongToOwner
  <2>2. CASE row \in ins
    BY <1>10, <1>12, <2>2
  <2>3. CASE row \in rows
    BY <1>8, <1>11, <1>12, <1>19, <2>3, UploadsAssumption
  <2> QED BY <1>5, <2>2, <2>3
<1>22. ReceiptsHaveImages'
  <2>1. SUFFICES ASSUME NEW s \in Receipts \ Manual, owner'[s] # Nobody
                 PROVE  \E row \in rows' : row.receipt = s
    BY DEF ReceiptsHaveImages, RowsOf
  <2>2. CASE s = r
    BY <1>5, <1>9, <1>10, <2>2
  <2>3. CASE s # r
    BY <1>1, <1>5, <1>12, <2>1, <2>3 DEF TablesOK, ReceiptsHaveImages, RowsOf
  <2> QED BY <2>2, <2>3
<1>23. CapHolds'
  <2>1. SUFFICES ASSUME NEW s \in Receipts PROVE Cardinality(RowsOf(s)') <= MaxImages
    BY DEF CapHolds, RowsOf
  <2>2. CASE s # r
    <3>1. RowsOf(s)' = RowsOf(s)
      BY <1>5, <1>10, <2>2 DEF RowsOf
    <3> QED BY <1>1, <3>1 DEF TablesOK, CapHolds
  <2>3. CASE s = r /\ up
    <3>1. RowsOf(s)' = ins
      BY <1>5, <1>8, <1>10, <1>11, <1>19, <2>3, UploadsAssumption DEF RowsOf
    <3> QED BY <1>2, <1>4, <1>9, <2>3, <3>1 DEF RequestOK, ShapeOK
  <2>4. CASE s = r /\ ~up
    <3>1. RowsOf(s)' = RowsOf(s) \cup ins
      BY <1>5, <1>10, <2>4 DEF RowsOf
    <3>2. IsFiniteSet(RowsOf(s)) /\ Cardinality(RowsOf(s)) \in Nat
      BY <1>16, RowsCounted
    <3>3. IsFiniteSet(RowsOf(s) \cap ins) /\ Cardinality(RowsOf(s) \cap ins) \in Nat
      BY <3>2, FS_Intersection, FS_CardinalityType
    <3>4. Cardinality(RowsOf(s) \cup ins) = Cardinality(RowsOf(s)) + Cardinality(ins) - Cardinality(RowsOf(s) \cap ins)
      BY <1>9, <3>2, FS_Union
    <3>5. Cardinality(RowsOf(s)) + Len(batch) <= MaxImages
      BY <1>2, <1>4, <2>4 DEF RequestOK, CheckedOK
    <3> QED BY <1>9, <3>1, <3>2, <3>3, <3>4, <3>5, UploadsAssumption
  <2> QED BY <1>8, <2>2, <2>3, <2>4
<1>24. BatchAllOrNothing'
  <2>1. SUFFICES ASSUME NEW p \in Requests, {row \in rows' : row.key[1] = p} # {}
                 PROVE  Cardinality({row \in rows' : row.key[1] = p}) = Len(req'[p].batch)
    BY DEF BatchAllOrNothing
  <2>2. CASE p = q
    <3>1. {row \in rows' : row.key[1] = p} = ins
      BY <1>5, <1>10, <1>19, <2>2
    <3> QED BY <1>6, <1>9, <1>15, <2>2, <3>1
  <2>3. CASE p # q
    <3>1. {row \in rows' : row.key[1] = p} = {row \in rows : row.key[1] = p}
      BY <1>5, <1>10, <2>3
    <3> QED BY <1>1, <1>15, <2>1, <2>3, <3>1 DEF TablesOK, BatchAllOrNothing
  <2> QED BY <2>2, <2>3
<1>25. RowsKnown'
  <2>1. \A s \in Receipts : owner'[s] # Nobody => s \in used'
    BY <1>1, <1>5, <1>8, <1>12 DEF TablesOK, RowsKnown
  <2>2. \A row \in rows' : req'[row.key[1]].pc = "done" /\ req'[row.key[1]].receipt = row.receipt
    BY <1>5, <1>6, <1>10, <1>15, <1>19
  <2> QED BY <1>1, <1>5, <1>16, <2>1, <2>2 DEF TablesOK, RowsKnown
<1>26. DeletesKnow'
  <2>1. SUFFICES ASSUME NEW d \in Deleters, del[d].pc # "idle"
                 PROVE  /\ del[d].receipt \in used'
                        /\ \A key \in del[d].keys : req'[key[1]].pc = "done" /\ req'[key[1]].receipt = del[d].receipt
                        /\ del[d].pc = "deleted" => owner'[del[d].receipt] = Nobody
                        /\ del[d].pc = "listed" => \A row \in rows' : row.receipt = del[d].receipt =>
                               (req'[row.key[1]].upload => row.key \in del[d].keys)
    BY <1>5 DEF DeletesKnow, RowsOf
  <2>2. /\ del[d].receipt \in used
        /\ \A key \in del[d].keys : req[key[1]].pc = "done" /\ req[key[1]].receipt = del[d].receipt
        /\ del[d].pc = "deleted" => owner[del[d].receipt] = Nobody
        /\ del[d].pc = "listed" => \A row \in rows : row.receipt = del[d].receipt =>
               (req[row.key[1]].upload => row.key \in del[d].keys)
    BY <1>1, <2>1 DEF TablesOK, DeletesKnow, RowsOf
  <2>3. \A key \in del[d].keys : key[1] \in Requests \ {q}
    BY <1>1, <1>2, <2>2 DEF TypeOK, DeleteLocals, Keys
  <2>4. del[d].pc = "deleted" => owner'[del[d].receipt] = Nobody
    BY <1>1, <1>5, <1>12, <1>17, <2>2 DEF TypeOK
  <2>5. ASSUME del[d].pc = "listed", NEW row \in rows', row.receipt = del[d].receipt, req'[row.key[1]].upload
        PROVE  row.key \in del[d].keys
    <3>1. CASE row \in rows
      BY <1>15, <1>19, <2>2, <2>5, <3>1
    <3>2. CASE row \in ins
      BY <1>6, <1>10, <1>15, <1>17, <2>5, <3>2
    <3> QED BY <1>5, <2>5, <3>1, <3>2
  <2> QED BY <1>5, <1>15, <2>2, <2>3, <2>4, <2>5
<1>27. OrphansHaveReasons'
  <2>1. SUFFICES ASSUME faults = 0, NEW key \in store
                 PROVE  \/ \E row \in rows' : row.key = key
                        \/ req'[key[1]].pc \in {"put", "insert"}
                        \/ \E d \in Deleters : del[d].pc = "deleted" /\ key \in del[d].keys
                        \/ ~req'[key[1]].upload /\ owner'[req'[key[1]].receipt] = Nobody
    BY <1>5 DEF OrphansHaveReasons
  <2>2. key[1] \in Requests /\ key[2] \in 1..MaxBatch /\ key = <<key[1], key[2]>>
    BY <1>16, <2>1 DEF Keys
  <2>3. CASE key[1] = q
    <3>1. \E row \in ins : row.key = key
      BY <1>2, <1>4, <2>1, <2>2, <2>3 DEF RequestOK, StoredOK
    <3> QED BY <1>5, <3>1
  <2>4. CASE key[1] # q
    <3>1. \/ \E row \in rows : row.key = key
          \/ req[key[1]].pc \in {"put", "insert"}
          \/ \E d \in Deleters : del[d].pc = "deleted" /\ key \in del[d].keys
          \/ ~req[key[1]].upload /\ owner[req[key[1]].receipt] = Nobody
      BY <1>1, <2>1 DEF TablesOK, OrphansHaveReasons
    <3>2. req'[key[1]] = req[key[1]]
      BY <1>15, <2>2, <2>4
    <3>3. up => req[key[1]].receipt # r
      BY <1>17, <2>2, <2>4
    <3>4. owner'[req[key[1]].receipt] = owner[req[key[1]].receipt]
      BY <1>1, <1>5, <1>8, <3>3 DEF TypeOK
    <3> QED BY <1>5, <3>1, <3>2, <3>4
  <2> QED BY <2>3, <2>4
<1>28. IdleDeletes'
  BY <1>1, <1>5 DEF TablesOK, IdleDeletes
<1>29. TablesOK'
  BY <1>20, <1>21, <1>22, <1>23, <1>24, <1>25, <1>26, <1>27, <1>28 DEF TablesOK
<1> QED BY <1>14, <1>18, <1>29 DEF UploadsInvariant

-----------------------------------------------------------------------------
(* One delete goes on, to locals e, and may remove objects of receipts     *)
(* that are gone.                                                          *)
LEMMA DeleteMoves ==
    ASSUME UploadsInvariant, TypeOK', NEW d \in Deleters, NEW e \in DeleteLocals,
           del' = [del EXCEPT ![d] = e], UNCHANGED <<owner, used, rows, lock, req>>,
           faults' = 0 => faults = 0, store' \subseteq store,
           \A key \in store : key \in store' \/ (req[key[1]].pc = "done" /\ owner[req[key[1]].receipt] = Nobody),
           e.pc # "idle", e.receipt \in used,
           \A p \in Requests : req[p].upload /\ req[p].pc \in Storing => e.receipt # req[p].receipt,
           \A key \in e.keys : req[key[1]].pc = "done" /\ req[key[1]].receipt = e.receipt,
           e.pc = "deleted" => owner[e.receipt] = Nobody,
           e.pc = "listed" => \A row \in RowsOf(e.receipt) : req[row.key[1]].upload => row.key \in e.keys,
           faults' = 0 /\ del[d].pc = "deleted" =>
               e.pc = "deleted" /\ \A key \in del[d].keys : key \in store' => key \in e.keys
    PROVE  UploadsInvariant'
<1>1. TypeOK /\ RequestsOK /\ TablesOK
  BY DEF UploadsInvariant
<1>2. del'[d] = e /\ \A c \in Deleters \ {d} : del'[c] = del[c]
  BY <1>1 DEF TypeOK
<1>3. IsFiniteSet(rows) /\ IsFiniteSet(rows')
  BY <1>1 DEF TablesOK, RowsKnown
<1>4. RequestsOK'
  <2>1. SUFFICES ASSUME NEW p \in Requests PROVE RequestOK(p, req[p])'
    BY DEF RequestsOK
  <2>2. PICK j \in RequestLocals : j = req[p]
    BY <1>1 DEF TypeOK
  <2>3. RequestOK(p, j)
    BY <1>1, <2>2 DEF RequestsOK
  <2>4. j.pc # "done" => \A i \in 1..MaxBatch : <<p, i>> \in store' <=> <<p, i>> \in store
    BY <2>2
  <2>5. j.upload /\ j.pc \in Storing =>
            /\ \A q \in Requests \ {p} : req'[q].receipt # j.receipt
            /\ \A c \in Deleters : del'[c].receipt # j.receipt
    BY <1>2, <2>2, <2>3 DEF RequestOK, FreshOK
  <2>6. RequestOK(p, j)'
    BY <1>1, <1>3, <2>2, <2>3, <2>4, <2>5, RequestStands
  <2> QED BY <2>2, <2>6, SameRequest
<1>5. RowsHaveImages'
  <2>1. SUFFICES ASSUME NEW row \in rows PROVE row.key \in store'
    BY DEF RowsHaveImages
  <2>2. row.key \in store /\ owner[row.receipt] = row.user /\ req[row.key[1]].receipt = row.receipt
    BY <1>1 DEF TablesOK, RowsHaveImages, RowsBelongToOwner, RowsKnown
  <2>3. row.user # Nobody
    BY <1>1, RowFields, UploadsAssumption DEF TypeOK
  <2> QED BY <2>2, <2>3
<1>6. RowsBelongToOwner' /\ ReceiptsHaveImages' /\ CapHolds' /\ BatchAllOrNothing' /\ RowsKnown'
  BY <1>1 DEF TablesOK, RowsBelongToOwner, ReceiptsHaveImages, CapHolds, BatchAllOrNothing, RowsKnown, RowsOf
<1>7. DeletesKnow'
  <2>1. SUFFICES ASSUME NEW c \in Deleters, del'[c].pc # "idle"
                 PROVE  /\ del'[c].receipt \in used
                        /\ \A key \in del'[c].keys : req[key[1]].pc = "done" /\ req[key[1]].receipt = del'[c].receipt
                        /\ del'[c].pc = "deleted" => owner[del'[c].receipt] = Nobody
                        /\ del'[c].pc = "listed" => \A row \in rows : row.receipt = del'[c].receipt =>
                               (req[row.key[1]].upload => row.key \in del'[c].keys)
    BY DEF DeletesKnow, RowsOf
  <2>2. CASE c = d
    BY <1>2, <2>2 DEF RowsOf
  <2>3. CASE c # d
    BY <1>1, <1>2, <2>1, <2>3 DEF TablesOK, DeletesKnow, RowsOf
  <2> QED BY <2>2, <2>3
<1>8. IdleDeletes'
  BY <1>1, <1>2 DEF TablesOK, IdleDeletes
<1>9. OrphansHaveReasons'
  <2>1. SUFFICES ASSUME faults' = 0, NEW key \in store'
                 PROVE  \/ \E row \in rows : row.key = key
                        \/ req[key[1]].pc \in {"put", "insert"}
                        \/ \E c \in Deleters : del'[c].pc = "deleted" /\ key \in del'[c].keys
                        \/ ~req[key[1]].upload /\ owner[req[key[1]].receipt] = Nobody
    BY DEF OrphansHaveReasons
  <2>2. ASSUME NEW c \in Deleters, del[c].pc = "deleted", key \in del[c].keys
        PROVE  del'[c].pc = "deleted" /\ key \in del'[c].keys
    BY <1>2, <2>1, <2>2
  <2> QED BY <1>1, <2>1, <2>2 DEF TablesOK, OrphansHaveReasons
<1>10. TablesOK'
  BY <1>5, <1>6, <1>7, <1>8, <1>9 DEF TablesOK
<1> QED BY <1>4, <1>10 DEF UploadsInvariant

LEMMA DeleteListKeeps ==
    ASSUME UploadsInvariant, NEW d \in Deleters, NEW r \in Receipts, DeleteList(d, r)
    PROVE  UploadsInvariant'
<1>1. TypeOK /\ RequestsOK /\ TablesOK
  BY DEF UploadsInvariant
<1>2. PICK e : e = [pc |-> "listed", receipt |-> r, keys |-> KeysOf(r),
                    listed |-> {row.key : row \in RowsOf(r)}]
  OBVIOUS
<1>3. e.pc = "listed" /\ e.receipt = r /\ e.keys = KeysOf(r)
  BY <1>2
<1>4. /\ del' = [del EXCEPT ![d] = e] /\ del[d].pc = "idle" /\ owner[r] # Nobody
      /\ UNCHANGED <<owner, used, rows, store, lock, req, faults>>
  BY <1>2 DEF DeleteList, NoDelete
<1>5. KeysOf(r) \subseteq Keys /\ \A row \in RowsOf(r) : row.key \in KeysOf(r)
  BY <1>1, RowFields DEF KeysOf, RowsOf, TypeOK
<1>6. e \in DeleteLocals
  BY <1>2, <1>5 DEF DeleteLocals, KeysOf
<1>7. TypeOK'
  BY <1>1, <1>4, <1>6 DEF TypeOK
<1>8. \A key \in KeysOf(r) : req[key[1]].pc = "done" /\ req[key[1]].receipt = r
  BY <1>1 DEF KeysOf, RowsOf, TablesOK, RowsKnown
<1>9. r \in used
  BY <1>1, <1>4 DEF TablesOK, RowsKnown
<1>10. \A p \in Requests : req[p].upload /\ req[p].pc \in Storing => r # req[p].receipt
  BY <1>1, <1>4 DEF RequestsOK, RequestOK, FreshOK
<1> QED BY <1>3, <1>4, <1>5, <1>6, <1>7, <1>8, <1>9, <1>10, DeleteMoves

LEMMA RemoveKeeps ==
    ASSUME UploadsInvariant, NEW d \in Deleters, RemoveObject(d) \/ RemoveFails(d)
    PROVE  UploadsInvariant'
<1>1. TypeOK /\ RequestsOK /\ TablesOK
  BY DEF UploadsInvariant
<1>2. del[d] \in DeleteLocals /\ del[d].pc = "deleted" /\ UNCHANGED <<owner, used, rows, lock, req>>
  BY <1>1 DEF RemoveObject, RemoveFails, Removable, TypeOK
<1>3. PICK key \in del[d].keys :
          /\ del' = [del EXCEPT ![d].keys = @ \ {key}]
          /\ \/ store' = store \ {key} /\ faults' = faults
             \/ store' = store /\ Fault
  BY DEF RemoveObject, RemoveFails
<1>4. PICK e : e = [del[d] EXCEPT !.keys = @ \ {key}]
  OBVIOUS
<1>5. e.pc = "deleted" /\ e.receipt = del[d].receipt /\ e.keys = del[d].keys \ {key} /\ e \in DeleteLocals
  BY <1>2, <1>4 DEF DeleteLocals
<1>6. del' = [del EXCEPT ![d] = e]
  BY <1>1, <1>3, <1>4 DEF TypeOK
<1>7. faults' \in 0..MaxFaults /\ (faults' = 0 => faults = 0 /\ store' = store \ {key}) /\ store' \subseteq store
  BY <1>1, <1>3, UploadsAssumption DEF Fault, TypeOK
<1>8. TypeOK'
  BY <1>1, <1>2, <1>5, <1>6, <1>7 DEF TypeOK
<1>9. /\ del[d].receipt \in used /\ owner[del[d].receipt] = Nobody
      /\ \A k \in del[d].keys : req[k[1]].pc = "done" /\ req[k[1]].receipt = del[d].receipt
  BY <1>1, <1>2 DEF TablesOK, DeletesKnow
<1>10. \A k \in store : k \in store' \/ (req[k[1]].pc = "done" /\ owner[req[k[1]].receipt] = Nobody)
  BY <1>3, <1>9
<1>11. \A p \in Requests : req[p].upload /\ req[p].pc \in Storing => e.receipt # req[p].receipt
  BY <1>1, <1>5 DEF RequestsOK, RequestOK, FreshOK
<1> QED BY <1>2, <1>5, <1>6, <1>7, <1>8, <1>9, <1>10, <1>11, DeleteMoves

LEMMA DeleteRowKeeps ==
    ASSUME UploadsInvariant, NEW d \in Deleters, DeleteRow(d)
    PROVE  UploadsInvariant'
<1>1. TypeOK /\ RequestsOK /\ TablesOK
  BY DEF UploadsInvariant
<1>2. PICK r : r = del[d].receipt
  OBVIOUS
<1>3. PICK e : e = [del[d] EXCEPT !.pc = IF owner[r] = Nobody THEN "done" ELSE "deleted"]
  OBVIOUS
<1>4. /\ del[d] \in DeleteLocals /\ del[d].pc = "listed" /\ ~Locked(r)
      /\ owner' = [owner EXCEPT ![r] = Nobody] /\ rows' = rows \ RowsOf(r)
      /\ UNCHANGED <<used, store, lock, req, faults>>
  BY <1>1, <1>2 DEF DeleteRow, TypeOK
<1>5. del' = [del EXCEPT ![d] = e]
  BY <1>1, <1>2, <1>3 DEF DeleteRow, TypeOK
<1>6. e.pc = (IF owner[r] = Nobody THEN "done" ELSE "deleted") /\ e.receipt = r /\ e.keys = del[d].keys
      /\ e \in DeleteLocals
  BY <1>2, <1>3, <1>4 DEF DeleteLocals
<1>7. /\ r \in used /\ r \in Receipts
      /\ \A key \in del[d].keys : req[key[1]].pc = "done" /\ req[key[1]].receipt = r
      /\ \A row \in RowsOf(r) : req[row.key[1]].upload => row.key \in del[d].keys
  BY <1>1, <1>2, <1>4 DEF TablesOK, DeletesKnow, TypeOK
<1>8. owner' \in [Receipts -> Users \cup {Nobody}] /\ owner'[r] = Nobody
      /\ \A s : s # r => owner'[s] = owner[s]
  BY <1>1, <1>4, <1>7 DEF TypeOK
<1>9. rows' \subseteq rows /\ \A row \in rows : row \in rows' <=> row.receipt # r
  BY <1>4 DEF RowsOf
<1>10. TypeOK'
  BY <1>1, <1>4, <1>5, <1>6, <1>8, <1>9 DEF TypeOK
<1>11. del'[d] = e /\ \A c \in Deleters \ {d} : del'[c] = del[c]
  BY <1>1, <1>5 DEF TypeOK
<1>12. IsFiniteSet(rows) /\ IsFiniteSet(rows')
  BY <1>1, <1>9, FS_Subset DEF TablesOK, RowsKnown
<1>13. RequestsOK'
  <2>1. SUFFICES ASSUME NEW p \in Requests PROVE RequestOK(p, req[p])'
    BY DEF RequestsOK
  <2>2. PICK j \in RequestLocals : j = req[p]
    BY <1>1 DEF TypeOK
  <2>3. RequestOK(p, j)
    BY <1>1, <2>2 DEF RequestsOK
  <2>4. owner'[j.receipt] = owner[j.receipt] \/ (owner'[j.receipt] = Nobody /\ j.inserted = {})
    BY <1>4, <1>8, <2>2, <2>3 DEF RequestOK, InsertedOK, Locked
  <2>5. j.upload /\ j.pc \in Storing =>
            /\ \A q \in Requests \ {p} : req'[q].receipt # j.receipt
            /\ \A c \in Deleters : del'[c].receipt # j.receipt
    BY <1>2, <1>4, <1>6, <1>11, <2>2, <2>3 DEF RequestOK, FreshOK
  <2>6. RequestOK(p, j)'
    BY <1>1, <1>4, <1>9, <1>10, <1>12, <2>2, <2>3, <2>4, <2>5, RequestStands
  <2> QED BY <1>4, <2>2, <2>6, SameRequest
<1>14. RowsHaveImages' /\ RowsBelongToOwner'
  BY <1>1, <1>4, <1>8, <1>9 DEF TablesOK, RowsHaveImages, RowsBelongToOwner
<1>15. ReceiptsHaveImages'
  BY <1>1, <1>8, <1>9 DEF TablesOK, ReceiptsHaveImages, RowsOf
<1>16. CapHolds'
  <2>1. SUFFICES ASSUME NEW s \in Receipts PROVE Cardinality(RowsOf(s)') <= MaxImages
    BY DEF CapHolds, RowsOf
  <2>2. RowsOf(s)' \subseteq RowsOf(s) /\ IsFiniteSet(RowsOf(s))
    BY <1>9, <1>12, RowsCounted DEF RowsOf
  <2>3. Cardinality(RowsOf(s)') <= Cardinality(RowsOf(s)) /\ Cardinality(RowsOf(s)') \in Nat
        /\ Cardinality(RowsOf(s)) \in Nat
    BY <2>2, FS_Subset, FS_CardinalityType
  <2> QED BY <1>1, <2>3, UploadsAssumption DEF TablesOK, CapHolds
<1>17. BatchAllOrNothing'
  <2>1. SUFFICES ASSUME NEW p \in Requests, {row \in rows' : row.key[1] = p} # {}
                 PROVE  Cardinality({row \in rows' : row.key[1] = p}) = Len(req[p].batch)
    BY <1>4 DEF BatchAllOrNothing
  <2>2. {row \in rows' : row.key[1] = p} = {row \in rows : row.key[1] = p}
    BY <1>1, <1>9, <2>1 DEF TablesOK, RowsKnown
  <2> QED BY <1>1, <2>1, <2>2 DEF TablesOK, BatchAllOrNothing
<1>18. RowsKnown'
  BY <1>1, <1>4, <1>8, <1>9, <1>12 DEF TablesOK, RowsKnown
<1>19. DeletesKnow'
  <2>1. SUFFICES ASSUME NEW c \in Deleters, del'[c].pc # "idle"
                 PROVE  /\ del'[c].receipt \in used
                        /\ \A key \in del'[c].keys : req[key[1]].pc = "done" /\ req[key[1]].receipt = del'[c].receipt
                        /\ del'[c].pc = "deleted" => owner'[del'[c].receipt] = Nobody
                        /\ del'[c].pc = "listed" => \A row \in rows' : row.receipt = del'[c].receipt =>
                               (req[row.key[1]].upload => row.key \in del'[c].keys)
    BY <1>4 DEF DeletesKnow, RowsOf
  <2>2. CASE c = d
    BY <1>6, <1>7, <1>8, <1>11, <2>2
  <2>3. CASE c # d
    BY <1>1, <1>8, <1>9, <1>11, <2>1, <2>3 DEF TablesOK, DeletesKnow, RowsOf
  <2> QED BY <2>2, <2>3
<1>20. IdleDeletes'
  BY <1>1, <1>6, <1>11 DEF TablesOK, IdleDeletes
<1>21. OrphansHaveReasons'
  <2>1. SUFFICES ASSUME faults = 0, NEW key \in store
                 PROVE  \/ \E row \in rows' : row.key = key
                        \/ req[key[1]].pc \in {"put", "insert"}
                        \/ \E c \in Deleters : del'[c].pc = "deleted" /\ key \in del'[c].keys
                        \/ ~req[key[1]].upload /\ owner'[req[key[1]].receipt] = Nobody
    BY <1>4 DEF OrphansHaveReasons
  <2>2. ASSUME NEW row \in rows, row.key = key, row.receipt = r
        PROVE  \/ del'[d].pc = "deleted" /\ key \in del'[d].keys
               \/ ~req[key[1]].upload /\ owner'[req[key[1]].receipt] = Nobody
    <3>1. owner[r] = row.user /\ req[key[1]].receipt = r
      BY <1>1, <2>2 DEF TablesOK, RowsBelongToOwner, RowsKnown
    <3>2. owner[r] # Nobody
      BY <1>1, <2>2, <3>1, RowFields, UploadsAssumption DEF TypeOK
    <3> QED BY <1>6, <1>7, <1>8, <1>11, <2>2, <3>1, <3>2 DEF RowsOf
  <2>3. ASSUME NEW c \in Deleters, del[c].pc = "deleted" PROVE del'[c] = del[c]
    BY <1>4, <1>11, <2>3
  <2> QED BY <1>1, <1>8, <1>9, <2>1, <2>2, <2>3 DEF TablesOK, OrphansHaveReasons
<1>22. TablesOK'
  BY <1>14, <1>15, <1>16, <1>17, <1>18, <1>19, <1>20, <1>21 DEF TablesOK
<1> QED BY <1>10, <1>13, <1>22 DEF UploadsInvariant

-----------------------------------------------------------------------------
(* A request that ends forgets its rows and keeps the rest of its locals. *)
LEMMA EndedLocals ==
    ASSUME NEW l \in RequestLocals
    PROVE  LET e == [l EXCEPT !.pc = "done", !.inserted = {}]
           IN  /\ e \in RequestLocals /\ e.pc = "done" /\ e.inserted = {} /\ e.user = l.user
               /\ e.receipt = l.receipt /\ e.upload = l.upload /\ e.batch = l.batch
  BY DEF RequestLocals

LEMMA CrashKeeps ==
    ASSUME UploadsInvariant, Crash
    PROVE  UploadsInvariant'
<1>1. TypeOK /\ RequestsOK /\ TablesOK
  BY DEF UploadsInvariant
<1>2. UNCHANGED <<owner, used, rows, store>> /\ faults' \in 0..MaxFaults /\ faults' # 0
  <2>1. UNCHANGED <<owner, used, rows, store>> /\ faults < MaxFaults /\ faults' = faults + 1
    BY DEF Crash, Fault
  <2>2. faults \in 0..MaxFaults
    BY <1>1 DEF TypeOK
  <2> QED BY <2>1, <2>2, UploadsAssumption
<1>3. \A p \in Requests : req'[p] \in RequestLocals /\
          IF req[p].pc = "idle" THEN req'[p] = req[p]
          ELSE /\ req'[p].pc = "done" /\ req'[p].inserted = {} /\ req'[p].user = req[p].user
               /\ req'[p].receipt = req[p].receipt /\ req'[p].upload = req[p].upload
               /\ req'[p].batch = req[p].batch
  <2>1. SUFFICES ASSUME NEW p \in Requests
                 PROVE  req'[p] \in RequestLocals /\
                            IF req[p].pc = "idle" THEN req'[p] = req[p]
                            ELSE /\ req'[p].pc = "done" /\ req'[p].inserted = {} /\ req'[p].user = req[p].user
                                 /\ req'[p].receipt = req[p].receipt /\ req'[p].upload = req[p].upload
                                 /\ req'[p].batch = req[p].batch
    OBVIOUS
  <2>2. req'[p] = IF req[p].pc = "idle" THEN req[p] ELSE [req[p] EXCEPT !.pc = "done", !.inserted = {}]
    BY DEF Crash
  <2>3. req[p] \in RequestLocals
    BY <1>1 DEF TypeOK
  <2> QED BY <2>2, <2>3, EndedLocals
<1>4. \A d \in Deleters : del'[d] \in DeleteLocals /\
          IF del[d].pc = "idle" THEN del'[d] = del[d]
          ELSE del'[d].pc = "done" /\ del'[d].receipt = del[d].receipt /\ del'[d].keys = del[d].keys
  <2>1. SUFFICES ASSUME NEW d \in Deleters
                 PROVE  del'[d] \in DeleteLocals /\
                            IF del[d].pc = "idle" THEN del'[d] = del[d]
                            ELSE del'[d].pc = "done" /\ del'[d].receipt = del[d].receipt /\ del'[d].keys = del[d].keys
    OBVIOUS
  <2>2. del'[d] = IF del[d].pc = "idle" THEN del[d] ELSE [del[d] EXCEPT !.pc = "done"]
    BY DEF Crash
  <2>3. del[d] \in DeleteLocals
    BY <1>1 DEF TypeOK
  <2> QED BY <2>2, <2>3 DEF DeleteLocals
<1>5. req' \in [Requests -> RequestLocals] /\ del' \in [Deleters -> DeleteLocals]
      /\ lock' \in [Users -> Requests \cup {Nobody}]
  <2>1. DOMAIN req' = Requests /\ req' = [p \in Requests |-> req'[p]]
    BY DEF Crash
  <2>2. DOMAIN del' = Deleters /\ del' = [d \in Deleters |-> del'[d]]
    BY DEF Crash
  <2>3. lock' = [u \in Users |-> Nobody]
    BY DEF Crash
  <2> QED BY <1>3, <1>4, <2>1, <2>2, <2>3
<1>6. TypeOK'
  BY <1>1, <1>2, <1>5 DEF TypeOK
<1>7. RequestsOK'
  <2>1. SUFFICES ASSUME NEW p \in Requests PROVE RequestOK(p, req[p])'
    BY DEF RequestsOK
  <2>2. PICK k \in RequestLocals : k = req'[p]
    BY <1>3
  <2>3. RequestOK(p, req[p])
    BY <1>1 DEF RequestsOK
  <2>4. k.pc \in {"idle", "done"} /\ k.inserted = {} /\ k.user = req[p].user /\ k.receipt = req[p].receipt
        /\ k.upload = req[p].upload /\ k.batch = req[p].batch /\ (k.pc = "idle" => req[p] = k)
        /\ (req[p].pc = "idle" => k.pc = "idle")
    BY <1>3, <2>2, <2>3 DEF RequestOK, InsertedOK, Storing
  <2>5. ShapeOK(k)' /\ LockOK(p, k)' /\ AttachOK(k)' /\ CheckedOK(k)' /\ StoredOK(p, k)'
    BY <1>2, <2>3, <2>4 DEF RequestOK, ShapeOK, LockOK, AttachOK, CheckedOK, StoredOK, Storing, Working
  <2>6. FreshOK(p, k)'
    BY <1>2, <2>3, <2>4 DEF RequestOK, FreshOK, Storing
  <2>7. RequestOK(p, k)'
    BY <2>4, <2>5, <2>6, NothingInserted DEF RequestOK
  <2> QED BY <2>2, <2>7, SameRequest
<1>8. RowsHaveImages' /\ RowsBelongToOwner' /\ ReceiptsHaveImages' /\ CapHolds'
  BY <1>1, <1>2 DEF TablesOK, RowsHaveImages, RowsBelongToOwner, ReceiptsHaveImages, CapHolds, RowsOf
<1>9. \A p \in Requests : req'[p].batch = req[p].batch
  BY <1>3
<1>10. BatchAllOrNothing'
  BY <1>1, <1>2, <1>9 DEF TablesOK, BatchAllOrNothing
<1>11. \A p \in Requests : req[p].pc = "done" => req'[p].pc = "done" /\ req'[p].receipt = req[p].receipt
  BY <1>3
<1>12. RowsKnown'
  <2>1. \A row \in rows : row.key[1] \in Requests
    BY <1>1, RowFields DEF TypeOK
  <2> QED BY <1>1, <1>2, <1>11, <2>1 DEF TablesOK, RowsKnown
<1>13. DeletesKnow'
  <2>1. SUFFICES ASSUME NEW d \in Deleters, del'[d].pc # "idle"
                 PROVE  /\ del'[d].receipt \in used
                        /\ \A key \in del'[d].keys : req'[key[1]].pc = "done" /\ req'[key[1]].receipt = del'[d].receipt
                        /\ del'[d].pc = "done"
    BY <1>2 DEF DeletesKnow
  <2>2. del[d].pc # "idle"
    BY <1>4, <2>1
  <2>3. /\ del[d].receipt \in used
        /\ \A key \in del[d].keys : req[key[1]].pc = "done" /\ req[key[1]].receipt = del[d].receipt
    BY <1>1, <2>2 DEF TablesOK, DeletesKnow
  <2>4. \A key \in del[d].keys : key[1] \in Requests
    BY <1>1 DEF TypeOK, DeleteLocals, Keys
  <2> QED BY <1>4, <1>11, <2>1, <2>2, <2>3, <2>4
<1>14. IdleDeletes' /\ OrphansHaveReasons'
  BY <1>1, <1>2, <1>4 DEF TablesOK, IdleDeletes, OrphansHaveReasons
<1>15. TablesOK'
  BY <1>8, <1>10, <1>12, <1>13, <1>14 DEF TablesOK
<1> QED BY <1>6, <1>7, <1>15 DEF UploadsInvariant

LEMMA NothingHappensKeeps ==
    ASSUME UploadsInvariant, UNCHANGED vars
    PROVE  UploadsInvariant'
<1>1. TypeOK /\ RequestsOK /\ TablesOK /\ TypeOK' /\ IsFiniteSet(rows)
  BY DEF UploadsInvariant, TypeOK, vars, TablesOK, RowsKnown
<1>2. RequestsOK'
  <2>1. SUFFICES ASSUME NEW p \in Requests PROVE RequestOK(p, req[p])'
    BY DEF RequestsOK
  <2>2. PICK j \in RequestLocals : j = req[p]
    BY <1>1 DEF TypeOK
  <2>3. RequestOK(p, j)
    BY <1>1, <2>2 DEF RequestsOK
  <2>4. j.upload /\ j.pc \in Storing =>
            /\ \A q \in Requests \ {p} : req'[q].receipt # j.receipt
            /\ \A c \in Deleters : del'[c].receipt # j.receipt
    BY <2>3 DEF RequestOK, FreshOK, vars
  <2>5. RequestOK(p, j)'
    BY <1>1, <2>3, <2>4, RequestStands DEF vars
  <2> QED BY <2>2, <2>5, SameRequest DEF vars
<1>3. TablesOK'
  BY <1>1 DEF TablesOK, RowsHaveImages, RowsBelongToOwner, ReceiptsHaveImages, CapHolds, BatchAllOrNothing,
     RowsKnown, DeletesKnow, IdleDeletes, OrphansHaveReasons, RowsOf, vars
<1> QED BY <1>1, <1>2, <1>3 DEF UploadsInvariant

LEMMA UploadsInit ==
    ASSUME Init
    PROVE  UploadsInvariant
<1>1. NoRequest \in RequestLocals
  BY Zenon DEF NoRequest, RequestLocals
<1>2. NoDelete \in DeleteLocals
  BY DEF NoDelete, DeleteLocals
<1>3. /\ \A q \in Requests : req[q] = NoRequest
      /\ \A d \in Deleters : del[d] = NoDelete
      /\ rows = {} /\ store = {} /\ used = Manual /\ \A r \in Receipts : owner[r] # Nobody => r \in Manual
  BY DEF Init
<1>4. TypeOK
  <2>1. owner \in [Receipts -> Users \cup {Nobody}]
    BY DEF Init
  <2>2. req \in [Requests -> RequestLocals] /\ del \in [Deleters -> DeleteLocals]
    BY <1>1, <1>2 DEF Init
  <2> QED BY <2>1, <2>2, UploadsAssumption DEF Init, TypeOK
<1>5. RequestsOK
  <2>1. SUFFICES ASSUME NEW q \in Requests PROVE RequestOK(q, req[q])
    BY DEF RequestsOK
  <2>2. req[q].pc = "idle" /\ req[q].upload = FALSE /\ req[q].inserted = {} /\ req[q].batch = <<>>
        /\ req[q].receipt = Nobody
    BY <1>3 DEF NoRequest
  <2>3. Len(req[q].batch) = 0
    BY <2>2
  <2>4. InsertedOK(q, req[q])
    BY <2>2, <2>3, FS_EmptySet DEF InsertedOK
  <2>5. ShapeOK(req[q]) /\ LockOK(q, req[q]) /\ PlacedOK(q, req[q]) /\ StoredOK(q, req[q])
    BY <1>3, <2>2 DEF ShapeOK, LockOK, PlacedOK, StoredOK, Working, Storing
  <2>6. FreshOK(q, req[q]) /\ AttachOK(req[q]) /\ CheckedOK(req[q])
    BY <2>2 DEF FreshOK, AttachOK, CheckedOK
  <2> QED BY <2>4, <2>5, <2>6 DEF RequestOK
<1>6. RowsKnown /\ DeletesKnow /\ IdleDeletes
  BY <1>3, FS_EmptySet DEF RowsKnown, DeletesKnow, IdleDeletes, NoDelete
<1>7. \A r : RowsOf(r) = {}
  BY <1>3 DEF RowsOf
<1>8. CapHolds /\ ReceiptsHaveImages
  BY <1>3, <1>7, FS_EmptySet, UploadsAssumption DEF CapHolds, ReceiptsHaveImages
<1>9. RowsHaveImages /\ RowsBelongToOwner /\ BatchAllOrNothing /\ OrphansHaveReasons
  BY <1>3 DEF RowsHaveImages, RowsBelongToOwner, BatchAllOrNothing, OrphansHaveReasons
<1>10. TablesOK
  BY <1>6, <1>8, <1>9 DEF TablesOK
<1> QED BY <1>4, <1>5, <1>10 DEF UploadsInvariant

LEMMA UploadsStep ==
    ASSUME UploadsInvariant, [Next]_vars
    PROVE  UploadsInvariant'
<1>1. ASSUME NEW q \in Requests, StartUpload(q) \/ StartAdd(q) \/ LockFails(q) \/ CallFails(q)
      PROVE  UploadsInvariant'
  BY <1>1, StartUploadKeeps, StartAddKeeps, LockFailsKeeps, CallFailsKeeps
<1>2. ASSUME NEW q \in Requests, RequestStep(q) PROVE UploadsInvariant'
  BY <1>2, LockKeeps, CheckKeeps, RefusalsKeep, InsertReceiptKeeps, PutImageKeeps, InsertImageKeeps, CommitKeeps
  DEF RequestStep
<1>3. ASSUME NEW d \in Deleters, NEW r \in Receipts, DeleteList(d, r) PROVE UploadsInvariant'
  BY <1>3, DeleteListKeeps
<1>4. ASSUME NEW d \in Deleters, DeleteStep(d) \/ RemoveFails(d) PROVE UploadsInvariant'
  BY <1>4, DeleteRowKeeps, RemoveKeeps DEF DeleteStep
<1>5. CASE Crash
  BY <1>5, CrashKeeps
<1>6. CASE UNCHANGED vars
  BY <1>6, NothingHappensKeeps
<1> QED BY <1>1, <1>2, <1>3, <1>4, <1>5, <1>6 DEF Next, Finished

-----------------------------------------------------------------------------
(* UploadsInvariant is inductive: uploads, attaches, deletes, failed calls *)
(* and crashes keep it, in any number and any order.                       *)
THEOREM UploadsCorrect == Spec => []UploadsInvariant
  BY UploadsInit, UploadsStep, PTL DEF Spec

(* The tables, the object store and the coroutines' locals have their      *)
(* types.                                                                  *)
THEOREM UploadsTypeCorrect == Spec => []TypeOK
<1>1. UploadsInvariant => TypeOK
  BY DEF UploadsInvariant
<1> QED BY <1>1, UploadsCorrect, PTL

(* No row of receipt_images names an object that is not in S3, whatever    *)
(* fails between storeImages' PUTs and INSERTs.                            *)
THEOREM ImagesAreThere == Spec => []RowsHaveImages
<1>1. UploadsInvariant => RowsHaveImages
  BY DEF UploadsInvariant, TablesOK
<1> QED BY <1>1, UploadsCorrect, PTL

(* A batch of images is committed whole or not at all. *)
THEOREM BatchIsAtomic == Spec => []BatchAllOrNothing
<1>1. UploadsInvariant => BatchAllOrNothing
  BY DEF UploadsInvariant, TablesOK
<1> QED BY <1>1, UploadsCorrect, PTL

(* Racing attaches never push a receipt over MAX_IMAGES_PER_RECEIPT. *)
THEOREM CapIsKept == Spec => []CapHolds
<1>1. UploadsInvariant => CapHolds
  BY DEF UploadsInvariant, TablesOK
<1> QED BY <1>1, UploadsCorrect, PTL

(* An uploaded receipt has an image as long as it exists. *)
THEOREM UploadedHaveImages == Spec => []ReceiptsHaveImages
<1>1. UploadsInvariant => ReceiptsHaveImages
  BY DEF UploadsInvariant, TablesOK
<1> QED BY <1>1, UploadsCorrect, PTL

(* An image row's user owns its receipt, which exists. *)
THEOREM OwnersAgree == Spec => []RowsBelongToOwner
<1>1. UploadsInvariant => RowsBelongToOwner
  BY DEF UploadsInvariant, TablesOK
<1> QED BY <1>1, UploadsCorrect, PTL

-----------------------------------------------------------------------------
(* Without faults an attach loses its receipt to a delete that has taken   *)
(* it, and what a delete has listed it has removed or is about to.         *)
LostToDelete ==
    faults = 0 =>
        \A q \in Requests :
            ~req[q].upload /\ req[q].receipt \in Receipts /\ owner[req[q].receipt] = Nobody =>
                \E d \in Deleters : del[d].pc = "deleted" /\ del[d].receipt = req[q].receipt

ListedGo ==
    faults = 0 =>
        \A d \in Deleters : \A key \in del[d].listed :
            /\ req[key[1]].pc = "done"
            /\ key \in del[d].keys \/ key \notin store

DeletesExplain == LostToDelete /\ ListedGo

(* A step of the requests that leaves the deletes alone. *)
LEMMA RequestExplains ==
    ASSUME UploadsInvariant, DeletesExplain, UNCHANGED del, faults' = 0 => faults = 0,
           NEW q \in Requests, req[q].pc # "done",
           \A p \in Requests \ {q} : req'[p] = req[p],
           \A r \in Receipts : owner'[r] = Nobody => owner[r] = Nobody,
           faults' = 0 /\ ~req'[q].upload /\ req'[q].receipt \in Receipts =>
               \/ owner'[req'[q].receipt] # Nobody
               \/ ~req[q].upload /\ req'[q].receipt = req[q].receipt,
           \A key \in store' : key \in store \/ key[1] = q
    PROVE  DeletesExplain'
<1>1. del \in [Deleters -> DeleteLocals]
  BY DEF UploadsInvariant, TypeOK
<1>2. LostToDelete'
  BY DEF DeletesExplain, LostToDelete
<1>3. ListedGo'
  <2>1. SUFFICES ASSUME faults' = 0, NEW d \in Deleters, NEW key \in del[d].listed
                 PROVE  /\ req'[key[1]].pc = "done"
                        /\ key \in del[d].keys \/ key \notin store'
    BY DEF ListedGo
  <2>2. req[key[1]].pc = "done" /\ (key \in del[d].keys \/ key \notin store)
    BY <2>1 DEF DeletesExplain, ListedGo
  <2>3. key[1] \in Requests \ {q}
    BY <1>1, <2>2 DEF DeleteLocals, Keys
  <2> QED BY <2>2, <2>3
<1> QED BY <1>2, <1>3 DEF DeletesExplain

LEMMA RequestStepExplains ==
    ASSUME UploadsInvariant, DeletesExplain, NEW q \in Requests,
           StartUpload(q) \/ StartAdd(q) \/ RequestStep(q)
    PROVE  DeletesExplain'
<1>1. TypeOK /\ RequestOK(q, req[q]) /\ req[q] \in RequestLocals /\ UploadsInvariant'
  BY UploadsStep DEF UploadsInvariant, RequestsOK, TypeOK, Next
<1>2. CASE StartUpload(q)
  <2>1. req[q] = NoRequest /\ UNCHANGED <<owner, store, del, faults>>
    BY <1>2 DEF StartUpload
  <2>2. \A p \in Requests \ {q} : req'[p] = req[p]
    BY <1>1, <1>2 DEF StartUpload, TypeOK
  <2>3. req'[q].upload
    BY <1>1, <1>2 DEF StartUpload, TypeOK, NoRequest
  <2> QED BY <2>1, <2>2, <2>3, RequestExplains DEF NoRequest
<1>3. CASE StartAdd(q)
  <2>1. req[q] = NoRequest /\ UNCHANGED <<owner, store, del, faults>>
    BY <1>3 DEF StartAdd
  <2>2. \A p \in Requests \ {q} : req'[p] = req[p]
    BY <1>1, <1>3 DEF StartAdd, TypeOK
  <2>3. owner[req'[q].receipt] # Nobody
    BY <1>1, <1>3 DEF StartAdd, TypeOK, NoRequest
  <2> QED BY <2>1, <2>2, <2>3, RequestExplains DEF NoRequest
<1>4. CASE RequestStep(q)
  <2>1. req[q].pc # "done" /\ UNCHANGED <<del, faults>>
    BY <1>4 DEF RequestStep, Lock, CountImages, TooManyImages, NoConflict, ConflictFound, InsertReceipt,
       PutImage, InsertImage, InsertRefused, Commit, Moves, Rollback, Ends
  <2>2. \A p \in Requests \ {q} : req'[p] = req[p]
    BY <1>1, <1>4 DEF RequestStep, Lock, CountImages, TooManyImages, NoConflict, ConflictFound,
       InsertReceipt, PutImage, InsertImage, InsertRefused, Commit, Moves, Rollback, Ends, TypeOK
  <2>3. \A key \in store' : key \in store \/ key[1] = q
    BY <1>4 DEF RequestStep, Lock, CountImages, TooManyImages, NoConflict, ConflictFound, InsertReceipt,
       PutImage, InsertImage, InsertRefused, Commit, Moves, Rollback, Ends
  <2>4. \A r \in Receipts : owner'[r] = Nobody => owner[r] = Nobody
    <3>1. CASE Commit(q)
      <4>1. req[q].user # Nobody
        BY <1>1, <3>1, UploadsAssumption DEF Commit, RequestOK, ShapeOK
      <4> QED BY <1>1, <3>1, <4>1 DEF Commit, TypeOK
    <3>2. CASE ~Commit(q)
      BY <1>4, <3>2 DEF RequestStep, Lock, CountImages, TooManyImages, NoConflict, ConflictFound,
         InsertReceipt, PutImage, InsertImage, InsertRefused, Moves, Rollback
    <3> QED BY <3>1, <3>2
  <2>5. CASE InsertReceipt(q)
    <3>1. req'[q].upload
      BY <1>1, <2>5 DEF InsertReceipt, RequestOK, ShapeOK, TypeOK, RequestLocals
    <3> QED BY <2>1, <2>2, <2>3, <2>4, <3>1, RequestExplains
  <2>6. CASE ~InsertReceipt(q)
    <3>1. req'[q].upload = req[q].upload /\ req'[q].receipt = req[q].receipt
      BY <1>1, <1>4, <2>6 DEF RequestStep, Lock, CountImages, TooManyImages, NoConflict, ConflictFound,
         PutImage, InsertImage, InsertRefused, Commit, Moves, Rollback, Ends, TypeOK, RequestLocals
    <3> QED BY <2>1, <2>2, <2>3, <2>4, <3>1, RequestExplains
  <2> QED BY <2>5, <2>6
<1> QED BY <1>2, <1>3, <1>4

LEMMA DeleteExplains ==
    ASSUME UploadsInvariant, DeletesExplain, NEW d \in Deleters,
           (\E r \in Receipts : DeleteList(d, r)) \/ DeleteStep(d)
    PROVE  DeletesExplain'
<1>1. TypeOK /\ TablesOK /\ del[d] \in DeleteLocals /\ del \in [Deleters -> DeleteLocals]
      /\ owner \in [Receipts -> Users \cup {Nobody}]
  BY DEF UploadsInvariant, TypeOK
<1>2. CASE \E r \in Receipts : DeleteList(d, r)
  <2>1. PICK r \in Receipts :
            /\ del[d] = NoDelete /\ UNCHANGED <<owner, store, req, faults>>
            /\ del' = [del EXCEPT ![d] = [pc |-> "listed", receipt |-> r, keys |-> KeysOf(r),
                                          listed |-> {row.key : row \in RowsOf(r)}]]
    BY <1>2 DEF DeleteList
  <2>2. /\ \A c \in Deleters \ {d} : del'[c] = del[c]
        /\ del'[d].pc = "listed" /\ del'[d].listed = KeysOf(r) /\ del'[d].keys = KeysOf(r)
    BY <1>1, <2>1 DEF KeysOf
  <2>3. LostToDelete'
    BY <2>1, <2>2 DEF DeletesExplain, LostToDelete, NoDelete
  <2>4. \A key \in KeysOf(r) : req[key[1]].pc = "done"
    BY <1>1 DEF KeysOf, RowsOf, TablesOK, RowsKnown
  <2>5. ListedGo'
    BY <2>1, <2>2, <2>4 DEF DeletesExplain, ListedGo
  <2> QED BY <2>3, <2>5 DEF DeletesExplain
<1>3. CASE DeleteRow(d)
  <2>1. PICK r : r = del[d].receipt
    OBVIOUS
  <2>2. /\ del[d].pc = "listed" /\ owner' = [owner EXCEPT ![r] = Nobody]
        /\ UNCHANGED <<store, req, faults>>
    BY <1>3, <2>1 DEF DeleteRow
  <2>3. /\ \A c \in Deleters \ {d} : del'[c] = del[c]
        /\ del'[d].pc = (IF owner[r] = Nobody THEN "done" ELSE "deleted")
        /\ del'[d].receipt = r /\ del'[d].listed = del[d].listed /\ del'[d].keys = del[d].keys
    BY <1>1, <1>3, <2>1 DEF DeleteRow, DeleteLocals
  <2>4. LostToDelete'
    <3>1. SUFFICES ASSUME faults = 0, NEW q \in Requests, ~req[q].upload, req[q].receipt \in Receipts,
                          owner'[req[q].receipt] = Nobody
                   PROVE  \E c \in Deleters : del'[c].pc = "deleted" /\ del'[c].receipt = req[q].receipt
      BY <2>2 DEF LostToDelete
    <3>2. CASE owner[req[q].receipt] = Nobody
      <4>1. PICK c \in Deleters : del[c].pc = "deleted" /\ del[c].receipt = req[q].receipt
        BY <3>1, <3>2 DEF DeletesExplain, LostToDelete
      <4> QED BY <2>2, <2>3, <4>1
    <3>3. CASE owner[req[q].receipt] # Nobody
      <4>1. req[q].receipt = r
        BY <1>1, <2>2, <3>1, <3>3
      <4> QED BY <2>3, <3>3, <4>1
    <3> QED BY <3>2, <3>3
  <2>5. ListedGo'
    BY <2>2, <2>3 DEF DeletesExplain, ListedGo
  <2> QED BY <2>4, <2>5 DEF DeletesExplain
<1>4. CASE RemoveObject(d)
  <2>1. PICK gone \in del[d].keys :
            /\ store' = store \ {gone} /\ del' = [del EXCEPT ![d].keys = @ \ {gone}]
            /\ UNCHANGED <<owner, req, faults>>
    BY <1>4 DEF RemoveObject
  <2>2. /\ \A c \in Deleters \ {d} : del'[c] = del[c]
        /\ del'[d].pc = del[d].pc /\ del'[d].receipt = del[d].receipt
        /\ del'[d].listed = del[d].listed /\ del'[d].keys = del[d].keys \ {gone}
    BY <1>1, <2>1 DEF DeleteLocals
  <2>3. LostToDelete'
    BY <2>1, <2>2 DEF DeletesExplain, LostToDelete
  <2>4. ListedGo'
    BY <2>1, <2>2 DEF DeletesExplain, ListedGo
  <2> QED BY <2>3, <2>4 DEF DeletesExplain
<1> QED BY <1>2, <1>3, <1>4 DEF DeleteStep

LEMMA ExplainsStep ==
    ASSUME UploadsInvariant, DeletesExplain, [Next]_vars
    PROVE  DeletesExplain'
<1>1. CASE UNCHANGED vars
  BY <1>1 DEF vars, DeletesExplain, LostToDelete, ListedGo
<1>2. CASE Fault
  <2>1. faults' # 0
    BY <1>2 DEF Fault, UploadsInvariant, TypeOK
  <2> QED BY <2>1 DEF DeletesExplain, LostToDelete, ListedGo
<1>3. ASSUME NEW q \in Requests, LockFails(q) \/ CallFails(q) PROVE Fault
  BY <1>3 DEF LockFails, CallFails
<1>4. ASSUME NEW d \in Deleters, RemoveFails(d) PROVE Fault
  BY <1>4 DEF RemoveFails
<1> QED BY <1>1, <1>2, <1>3, <1>4, RequestStepExplains, DeleteExplains DEF Next, Finished, Crash

LEMMA ExplainsInit == Init => DeletesExplain
<1> SUFFICES ASSUME Init PROVE DeletesExplain
  OBVIOUS
<1>1. \A d \in Deleters : del[d].listed = {}
  BY DEF Init, NoDelete
<1>2. \A q \in Requests : req[q].receipt \notin Receipts
  BY UploadsAssumption DEF Init, NoRequest
<1> QED BY <1>1, <1>2 DEF DeletesExplain, LostToDelete, ListedGo

(* Without failed calls the only objects left behind are those of attaches *)
(* that lost their receipt to a delete whose SELECT did not see them.      *)
THEOREM OrphansExplained == Spec => []OrphansAreExplained
<1>1. UploadsInvariant /\ DeletesExplain => OrphansAreExplained
  <2>1. SUFFICES ASSUME UploadsInvariant, DeletesExplain, faults = 0, NEW key \in store,
                        ~\E row \in rows : row.key = key,
                        req[key[1]].pc \notin {"put", "insert"},
                        ~\E d \in Deleters : del[d].pc = "deleted" /\ key \in del[d].keys
                 PROVE  /\ ~req[key[1]].upload
                        /\ \E d \in Deleters : /\ del[d].pc = "deleted"
                                               /\ del[d].receipt = req[key[1]].receipt
                                               /\ key \notin del[d].listed
    BY DEF OrphansAreExplained
  <2>2. ~req[key[1]].upload /\ owner[req[key[1]].receipt] = Nobody
    BY <2>1 DEF UploadsInvariant, TablesOK, OrphansHaveReasons
  <2>3. PICK q \in Requests, i \in 1..MaxBatch : key = <<q, i>>
    BY <2>1 DEF UploadsInvariant, TypeOK, Keys
  <2>4. RequestOK(q, req[q]) /\ RequestsOK /\ TypeOK
    BY <2>1 DEF UploadsInvariant, RequestsOK
  <2>5. req[q].pc = "done"
    BY <2>1, <2>3, <2>4, NothingStored DEF Storing
  <2>6. req[q].receipt \in Receipts
    BY <2>2, <2>3, <2>4, <2>5 DEF RequestOK, ShapeOK
  <2>7. PICK d \in Deleters : del[d].pc = "deleted" /\ del[d].receipt = req[q].receipt
    BY <2>1, <2>2, <2>3, <2>6 DEF DeletesExplain, LostToDelete
  <2>8. key \notin del[d].listed
    BY <2>1, <2>7 DEF DeletesExplain, ListedGo
  <2> QED BY <2>2, <2>3, <2>7, <2>8
<1> QED BY <1>1, UploadsCorrect, ExplainsInit, ExplainsStep, PTL DEF Spec

-----------------------------------------------------------------------------
(* Rows appear when a request commits, and are those it inserted. *)
LEMMA RowsAppear ==
    ASSUME [Next]_vars, NEW new \in rows' \ rows
    PROVE  \E q \in Requests : Commit(q) /\ new \in req[q].inserted
<1>1. ASSUME NEW q \in Requests, StartUpload(q) \/ StartAdd(q) \/ LockFails(q) \/ CallFails(q)
      PROVE  rows' = rows
  BY <1>1 DEF StartUpload, StartAdd, LockFails, CallFails, Rollback
<1>2. ASSUME NEW q \in Requests, RequestStep(q), ~Commit(q) PROVE rows' = rows
  BY <1>2 DEF RequestStep, Lock, CountImages, TooManyImages, NoConflict, ConflictFound, InsertReceipt,
     PutImage, InsertImage, InsertRefused, Moves, Rollback
<1>3. ASSUME NEW d \in Deleters, (\E r \in Receipts : DeleteList(d, r)) \/ DeleteStep(d) \/ RemoveFails(d)
      PROVE  rows' \subseteq rows
  BY <1>3 DEF DeleteList, DeleteStep, DeleteRow, RemoveObject, RemoveFails
<1>4. CASE Crash \/ UNCHANGED vars
  BY <1>4 DEF Crash, vars
<1>5. ASSUME NEW q \in Requests, Commit(q) PROVE new \in req[q].inserted
  BY <1>5 DEF Commit
<1> QED BY <1>1, <1>2, <1>3, <1>4, <1>5 DEF Next, Finished

(* An unforced request never adds an image its user has from another       *)
(* request, however the two interleave (lockUserImages).                   *)
THEOREM NoDuplicateAdded == Spec => UnforcedAddsNoDuplicate
<1>1. ASSUME UploadsInvariant, [Next]_vars, NEW new \in rows' \ rows, NEW old \in rows,
             new.user = old.user, new.sha = old.sha
      PROVE  req[new.key[1]].force
  <2>1. PICK q \in Requests : Commit(q) /\ new \in req[q].inserted
    BY <1>1, RowsAppear
  <2>2. RequestOK(q, req[q]) /\ req[q].pc = "put"
    BY <1>1, <2>1 DEF UploadsInvariant, RequestsOK, Commit
  <2>3. new.user = req[q].user /\ new.key[1] = q /\ new.sha \in ShasOf(req[q].batch)
    BY <2>1, <2>2 DEF RequestOK, InsertedOK
  <2> QED BY <1>1, <2>2, <2>3 DEF RequestOK, CheckedOK
<1>2. UploadsInvariant /\ [Next]_vars =>
          [\A new \in rows' \ rows, old \in rows :
               /\ new.user = old.user
               /\ new.sha = old.sha
               /\ new.key[1] # old.key[1]
               => req[new.key[1]].force]_vars
  BY <1>1
<1> QED BY <1>2, UploadsCorrect, PTL DEF Spec, UnforcedAddsNoDuplicate

=============================================================================
