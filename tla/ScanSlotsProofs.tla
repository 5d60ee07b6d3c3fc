-------------------------- MODULE ScanSlotsProofs ---------------------------
(***************************************************************************)
(* How far racing ticks may exceed SCAN_CONCURRENCY.  Every row in         *)
(* `scanning` can be given a slot of some tick of its own, and the slots a *)
(* tick counted as free and has not claimed yet are given to nobody.       *)
(***************************************************************************)
EXTENDS ScanWorkerProofs

Slots == Ticks \X (1..Concurrency)

(* The slots that a tick between its count and its claim will use. *)
Pending(t) == IF tick[t].pc = "claiming" THEN {t} \X (1..tick[t].free) ELSE {}

(* f gives every scan a slot of its own, none of them pending. *)
Seats(f) ==
    /\ f \in [Scanning -> Slots]
    /\ \A q, r \in Scanning : f[q] = f[r] => q = r
    /\ \A r \in Scanning, t \in Ticks : f[r] \notin Pending(t)

SlotsReserved == \E f : Seats(f)

(* How many rows of its snapshot come before r in the order of the claim. *)
Before(t, r) == {q \in Claimable(t) : q < r}
Rank(t, r) == Cardinality(Before(t, r))

LEMMA RankType ==
    ASSUME NEW t \in Ticks, NEW r \in Receipts
    PROVE  IsFiniteSet(Before(t, r)) /\ Rank(t, r) \in Nat
  <1>1. Before(t, r) \in SUBSET Receipts
    BY DEF Before, Claimable, Queued
  <1> QED  BY <1>1, ReceiptsAssumption, FS_Subset, FS_CardinalityType DEF Rank

(* Different rows of the claim's snapshot have different ranks. *)
LEMMA RankStrict ==
    ASSUME NEW t \in Ticks, NEW q \in Claimable(t), NEW r \in Claimable(t), q < r
    PROVE  Rank(t, q) # Rank(t, r)
  <1>0. q \in Nat /\ r \in Nat /\ q \in Receipts /\ r \in Receipts
    BY ReceiptsAssumption DEF Claimable, Queued
  <1>1. Before(t, q) \in SUBSET Before(t, r)
    <2> SUFFICES ASSUME NEW p \in Before(t, q)  PROVE p \in Before(t, r)
      OBVIOUS
    <2>1. p \in Nat /\ p \in Claimable(t) /\ p < q
      BY ReceiptsAssumption DEF Before, Claimable, Queued
    <2> QED  BY <2>1, <1>0 DEF Before
  <1>2. q \in Before(t, r) /\ q \notin Before(t, q)
    BY <1>0 DEF Before
  <1>3. IsFiniteSet(Before(t, r))
    BY <1>0, RankType
  <1>4. Cardinality(Before(t, r)) = Cardinality(Before(t, q)) => Before(t, r) = Before(t, q)
    BY <1>1, <1>3, FS_Subset
  <1> QED  BY <1>2, <1>4 DEF Rank

LEMMA RankInjective ==
    ASSUME NEW t \in Ticks, NEW q \in Claimable(t), NEW r \in Claimable(t), Rank(t, q) = Rank(t, r)
    PROVE  q = r
  <1>1. q \in Nat /\ r \in Nat
    BY ReceiptsAssumption DEF Claimable, Queued
  <1>2. q < r \/ r < q \/ q = r
    BY <1>1
  <1> QED  BY <1>2, RankStrict

LEMMA ScanningFinite == IsFiniteSet(Scanning) /\ Cardinality(Scanning) \in Nat
  BY FS_Subset, FS_CardinalityType, ReceiptsAssumption DEF Scanning

-----------------------------------------------------------------------------
(* A step that starts no scan and leaves or ends the ticks. *)
LEMMA SeatsShrink ==
    ASSUME SlotsReserved, Scanning' \subseteq Scanning,
           \A t \in Ticks : tick'[t] = tick[t] \/ tick'[t].pc # "claiming"
    PROVE  SlotsReserved'
  <1>1. PICK f : Seats(f)
    BY DEF SlotsReserved
  <1> DEFINE g == [r \in Scanning' |-> f[r]]
  <1>2. \A t \in Ticks : Pending(t)' \subseteq Pending(t)
    BY DEF Pending
  <1>3. /\ g \in [Scanning' -> Slots]
        /\ \A q, r \in Scanning' : g[q] = g[r] => q = r
        /\ \A r \in Scanning', t \in Ticks : g[r] \notin Pending(t)'
    BY <1>1, <1>2 DEF Seats
  <1> QED  BY <1>3 DEF SlotsReserved, Seats, Slots

(* The count of a tick: with slots left, the scans move to the seats of    *)
(* this tick that it does not count as free; with none left, it reserves   *)
(* nothing.                                                                *)
LEMMA SeatsSnapshot ==
    ASSUME TypeOK, SlotsReserved, NEW t \in Ticks, TickSnapshot(t)
    PROVE  SlotsReserved'
  <1> DEFINE n == Cardinality(Scanning)
  <1>0. Concurrency \in Nat /\ n \in Nat
    BY LimitsAssumption, ScanningFinite
  <1>1. Scanning' = Scanning
    BY DEF TickSnapshot, claimVars, Scanning
  <1>2. \A s \in Ticks : s # t => Pending(s)' = Pending(s)
    BY DEF TickSnapshot, TypeOK, Pending
  <1>3. Pending(t)' = {t} \X (1..FreeSlots)
    <2>1. tick'[t] = [pc |-> "claiming", free |-> FreeSlots, queued |-> Queued]
      BY DEF TickSnapshot, TypeOK
    <2> QED  BY <2>1 DEF Pending
  <1>4. CASE n < Concurrency
    <2>1. FreeSlots = Concurrency - n
      BY <1>4 DEF FreeSlots
    <2>2. PICK b : b \in Bijection(1..n, Scanning)
      BY ScanningFinite, FS_CardinalityType DEF ExistsBijection
    <2>3. /\ b \in [1..n -> Scanning]
          /\ \A i, j \in 1..n : b[i] = b[j] => i = j
          /\ \A r \in Scanning : \E i \in 1..n : b[i] = r
      BY <2>2 DEF Bijection, Injection, IsInjective, Surjection
    <2> DEFINE pos(r) == CHOOSE i \in 1..n : b[i] = r
               g == [r \in Scanning |-> <<t, Concurrency - n + pos(r)>>]
    <2>4. \A r \in Scanning : pos(r) \in 1..n /\ b[pos(r)] = r
      BY <2>3
    <2> HIDE DEF pos, n
    <2>5. \A r \in Scanning : Concurrency - n + pos(r) \in 1..Concurrency
                              /\ Concurrency - n + pos(r) \notin 1..(Concurrency - n)
      BY <2>4, <1>0, <1>4
    <2>6. g \in [Scanning -> Slots]
      BY <2>5 DEF Slots
    <2>7. \A q, r \in Scanning : g[q] = g[r] => q = r
      <3> SUFFICES ASSUME NEW q \in Scanning, NEW r \in Scanning, g[q] = g[r]  PROVE q = r
        OBVIOUS
      <3>1. Concurrency - n + pos(q) = Concurrency - n + pos(r)
        OBVIOUS
      <3>2. pos(q) = pos(r)
        BY <3>1, <2>4, <1>0
      <3> QED  BY <3>2, <2>4
    <2>8. \A r \in Scanning, s \in Ticks : g[r] \notin Pending(s)'
      <3> SUFFICES ASSUME NEW r \in Scanning, NEW s \in Ticks, g[r] \in Pending(s)'  PROVE FALSE
        OBVIOUS
      <3>1. g[r] = <<t, Concurrency - n + pos(r)>>
        OBVIOUS
      <3>2. CASE s = t
        BY <3>1, <3>2, <1>3, <2>1, <2>5
      <3>3. CASE s # t
        BY <3>1, <3>3, <1>2 DEF Pending
      <3> QED  BY <3>2, <3>3
    <2> QED  BY <1>1, <2>6, <2>7, <2>8 DEF SlotsReserved, Seats, Slots
  <1>5. CASE ~(n < Concurrency)
    <2>1. Pending(t)' = {}
      BY <1>3, <1>5 DEF FreeSlots
    <2>2. \A s \in Ticks : Pending(s)' \subseteq Pending(s)
      BY <1>2, <2>1
    <2> QED  BY <1>1, <2>2 DEF SlotsReserved, Seats, Slots
  <1> QED  BY <1>4, <1>5

(* The claim: a row of the tick's own snapshot takes the seat of its rank, *)
(* which was pending.                                                      *)
LEMMA SeatsClaim ==
    ASSUME TypeOK, SlotsReserved, NEW t \in Ticks, ClaimRows(t)
    PROVE  SlotsReserved'
  <1>1. PICK f : Seats(f)
    BY DEF SlotsReserved
  <1>2. Claimed(t) \subseteq Claimable(t) /\ Claimed(t) \subseteq Receipts \ Scanning
    BY DEF Claimed, Claimable, Queued, Scanning
  <1>3. Scanning' = Scanning \cup Claimed(t)
    BY <1>2 DEF ClaimRows, Scanning
  <1>4. tick[t].pc = "claiming" /\ tick[t].free \in 0..Concurrency /\ Concurrency \in Nat
    BY LimitsAssumption DEF ClaimRows, TypeOK
  <1>5. \A r \in Claimed(t) : Rank(t, r) + 1 \in 1..tick[t].free
    <2> SUFFICES ASSUME NEW r \in Claimed(t)  PROVE Rank(t, r) + 1 \in 1..tick[t].free
      OBVIOUS
    <2>1. Rank(t, r) < tick[t].free
      BY DEF Claimed, Rank, Before
    <2> QED  BY <2>1, <1>2, <1>4, RankType
  <1>6. \A q, r \in Claimed(t) : Rank(t, q) + 1 = Rank(t, r) + 1 => q = r
    <2> SUFFICES ASSUME NEW q \in Claimed(t), NEW r \in Claimed(t), Rank(t, q) + 1 = Rank(t, r) + 1
                 PROVE  q = r
      OBVIOUS
    <2>1. Rank(t, q) = Rank(t, r)
      BY <1>2, RankType
    <2> QED  BY <2>1, <1>2, RankInjective
  <1>7. Pending(t) = {t} \X (1..tick[t].free)
    BY <1>4 DEF Pending
  <1>8. \A s \in Ticks : Pending(s)' \subseteq Pending(s) /\ (s = t => Pending(s)' = {})
    <2>1. \A s \in Ticks : tick'[s] = IF s = t THEN NoTick ELSE tick[s]
      BY DEF ClaimRows, TypeOK
    <2> QED  BY <2>1 DEF Pending, NoTick
  <1> DEFINE seat(r) == <<t, Rank(t, r) + 1>>
             g == [r \in Scanning \cup Claimed(t) |-> IF r \in Claimed(t) THEN seat(r) ELSE f[r]]
  <1>9. \A r \in Claimed(t) : seat(r) \in Slots /\ seat(r) \in Pending(t)
    BY <1>4, <1>5, <1>7 DEF Slots
  <1>10. \A q, r \in Claimed(t) : seat(q) = seat(r) => q = r
    BY <1>6
  <1>11. \A r \in Claimed(t), s \in Ticks : s # t => seat(r) \notin Pending(s)
    BY DEF Pending
  <1> HIDE DEF seat
  <1>12. /\ g \in [Scanning \cup Claimed(t) -> Slots]
         /\ \A q, r \in Scanning \cup Claimed(t) : g[q] = g[r] => q = r
         /\ \A r \in Scanning \cup Claimed(t), s \in Ticks : g[r] \notin Pending(s)'
    BY <1>1, <1>2, <1>8, <1>9, <1>10, <1>11 DEF Seats
  <1> QED  BY <1>3, <1>12 DEF SlotsReserved, Seats, Slots

-----------------------------------------------------------------------------
(* Only a claim starts scans, and only a count reserves slots. *)
LEMMA SeatsNext ==
    ASSUME TypeOK, SlotsReserved, [Next]_vars
    PROVE  SlotsReserved'
  <1>0. scanState \in [Receipts -> ScanStates \cup {"none", "deleted"}]
        /\ DOMAIN tick = Ticks
    BY DEF TypeOK
  <1>1. ASSUME NEW r \in Receipts, ReceiptRequest(r) \/ Expire(r)
        PROVE  SlotsReserved'
    <2>1. Scanning' \subseteq Scanning /\ tick' = tick
      BY <1>0, <1>1 DEF ReceiptRequest, Upload, CreateManual, AddImages, RetryScan, DeleteReceipt,
         ItemInsert, ItemCommit, ItemRollback, ItemDelete, Expire, NextId, claimVars, Scanning
    <2> QED  BY <2>1, SeatsShrink
  <1>2. ASSUME NEW e \in Editors, PatchStep(e)
        PROVE  SlotsReserved'
    <2>1. Scanning' \subseteq Scanning /\ tick' = tick
      BY <1>2 DEF PatchStep, PatchBegin, PatchCommit, PatchAbort, claimVars, Scanning
    <2> QED  BY <2>1, SeatsShrink
  <1>3. ASSUME NEW t \in Ticks, TickReclaim(t)
        PROVE  SlotsReserved'
    <2>1. Scanning' \subseteq Scanning
      BY <1>0, <1>3 DEF TickReclaim, AfterFailure, Scanning
    <2>2. \A s \in Ticks : tick'[s] = tick[s] \/ tick'[s].pc # "claiming"
      BY <1>3 DEF TickReclaim, TypeOK
    <2> QED  BY <2>1, <2>2, SeatsShrink
  <1>4. ASSUME NEW t \in Ticks, TickError(t)
        PROVE  SlotsReserved'
    <2>1. Scanning' \subseteq Scanning /\ \A s \in Ticks : tick'[s] = tick[s] \/ tick'[s].pc # "claiming"
      BY <1>0, <1>4 DEF TickError, NoTick, claimVars, Scanning
    <2> QED  BY <2>1, SeatsShrink
  <1>5. ASSUME NEW c \in Claims, ScanStep(c) \/ CommitLost(c) \/ RecordFailureLost(c)
        PROVE  SlotsReserved'
    <2>1. tick' = tick
      BY <1>5 DEF ScanStep, ScanSnapshot, ListImages, ProviderReply, ProviderScanError, InfraError,
         ApplyRead, ApplyBegin, ApplyWait, ApplyStale, ApplyChanged, WriteVerify, WriteExtraction,
         Complete, RecordFailure, CommitLost, RecordFailureLost, ScanMoves
    <2>2. Scanning' \subseteq Scanning
      <3>1. CASE WriteVerify(c) \/ WriteExtraction(c)
        BY <1>0, <3>1 DEF WriteVerify, WriteExtraction, Complete, Scanning
      <3>2. CASE RecordFailure(c)
        BY <1>0, <3>2 DEF RecordFailure, AfterFailure, claimVars, Scanning
      <3>3. CASE UNCHANGED claimVars
        BY <3>3 DEF claimVars, Scanning
      <3>4. ASSUME \/ \E locals : ScanMoves(c, locals)
                   \/ ApplyBegin(c) \/ CommitLost(c) \/ RecordFailureLost(c)
            PROVE  UNCHANGED claimVars
        BY <3>4 DEF ScanMoves, ApplyBegin, CommitLost, RecordFailureLost
      <3>5. CASE ScanSnapshot(c) \/ ListImages(c) \/ ProviderScanError(c) \/ InfraError(c)
                 \/ \E result \in Results : ProviderReply(c, result)
        BY <3>3, <3>4, <3>5
           DEF ScanSnapshot, ListImages, ProviderScanError, InfraError, ProviderReply
      <3>6. CASE ApplyRead(c) \/ ApplyWait(c) \/ ApplyStale(c) \/ ApplyChanged(c)
        BY <3>3, <3>4, <3>6 DEF ApplyRead, ApplyWait, ApplyStale, ApplyChanged
      <3> QED  BY <1>5, <3>1, <3>2, <3>3, <3>4, <3>5, <3>6 DEF ScanStep
    <2>3. \A t \in Ticks : tick'[t] = tick[t] \/ tick'[t].pc # "claiming"
      BY <2>1
    <2> QED  BY <2>2, <2>3, SeatsShrink
  <1>6. CASE Crash
    <2>1. Scanning' \subseteq Scanning /\ \A s \in Ticks : tick'[s] = tick[s] \/ tick'[s].pc # "claiming"
      BY <1>6 DEF Crash, NoTick, claimVars, Scanning
    <2> QED  BY <2>1, SeatsShrink
  <1>7. CASE UNCHANGED vars
    <2>1. Scanning' \subseteq Scanning /\ tick' = tick
      BY <1>7 DEF vars, claimVars, Scanning
    <2> QED  BY <2>1, SeatsShrink
  <1>8. ASSUME NEW t \in Ticks, TickSnapshot(t)  PROVE SlotsReserved'
    BY <1>8, SeatsSnapshot
  <1>9. ASSUME NEW t \in Ticks, TickClaim(t) \/ TickClaimLost(t)  PROVE SlotsReserved'
    BY <1>9, SeatsClaim DEF TickClaim, TickClaimLost
  <1> QED
    BY <1>1, <1>2, <1>3, <1>4, <1>5, <1>6, <1>7, <1>8, <1>9 DEF Next, TickStep, FaultStep

(* For any number of receipts, slots and ticks that overlap: the count of  *)
(* claim() is stale when its UPDATE runs, and yet no more scans are in     *)
(* flight than SCAN_CONCURRENCY for each tick that may be under way.       *)
THEOREM ScansBounded == Spec => []ScansBoundedByTicks
  <1>1. Init => SlotsReserved
    <2> SUFFICES ASSUME Init  PROVE SlotsReserved
      OBVIOUS
    <2>1. Scanning = {}
      BY DEF Init, Scanning
    <2>2. Seats([r \in Scanning |-> 0])
      BY <2>1 DEF Seats
    <2> QED  BY <2>2 DEF SlotsReserved
  <1>2. TypeOK /\ SlotsReserved /\ [Next]_vars => SlotsReserved'
    BY SeatsNext
  <1>3. SlotsReserved => ScansBoundedByTicks
    <2> SUFFICES ASSUME NEW f, Seats(f)  PROVE ScansBoundedByTicks
      BY DEF SlotsReserved
    <2>1. f \in Injection(Scanning, Slots)
      BY DEF Seats, Injection, IsInjective
    <2>2. IsFiniteSet(1..Concurrency) /\ Cardinality(1..Concurrency) = Concurrency
      BY FS_Interval, LimitsAssumption
    <2>3. IsFiniteSet(Slots) /\ Cardinality(Slots) = Cardinality(Ticks) * Concurrency
      BY <2>2, FS_Product, TicksAssumption DEF Slots
    <2>4. Cardinality(Scanning) <= Cardinality(Slots)
      BY <2>1, <2>3, FS_Injection
    <2>5. Cardinality(Ticks) \in Nat
      BY TicksAssumption, FS_CardinalityType
    <2> QED  BY <2>3, <2>4, <2>5, LimitsAssumption DEF ScansBoundedByTicks
  <1> QED  BY <1>1, <1>2, <1>3, TypeCorrect, PTL DEF Spec

=============================================================================
