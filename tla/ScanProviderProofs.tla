------------------------- MODULE ScanProviderProofs -------------------------
(***************************************************************************)
(* A scan call fits the reclaim window under every configuration that the  *)
(* startup check of ScanServices.cpp accepts, and no outage after a first  *)
(* reply fails it.                                                         *)
(***************************************************************************)
EXTENDS ScanProvider, TLAPS

(* What toItem(), parseResponse() return is never the null of `first`. *)
LEMMA ResultIsReal ==
    ASSUME NEW output
    PROVE  ParseResponse(output) # NoResult
<1>1. \A a, b, c, d :
          [kind |-> a, totalCents |-> b, subtotal |-> c, items |-> d] # [kind |-> "none"]
  OBVIOUS
<1> QED  BY <1>1, Zenon DEF ParseResponse, NoResult

(* send() sleeps at most the clamp between two attempts. *)
LEMMA DelayBounded ==
    ASSUME NEW header \in RetryAfters, attempt \in 0..(MaxRetries - 1)
    PROVE  Delay(header) \in 0..MaxBackoff
<1>1. header \in Int \/ header = NoHeader
  BY TimesAssumption
<1>2. Backoff(attempt) \in 0..MaxBackoff
  BY BackoffAssumption
<1>3. CASE header = NoHeader
  BY <1>2, <1>3 DEF Delay
<1>4. CASE header # NoHeader
  <2>1. header \in Int
    BY <1>1, <1>4
  <2> QED  BY <1>4, <2>1, TimesAssumption DEF Delay
<1> QED  BY <1>3, <1>4

(* The products the time bound is made of. *)
LEMMA Slots ==
    /\ Slot \in Nat /\ Timeout <= Slot
    /\ WorstCase = (MaxRetries + 1) * Slot + (IF Rescan THEN Timeout ELSE 0)
    /\ \A n \in Nat : n * Slot \in Nat /\ (n + 1) * Slot = n * Slot + Slot
    /\ \A n \in 0..MaxRetries : n * Slot <= MaxRetries * Slot
<1>1. Slot \in Nat /\ Timeout <= Slot
  BY TimesAssumption DEF Slot
<1>2. ASSUME NEW s \in Nat, NEW m \in Nat
      PROVE  /\ s * (m + 1) = (m + 1) * s
             /\ \A n \in Nat : n * s \in Nat /\ (n + 1) * s = n * s + s
             /\ \A n \in 0..m : n * s <= m * s
  <2>1. \A n \in Nat : n * s \in Nat /\ (n + 1) * s = n * s + s
    OBVIOUS
  <2>2. ASSUME NEW n \in 0..m  PROVE n * s <= m * s
    <3>1. m - n \in Nat /\ (m - n) * s \in Nat
      BY <2>1
    <3>2. m * s = n * s + (m - n) * s
      OBVIOUS
    <3> QED  BY <3>1, <3>2, <2>1
  <2> QED  BY <2>1, <2>2
<1> QED  BY <1>1, <1>2, TimesAssumption DEF WorstCase, Slot

(* The inductive invariant of one call. *)
CallInvariant == TypeOK /\ TimeSpent

LEMMA CallInit == Init => CallInvariant
  BY Slots, TimesAssumption DEF Init, CallInvariant, TypeOK, TimeSpent, NoResult

(* An attempt ends the first request within the slots of all its attempts. *)
LEMMA OneAttempt ==
    ASSUME TypeOK, TimeSpent, pc = "sending", NEW seconds \in Durations
    PROVE  /\ seconds \in 0..Timeout
           /\ elapsed + seconds \in Nat /\ requests + 1 \in Nat
           /\ elapsed + seconds <= WorstCase /\ requests + 1 <= MaxRetries + 2
           /\ first = NoResult => /\ elapsed + seconds <= (MaxRetries + 1) * Slot
                                  /\ requests + 1 <= MaxRetries + 1
<1>1. seconds \in 0..Timeout
  BY TimesAssumption
<1>2. CASE first = NoResult
  <2>1. elapsed <= attempt * Slot /\ requests <= attempt /\ attempt * Slot <= MaxRetries * Slot
    BY <1>2, Slots DEF TimeSpent, TypeOK
  <2>2. (MaxRetries + 1) * Slot = MaxRetries * Slot + Slot /\ MaxRetries * Slot \in Nat
    BY Slots, TimesAssumption
  <2>3. attempt * Slot \in Nat
    BY Slots, TimesAssumption DEF TypeOK
  <2> QED  BY <1>1, <1>2, <2>1, <2>2, <2>3, Slots, TimesAssumption DEF TypeOK
<1>3. CASE first # NoResult
  <2>1. Rescan /\ elapsed <= (MaxRetries + 1) * Slot /\ requests <= MaxRetries + 1
    BY <1>3 DEF TimeSpent
  <2>2. (MaxRetries + 1) * Slot \in Nat
    BY Slots, TimesAssumption
  <2> QED  BY <1>1, <1>3, <2>1, <2>2, Slots, TimesAssumption DEF TypeOK
<1> QED  BY <1>2, <1>3

LEMMA CallNext == CallInvariant /\ [Next]_vars => CallInvariant'
<1> SUFFICES ASSUME TypeOK, TimeSpent, [Next]_vars  PROVE TypeOK' /\ TimeSpent'
  BY DEF CallInvariant
<1> USE TimesAssumption
<1>1. CASE BuildRequest
  BY <1>1 DEF BuildRequest, TypeOK, TimeSpent
<1>2. CASE BadImage
  <2>1. elapsed <= WorstCase /\ requests <= MaxRetries + 2
    <3>1. attempt * Slot \in Nat /\ attempt * Slot <= MaxRetries * Slot /\ MaxRetries * Slot \in Nat
          /\ (MaxRetries + 1) * Slot = MaxRetries * Slot + Slot
      BY Slots DEF TypeOK
    <3> QED  BY <1>2, <3>1, Slots DEF BadImage, TypeOK, TimeSpent
  <2> QED  BY <1>2, <2>1 DEF BadImage, Fails, TypeOK, TimeSpent
<1>3. ASSUME NEW seconds \in Durations, NEW output \in Outputs, Reply(seconds, output)
      PROVE  TypeOK' /\ TimeSpent'
  <2>1. pc = "sending" /\ requests' = requests + 1 /\ elapsed' = elapsed + seconds
        /\ knownKind' = knownKind
    BY <1>3 DEF Reply, Sent
  <2> DEFINE result == ParseResponse(output)
  <2>2. result # NoResult
    BY ResultIsReal
  <2>3. CASE /\ first = NoResult /\ Rescan /\ first' = result /\ attempt' = 0 /\ pc' = pc
    <3> HIDE DEF result
    <3> QED  BY <2>1, <2>2, <2>3, OneAttempt DEF TypeOK, TimeSpent
  <2>4. CASE pc' = "returned" /\ attempt' = attempt
    BY <2>1, <2>4, OneAttempt DEF TypeOK, TimeSpent
  <2> QED  BY <1>3, <2>3, <2>4 DEF Reply
<1>4. ASSUME NEW seconds \in Durations, NEW header \in RetryAfters, Retry(seconds, header)
      PROVE  TypeOK' /\ TimeSpent'
  <2>1. pc = "sending" /\ pc' = pc /\ first' = first /\ requests' = requests + 1
        /\ elapsed' = elapsed + (seconds + Delay(header)) /\ attempt' = attempt + 1
        /\ knownKind' = knownKind
    BY <1>4 DEF Retry, Sent
  <2>2. first = NoResult /\ attempt \in 0..(MaxRetries - 1)
    BY <1>4, <2>1 DEF Retry, Exhausted, RetryLimit, TypeOK, TimeSpent
  <2>3. Delay(header) \in 0..MaxBackoff
    BY <2>2, DelayBounded
  <2>4. seconds \in 0..Timeout
    OBVIOUS
  <2>5. attempt * Slot \in Nat /\ (attempt + 1) * Slot = attempt * Slot + Slot
    BY <2>2, Slots
  <2>6. elapsed <= attempt * Slot /\ requests <= attempt
    BY <2>1, <2>2 DEF TimeSpent
  <2>7. elapsed' \in Nat /\ elapsed' <= (attempt + 1) * Slot
    BY <2>1, <2>3, <2>4, <2>5, <2>6 DEF Slot, TypeOK
  <2> QED  BY <2>1, <2>2, <2>6, <2>7 DEF TypeOK, TimeSpent
<1>5. ASSUME NEW seconds \in Durations,
             Refused(seconds) \/ RetriesSpent(seconds) \/ NetworkError(seconds)
      PROVE  TypeOK' /\ TimeSpent'
  <2>1. pc = "sending" /\ requests' = requests + 1 /\ elapsed' = elapsed + seconds
        /\ knownKind' = knownKind /\ attempt' = attempt /\ pc' \in {"returned", "failed"}
    BY <1>5 DEF Refused, RetriesSpent, NetworkError, Sent, Fails
  <2> QED  BY <2>1, OneAttempt DEF TypeOK, TimeSpent
<1>6. CASE UNCHANGED vars
  BY <1>6 DEF vars, TypeOK, TimeSpent
<1> QED  BY <1>1, <1>2, <1>3, <1>4, <1>5, <1>6 DEF Next, Done

(* The types of the call's locals, and its time and request budgets. *)
THEOREM CallCorrect == Spec => []CallInvariant
  BY CallInit, CallNext, PTL DEF Spec

(* The locals of scanReceipt and send keep their types, the attempt counter *)
(* its limit of maxRetries included, for every setting and every reply.    *)
THEOREM CallTypeCorrect == Spec => []TypeOK
<1>1. CallInvariant => TypeOK
  BY DEF CallInvariant
<1> QED  BY <1>1, CallCorrect, PTL

(* A scan call never outlasts SCAN_RECLAIM_SECONDS, for every timeout,     *)
(* retry count, clamp and rescan setting that checkedAnthropicConfig lets  *)
(* the server start with.                                                  *)
THEOREM CallFits == Spec => []CallFitsReclaimWindow
<1>1. CallInvariant => CallFitsReclaimWindow
  <2> SUFFICES ASSUME TypeOK, TimeSpent  PROVE elapsed < ReclaimAfter
    BY DEF CallInvariant, CallFitsReclaimWindow
  <2>1. elapsed <= WorstCase
    <3>1. attempt * Slot \in Nat /\ attempt * Slot <= MaxRetries * Slot /\ MaxRetries * Slot \in Nat
          /\ (MaxRetries + 1) * Slot = MaxRetries * Slot + Slot
      BY Slots, TimesAssumption DEF TypeOK
    <3> QED  BY <3>1, Slots, TimesAssumption DEF TypeOK, TimeSpent
  <2>2. WorstCase \in Nat
    BY Slots, TimesAssumption
  <2> QED  BY <2>1, <2>2, StartupAssumption, TimesAssumption DEF TypeOK
<1> QED  BY <1>1, CallCorrect, PTL

(* A scan call sends at most one request per retry, the first try and the  *)
(* rescan, for every retry count.                                          *)
THEOREM CallRequestsBounded == Spec => []RequestsBounded
<1>1. CallInvariant => RequestsBounded
  BY TimesAssumption DEF CallInvariant, TypeOK, TimeSpent, RequestsBounded
<1> QED  BY <1>1, CallCorrect, PTL

(* toCents() takes an amount and its negative to the same magnitude, the   *)
(* nearest cent, and a line is negative from half a cent on.               *)
LEMMA Rounding ==
    ASSUME NEW n \in Int
    PROVE  /\ ToCents(n) \in Int
           /\ ToCents(n) >= 0 <=> n > -5
           /\ NearestCent(Abs(ToCents(n)), n)
<1>1. \A m \in Int : (m + 5) \div 10 \in Int /\ 10 * ((m + 5) \div 10) - m \in (-4)..5
  OBVIOUS
<1>2. CASE n >= 0
  <2>1. PICK c \in Int : c = (n + 5) \div 10 /\ 10 * c - n \in (-4)..5
    BY <1>1
  <2>2. ToCents(n) = c /\ c >= 0
    BY <1>2, <2>1 DEF ToCents
  <2> QED  BY <1>2, <2>1, <2>2 DEF NearestCent, Abs
<1>3. CASE n < 0
  <2>1. PICK c \in Int : c = (5 - n) \div 10 /\ 10 * c - (-n) \in (-4)..5
    <3>1. -n \in Int /\ (-n) + 5 = 5 - n
      OBVIOUS
    <3> QED  BY <1>1, <3>1
  <2>2. ToCents(n) = -c /\ c >= 0 /\ (c = 0 <=> n > -5)
    BY <1>3, <2>1 DEF ToCents
  <2> QED  BY <1>3, <2>1, <2>2 DEF NearestCent, Abs
<1> QED  BY <1>2, <1>3

(* parseResponse() reads its document. *)
LEMMA ParsedReads ==
    ASSUME NEW output \in Outputs
    PROVE  Reads(ParseResponse(output), output)
<1> DEFINE result == ParseResponse(output)
           k == IF knownKind = NoKind THEN output.kind ELSE knownKind
           kept == {i \in DOMAIN output.items : Kept(k, output.items[i])}
<1>1. /\ result.kind = k
      /\ result.totalCents = Abs(ToCents(output.total))
      /\ result.items = [i \in kept |-> ToItem(output.items[i])]
  BY DEF ParseResponse
<1>2. output.total \in Int /\ output.items \in Seq(Lines)
  BY OutputsAssumption
<1>3. ASSUME NEW i \in DOMAIN output.items  PROVE output.items[i].amount \in Int
  <2>1. \A s \in Seq(Lines) : \A j \in DOMAIN s : s[j] \in Lines
    OBVIOUS
  <2>2. \A line \in Lines : line.amount \in Int
    BY DEF Lines
  <2> QED  BY <1>2, <2>1, <2>2
<1>4. \A i \in DOMAIN output.items :
          Kept(k, output.items[i]) <=> (k = "refund" \/ output.items[i].amount > -5)
  BY <1>3, Rounding DEF Kept
<1>5. DOMAIN result.items = {i \in DOMAIN output.items : k = "refund" \/ output.items[i].amount > -5}
  BY <1>1, <1>4
<1>6. ASSUME NEW i \in DOMAIN result.items
      PROVE  /\ NearestCent(result.items[i].amountCents, output.items[i].amount)
             /\ result.items[i].informational = output.items[i].informational
  <2>1. i \in DOMAIN output.items /\ result.items[i] = ToItem(output.items[i])
    BY <1>1
  <2>2. /\ result.items[i].amountCents = Abs(ToCents(output.items[i].amount))
        /\ result.items[i].informational = output.items[i].informational
    BY <2>1 DEF ToItem
  <2> HIDE DEF result
  <2> QED  BY <1>3, <2>1, <2>2, Rounding
<1>7. NearestCent(result.totalCents, output.total)
  BY <1>1, <1>2, Rounding
<1>8. result.kind = k
  BY <1>1
<1> HIDE DEF result, kept
<1>9. /\ result.kind = k /\ NearestCent(result.totalCents, output.total)
      /\ DOMAIN result.items =
             {i \in DOMAIN output.items : result.kind = "refund" \/ output.items[i].amount > -5}
  BY <1>5, <1>7, <1>8
<1> QED  BY <1>6, <1>9, Zenon DEF Reads, result

(* The first result is the reading of the latest document, until a second  *)
(* one is read.                                                            *)
ResultsOK ==
    /\ ReturnsLatestReading
    /\ pc # "returned" /\ first # NoResult => Reads(first, document)

LEMMA ResultsNext == ResultsOK /\ [Next]_vars => ResultsOK'
<1> SUFFICES ASSUME ResultsOK, [Next]_vars  PROVE ResultsOK'
  OBVIOUS
<1> USE DEF ResultsOK, ReturnsLatestReading
<1>0. knownKind' = knownKind
  BY DEF Next, BuildRequest, BadImage, Reply, Retry, Refused, RetriesSpent, NetworkError, Done, vars
<1>1. ASSUME NEW result, NEW output, Reads(result, output)
      PROVE  Reads(result, output)'
  BY <1>0, <1>1 DEF Reads
<1>2. ASSUME NEW error, Fails(error), pc # "returned", UNCHANGED <<first, document>>
      PROVE  ResultsOK'
  <2>1. CASE first = NoResult
    BY <1>2, <2>1 DEF Fails
  <2>2. CASE first # NoResult
    <3>1. pc' = "returned" /\ outcome' = first /\ Reads(first, document)
      BY <1>2, <2>2 DEF Fails
    <3>2. Reads(outcome, document)'
      BY <1>0, <1>2, <3>1 DEF Reads
    <3> QED  BY <3>1, <3>2
  <2> QED  BY <2>1, <2>2
<1>3. CASE BuildRequest
  BY <1>0, <1>3 DEF BuildRequest, Reads
<1>4. CASE BadImage
  BY <1>2, <1>4 DEF BadImage
<1>5. ASSUME NEW seconds \in Durations, NEW output \in Outputs, Reply(seconds, output)
      PROVE  ResultsOK'
  <2>1. PICK result : result = ParseResponse(output)
    OBVIOUS
  <2>2. Reads(result, output)
    BY <2>1, ParsedReads
  <2>3. /\ pc = "sending" /\ document' = output
        /\ \/ first' = result /\ pc' = pc
           \/ pc' = "returned" /\ outcome' = result
    BY <1>5, <2>1 DEF Reply, Sent
  <2>4. CASE first' = result /\ pc' = pc
    BY <1>0, <2>2, <2>3, <2>4 DEF Reads
  <2>5. CASE pc' = "returned" /\ outcome' = result
    BY <1>0, <2>2, <2>3, <2>5 DEF Reads
  <2> QED  BY <2>3, <2>4, <2>5
<1>6. ASSUME NEW seconds \in Durations, NEW header \in RetryAfters, Retry(seconds, header)
      PROVE  ResultsOK'
  BY <1>0, <1>6 DEF Retry, Sent, Reads
<1>7. ASSUME NEW seconds \in Durations,
             Refused(seconds) \/ RetriesSpent(seconds) \/ NetworkError(seconds)
      PROVE  ResultsOK'
  BY <1>2, <1>7 DEF Refused, RetriesSpent, NetworkError, Sent
<1>8. CASE UNCHANGED vars
  BY <1>8 DEF vars, Reads
<1> QED  BY <1>3, <1>4, <1>5, <1>6, <1>7, <1>8 DEF Next, Done

(* Whatever the replies say and whichever request fails, scanReceipt       *)
(* returns the reading of the latest document it could read: never a mix   *)
(* of two, never an amount off by a cent for the sign of its line.         *)
THEOREM ReadingCorrect == Spec => []ReturnsLatestReading
<1>1. Init => ResultsOK
  BY DEF Init, ResultsOK, ReturnsLatestReading
<1>2. ResultsOK => ReturnsLatestReading
  BY DEF ResultsOK
<1> QED  BY <1>1, <1>2, ResultsNext, PTL DEF Spec

(* Once a first reply was read, no later failure fails the scan. *)
THEOREM FirstResultStands == Spec => FirstScanStands
<1>1. CallInvariant /\ CallInvariant' /\ [Next]_vars => [first # NoResult => pc' # "failed"]_vars
  <2> SUFFICES ASSUME Next, first # NoResult, pc' = "failed", TypeOK, TimeSpent  PROVE UNCHANGED vars
    BY DEF CallInvariant
  <2>1. ASSUME NEW error, Fails(error)  PROVE FALSE
    BY <2>1 DEF Fails
  <2> QED  BY <2>1 DEF Next, BuildRequest, BadImage, Reply, Retry, Refused, RetriesSpent,
              NetworkError, Done, Sent
<1> QED  BY <1>1, CallCorrect, PTL DEF Spec, FirstScanStands

=============================================================================
