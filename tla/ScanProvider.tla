---------------------------- MODULE ScanProvider ----------------------------
(***************************************************************************)
(* One scanReceipt() call of src/scan/AnthropicScanProvider.cpp: a request *)
(* with retries, the reading of the reply, and one rescan when the items   *)
(* of the first reply do not add up.  Time is counted in whole seconds     *)
(* from the start of the call.                                             *)
(***************************************************************************)
EXTENDS Integers, Sequences, FiniteSetsExt, Kinds

CONSTANTS
    Timeout,        \* SCAN_TIMEOUT_SECONDS, per HTTP attempt
    MaxRetries,     \* Config::maxRetries
    MaxBackoff,     \* the clamp of a retry-after header
    ReclaimAfter,   \* SCAN_RECLAIM_SECONDS
    Rescan,         \* ANTHROPIC_RESCAN_EFFORT is not empty
    Durations,      \* how long an HTTP attempt takes, the client's timeout included
    RetryAfters,    \* retry-after headers, NoHeader when missing or a date
    NoHeader,
    Outputs,        \* what the model reads off the images
    NoSubtotal,     \* subtotal: null
    NoKind          \* ScanContext::knownKind is empty

(* send(): 2 << attempt seconds. *)
Backoff(n) == 2 * 2^n

(* checkedAnthropicConfig: the longest call the startup check allows for. *)
WorstCase == (Timeout + MaxBackoff) * (MaxRetries + 1) + (IF Rescan THEN Timeout ELSE 0)

(* The HTTP client ends an attempt after a positive timeout; it takes a    *)
(* timeout of 0 for none.                                                  *)
ASSUME TimesAssumption ==
    /\ Timeout \in Nat \ {0} /\ MaxRetries \in Nat /\ MaxBackoff \in Nat /\ ReclaimAfter \in Nat
    /\ Rescan \in BOOLEAN
    /\ Durations \subseteq 0..Timeout
    /\ RetryAfters \subseteq Int \cup {NoHeader}

(* The defaults keep every backoff under the clamp: 2s, then 4s. *)
ASSUME BackoffAssumption == \A n \in 0..(MaxRetries - 1) : Backoff(n) \in 0..MaxBackoff

(* The server does not start otherwise. *)
ASSUME StartupAssumption == WorstCase < ReclaimAfter

(* A reply that parses has numbers where the schema asks for numbers. *)
Lines == [amount : Int, informational : BOOLEAN]
ASSUME OutputsAssumption ==
    \A output \in Outputs :
        /\ output.total \in Int
        /\ output.subtotal \in Int \cup {NoSubtotal}
        /\ output.items \in Seq(Lines)

VARIABLES
    knownKind,   \* the row's kind in verify mode, NoKind in extraction mode
    pc,
    attempt,     \* of the request being sent
    elapsed,     \* seconds since the call began
    requests,    \* HTTP requests sent
    first,       \* the first result, kept while the rescan runs
    outcome,     \* the result returned, or which budget the error spends
    \* history, read by properties only
    document     \* what the latest reply that parsed said

vars == <<knownKind, pc, attempt, elapsed, requests, first, outcome, document>>

-----------------------------------------------------------------------------
(* parseResponse().  The model answers in main units; an amount here is    *)
(* what toCents() hands to llround(), amount * 100, in tenths.             *)

Abs(n) == IF n < 0 THEN -n ELSE n

(* llround(amount * 100): half away from zero. *)
MutantToCentsFloors(n) == (n + 5) \div 10
ToCents(n) == IF n < 0 THEN -((5 - n) \div 10) ELSE (n + 5) \div 10

(* A negative line is kept, as its magnitude, on a refund docket only. *)
Kept(kind, line) == ToCents(line.amount) >= 0 \/ kind = "refund"

(* A line as an item; the sign of its amount is dropped. *)
ToItem(line) ==
    [amountCents |-> Abs(ToCents(line.amount)), informational |-> line.informational]

(* A 200 reply becomes a result; the subtotal stays in raw.output.  An     *)
(* item is known by the position of its line.                              *)
ParseResponse(output) ==
    LET kind == IF knownKind = NoKind THEN output.kind ELSE knownKind
        kept == {i \in DOMAIN output.items : Kept(kind, output.items[i])}
    IN  [kind |-> kind,
         totalCents |-> Abs(ToCents(output.total)),
         subtotal |-> IF output.subtotal = NoSubtotal THEN NoSubtotal
                      ELSE Abs(ToCents(output.subtotal)),
         items |-> [i \in kept |-> ToItem(output.items[i])]]

(* itemsAddUp(): to the total or to the printed subtotal. *)
ItemsAddUp(result) ==
    LET sum == MapThenSumSet(LAMBDA i : result.items[i].amountCents,
                             {i \in DOMAIN result.items : ~result.items[i].informational})
    IN  DOMAIN result.items = {} \/ sum = result.totalCents \/ sum = result.subtotal

NoResult == [kind |-> "none"]

-----------------------------------------------------------------------------
(* The rescan is not retried. *)
MutantRetryLimitAlways == MaxRetries
RetryLimit == IF first = NoResult THEN MaxRetries ELSE 0

MutantExhaustedLate == attempt > RetryLimit
Exhausted == attempt >= RetryLimit

(* How long send() sleeps before the next attempt. *)
Delay(header) ==
    CASE header = NoHeader -> Backoff(attempt)
      [] header # NoHeader /\ header < 0 -> 0
      [] header # NoHeader /\ header > MaxBackoff -> MaxBackoff
      [] OTHER -> header

(* An exception: it ends the call, unless the first result can stand. *)
MutantFailsAlways(error) == pc' = "failed" /\ outcome' = error
Fails(error) ==
    IF first = NoResult
    THEN pc' = "failed" /\ outcome' = error
    ELSE pc' = "returned" /\ outcome' = first

Sent(seconds) ==
    /\ pc = "sending"
    /\ requests' = requests + 1
    /\ elapsed' = elapsed + seconds

(* buildRequest(): an image that is not WebP, JPEG, PNG or GIF. *)
BadImage ==
    /\ pc = "build"
    /\ Fails("scan")
    /\ UNCHANGED <<knownKind, attempt, elapsed, requests, first, document>>

BuildRequest ==
    /\ pc = "build"
    /\ pc' = "sending"
    /\ UNCHANGED <<knownKind, attempt, elapsed, requests, first, outcome, document>>

(* A 200 reply that parses: returned, or kept while a rescan is sent. *)
Reply(seconds, output) ==
    LET result == ParseResponse(output) IN
    /\ Sent(seconds)
    /\ \/ /\ first = NoResult /\ Rescan /\ ~ItemsAddUp(result)
          /\ first' = result
          /\ attempt' = 0
          /\ UNCHANGED <<pc, outcome>>
       \/ /\ first # NoResult \/ ~Rescan \/ ItemsAddUp(result)
          /\ pc' = "returned"
          /\ outcome' = result
          /\ UNCHANGED <<first, attempt>>
    /\ document' = output
    /\ UNCHANGED knownKind

(* A ScanError: a status that is not retryable, a refusal, a reply that is *)
(* cut off or does not match the schema, an unreadable document.           *)
Refused(seconds) ==
    /\ Sent(seconds)
    /\ Fails("scan")
    /\ UNCHANGED <<knownKind, attempt, first, document>>

(* 408, 429 or 5xx: sleep and send again, until the retries are spent. *)
Retry(seconds, header) ==
    /\ ~Exhausted
    /\ Sent(seconds + Delay(header))
    /\ attempt' = attempt + 1
    /\ UNCHANGED <<knownKind, pc, first, outcome, document>>

RetriesSpent(seconds) ==
    /\ Exhausted
    /\ Sent(seconds)
    /\ Fails("infra")
    /\ UNCHANGED <<knownKind, attempt, first, document>>

(* A network error, the timeout, or a 200 reply whose envelope has a field *)
(* of the wrong type: not retried.                                         *)
NetworkError(seconds) ==
    /\ Sent(seconds)
    /\ Fails("infra")
    /\ UNCHANGED <<knownKind, attempt, first, document>>

Done == pc \in {"returned", "failed"} /\ UNCHANGED vars

Init ==
    /\ knownKind \in KnownKinds \cup {NoKind}
    /\ pc = "build"
    /\ attempt = 0
    /\ elapsed = 0
    /\ requests = 0
    /\ first = NoResult
    /\ outcome = "none"
    /\ document = NoResult

Next ==
    \/ BuildRequest \/ BadImage
    \/ \E seconds \in Durations :
           \/ \E output \in Outputs : Reply(seconds, output)
           \/ \E header \in RetryAfters : Retry(seconds, header)
           \/ Refused(seconds) \/ RetriesSpent(seconds) \/ NetworkError(seconds)
    \/ Done

Spec == Init /\ [][Next]_vars

-----------------------------------------------------------------------------
(* Properties.                                                             *)

(* The domains of the locals of scanReceipt() and send(). *)
TypeOK ==
    /\ knownKind \in KnownKinds \cup {NoKind}
    /\ pc \in {"build", "sending", "returned", "failed"}
    /\ attempt \in 0..MaxRetries
    /\ elapsed \in Nat
    /\ requests \in Nat

(* A live call never outlasts the reclaim window, whatever is slow, busy   *)
(* or rescanned, so its receipt is not scanned twice on its account (the   *)
(* startup check of checkedAnthropicConfig covers every path of            *)
(* scanReceipt).                                                           *)
CallFitsReclaimWindow == elapsed < ReclaimAfter

(* One scan costs at most one request per retry, the first try and the     *)
(* rescan.                                                                 *)
RequestsBounded == requests <= MaxRetries + 2

(* Why: the first request has spent at most its attempts so far, a rescan  *)
(* starts after at most every attempt, and is a single one.                *)
Slot == Timeout + MaxBackoff
TimeSpent ==
    /\ pc \in {"build", "sending"} /\ first = NoResult =>
           elapsed <= attempt * Slot /\ requests <= attempt
    /\ pc \in {"build", "sending"} /\ first # NoResult =>
           /\ Rescan /\ attempt = 0
           /\ elapsed <= (MaxRetries + 1) * Slot /\ requests <= MaxRetries + 1
    /\ pc \in {"returned", "failed"} => elapsed <= WorstCase /\ requests <= MaxRetries + 2

(* "The rescan is best-effort: if it fails, the first scan stands": once a *)
(* reply was read, no refusal, outage or timeout turns the scan into a     *)
(* failure.                                                                *)
FirstScanStands == [][first # NoResult => pc' # "failed"]_vars

(* The result handed to the worker is the reading of one document, the     *)
(* latest that could be read, also when the rescan says something else or  *)
(* fails: its kind is the row's or the document's, every amount is the     *)
(* nearest cent to what is printed, a half rounded up, whether a docket    *)
(* prints its amounts positive or negative, and the only lines left out    *)
(* are discounts of half a cent or more on something other than a refund   *)
(* (toCents, parseResponse, scanReceipt).                                  *)
NearestCent(cents, amount) == cents >= 0 /\ 10 * cents - Abs(amount) \in (-4)..5
Reads(result, output) ==
    /\ result.kind = IF knownKind = NoKind THEN output.kind ELSE knownKind
    /\ NearestCent(result.totalCents, output.total)
    /\ DOMAIN result.items =
           {i \in DOMAIN output.items : result.kind = "refund" \/ output.items[i].amount > -5}
    /\ \A i \in DOMAIN result.items :
           /\ NearestCent(result.items[i].amountCents, output.items[i].amount)
           /\ result.items[i].informational = output.items[i].informational
ReturnsLatestReading == pc = "returned" => Reads(outcome, document)

=============================================================================
