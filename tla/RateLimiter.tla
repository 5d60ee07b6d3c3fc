----------------------------- MODULE RateLimiter -----------------------------
(***************************************************************************)
(* The in-memory fixed-window limiter of src/auth/RateLimiter.h: an entry  *)
(* per key, charged on every attempt.  allow() runs under a mutex, so a    *)
(* charge is one step; the entries live as long as the process.            *)
(***************************************************************************)
EXTENDS Integers

CONSTANTS
    MaxAttempts,   \* RATE_LIMIT_MAX_ATTEMPTS
    Window         \* RATE_LIMIT_WINDOW_SECONDS, in ticks of the clock

ASSUME LimiterAssumption == MaxAttempts \in Nat /\ Window \in Nat

(* A key without an attempt: attempts_[key] makes its Entry, which starts  *)
(* its window at that moment.                                              *)
NoEntry == [windowStart |-> 0, count |-> 0]

(* The key has no window yet, or its window is over. *)
MutantWindowOverAlways(entry, now) == entry.count = 0 \/ now - entry.windowStart >= 0
WindowOver(entry, now) == entry.count = 0 \/ now - entry.windowStart > Window

(* allow(): one more attempt in the current window, or the first of a new  *)
(* one.                                                                    *)
Charge(entry, now) ==
    IF WindowOver(entry, now)
    THEN [windowStart |-> now, count |-> 1]
    ELSE [entry EXCEPT !.count = @ + 1]

Allowed(entry) == entry.count <= MaxAttempts

=============================================================================
