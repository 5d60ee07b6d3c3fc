-------------------------------- MODULE Auth --------------------------------
(***************************************************************************)
(* Accounts and sessions: AuthService (src/auth), the handlers of          *)
(* AuthController and the SessionAuthFilter in front of every other route. *)
(*                                                                         *)
(* A request occupies a call; every step of it is one awaited statement,   *)
(* the unit at which the server's coroutines interleave.  A transaction    *)
(* that is not rolled back commits in its destructor, which nobody waits   *)
(* for: the commit is a step of its own, while the request goes on.        *)
(*                                                                         *)
(* Accounts are never deleted and an email is unique, so a user is known   *)
(* by its email.  users.email ignores case, the limiters do not: a request *)
(* sends a spelling, which names an account.  Raw tokens are random: a     *)
(* token is the number of its drawing.  Time is a clock in ticks.          *)
(***************************************************************************)
EXTENDS RateLimiter, Sequences

CONSTANTS
    Emails,          \* values of users.email, equal up to case (CITEXT)
    Spellings,       \* the email strings that requests send
    Account,         \* the email that a spelling is equal to in the database
    Existing,        \* the accounts registered before the model starts
    Sources,         \* peer addresses
    Passwords,
    Calls,           \* requests that may be in flight at once
    Lifetime,        \* kSessionLifetimeSeconds
    TouchInterval,   \* SESSION_TOUCH_INTERVAL
    ResetLifetime,   \* interval '1 hour'
    VerifyLifetime,  \* interval '24 hours'
    None,            \* no user, no session, no token
    Loads,           \* bound: the requests of a behaviour, which and how many
    MaxTokens,       \* bound: tokens drawn
    MaxTime,         \* bound: ticks
    MaxFaults        \* bound: failed statements, lost commits, crashes

(* The rows of users, sessions and auth_tokens.  A users row also tells    *)
(* whether its seeds were written with it.                                 *)
Users == [password : Passwords, verified : BOOLEAN, seeded : BOOLEAN]
Sessions == [user : Emails, expires : Nat, used : Nat]
AuthTokens == [user : Emails, purpose : {"verify", "reset"}, expires : Nat]

(* The keys of the limiters. *)
Keys == Sources \cup Spellings

(* Requests to come: their kinds, the keys they come with, how many.       *)
RequestKinds == {"register", "login", "validate", "logout", "forgot", "reset", "verify"}
RequestLoads == [kinds : SUBSET RequestKinds, keys : SUBSET Keys, left : Nat]

ASSUME AuthAssumption ==
    /\ Existing \subseteq Emails
    /\ Account \in [Spellings -> Emails]
    /\ Sources \cap Spellings = {}
    /\ None \notin Emails \cup Passwords \cup Users \cup Sessions \cup AuthTokens
    /\ Lifetime \in Nat
    /\ TouchInterval \in 0..Lifetime
    /\ ResetLifetime \in Nat
    /\ VerifyLifetime \in Nat
    /\ Loads \subseteq RequestLoads
    /\ MaxTokens \in Nat
    /\ MaxTime \in Nat
    /\ MaxFaults \in Nat

VARIABLES
    users,       \* users rows by email
    sessions,    \* sessions rows by token
    tokens,      \* auth_tokens rows by token
    attempts,    \* the four limiters: login and register, by source and by spelling
    call,        \* the requests in flight
    now,         \* now() and steady_clock
    drawn,       \* tokens drawn so far
    requests,    \* the requests still to come
    faults,
    \* history, read by properties only
    created,     \* 201 answers to registrations of an email
    swept,       \* the last token drawn before the latest reset deleted an account's sessions
    admitted     \* when this process let a login of a limiter's key pass, in order

boundVars == <<now, drawn, requests, faults>>
historyVars == <<created, swept, admitted>>
vars == <<users, sessions, tokens, attempts, call, boundVars, historyVars>>

Tokens == 1..MaxTokens
Limiters == {"login", "register"}
NoAttempts == [l \in Limiters |-> [k \in Keys |-> NoEntry]]
NoAdmissions == [k \in Keys |-> <<>>]

(* A call: where it is, what it was asked, how far its transaction got,    *)
(* the sessions its DELETE found, the tokens drawn by then, and when a     *)
(* statement that waits began.                                             *)
NoCall == [pc |-> "idle", email |-> None, password |-> None, token |-> 0, txn |-> "none",
           seeded |-> FALSE, doomed |-> {}, mark |-> 0, began |-> 0]

Registering == {"insert", "seed", "verify", "refused"}
Resetting == {"update", "sweep", "reset"}

-----------------------------------------------------------------------------
Fault == faults < MaxFaults /\ faults' = faults + 1

(* A request of the kind comes in, at a free call unless it is one step. *)
Comes(kind) ==
    /\ kind \in requests.kinds
    /\ requests.left > 0
    /\ requests' = [requests EXCEPT !.left = @ - 1]
Arrives(c, kind) == call[c] = NoCall /\ Comes(kind)

(* The statement fails: an open transaction rolls back, the request is     *)
(* answered 500.  A commit already sent goes its own way.                  *)
MutantFailedCommits(c) ==
    IF call[c].txn \in {"open", "committing"}
    THEN [call[c] EXCEPT !.pc = "refused", !.txn = "committing"] ELSE NoCall
MutantFailedLeaksTransaction(c) ==
    IF call[c].txn \in {"open", "committing"} THEN [call[c] EXCEPT !.pc = "refused"] ELSE NoCall
Failed(c) == IF call[c].txn = "committing" THEN [call[c] EXCEPT !.pc = "refused"] ELSE NoCall

Draw == drawn < MaxTokens /\ drawn' = drawn + 1

(* Another transaction on the same account holds its row or index entry. *)
Uncontended(c, pcs) ==
    \A d \in Calls \ {c} :
        ~(/\ call[d].email = call[c].email
          /\ call[d].pc \in pcs
          /\ call[d].txn \in {"open", "committing"})

(* A reset has deleted the session and not committed yet. *)
Doomed(t) == \E d \in Calls : t \in call[d].doomed

-----------------------------------------------------------------------------
(* checkRateLimit: both limiters are charged, whatever either says, one    *)
(* under the peer address, the other under the email as it was sent.       *)
Charged(l, s, n) == [attempts EXCEPT ![l][s] = Charge(@, now), ![l][n] = Charge(@, now)]
Admits(l, s, n) == Allowed(Charged(l, s, n)[l][s]) /\ Allowed(Charged(l, s, n)[l][n])

(* POST /auth/register up to the transaction, or 429. *)
RegisterStart(c) ==
    /\ Arrives(c, "register")
    /\ \E s \in Sources \cap requests.keys, n \in Spellings \cap requests.keys, p \in Passwords :
           /\ attempts' = Charged("register", s, n)
           /\ call' = [call EXCEPT ![c] =
                  IF Admits("register", s, n)
                  THEN [NoCall EXCEPT !.pc = "insert", !.email = Account[n], !.password = p]
                  ELSE NoCall]
    /\ UNCHANGED <<users, sessions, tokens, now, drawn, faults, historyVars>>

(* INSERT INTO users.  The unique index makes a second registration wait   *)
(* for the first, then fail (409), or go on if the first rolled back.      *)
RegisterInsert(c) ==
    /\ call[c].pc = "insert"
    /\ Uncontended(c, Registering)
    /\ call' = [call EXCEPT ![c] =
           IF users[call[c].email] = None
           THEN [call[c] EXCEPT !.pc = "seed", !.txn = "open"] ELSE NoCall]
    /\ UNCHANGED <<users, sessions, tokens, attempts, boundVars, historyVars>>

(* The seeds, in the same transaction, whose commit is then on its way. *)
RegisterSeed(c) ==
    /\ call[c].pc = "seed"
    /\ call' = [call EXCEPT ![c].pc = "verify", ![c].seeded = TRUE, ![c].txn = "committing"]
    /\ UNCHANGED <<users, sessions, tokens, attempts, boundVars, historyVars>>

RegisterCommit(c) ==
    /\ call[c].pc \in Registering
    /\ call[c].txn = "committing"
    /\ users' = [users EXCEPT ![call[c].email] =
           [password |-> call[c].password, verified |-> FALSE, seeded |-> call[c].seeded]]
    /\ call' = [call EXCEPT ![c] =
           IF call[c].pc = "refused" THEN NoCall ELSE [call[c] EXCEPT !.txn = "committed"]]
    /\ UNCHANGED <<sessions, tokens, attempts, boundVars, historyVars>>

(* The foreign key of auth_tokens sees committed users only. *)
MutantUserVisibleAlways(c) == call[c].email # None
UserVisible(c) == call[c].txn = "committed"

(* requestEmailVerification, on a connection of its own, and 201.  If the  *)
(* commit has not landed the INSERT fails, and with it the request (500).  *)
RequestEmailVerification(c) ==
    /\ call[c].pc = "verify"
    /\ \/ /\ UserVisible(c)
          /\ Draw
          /\ tokens' = [tokens EXCEPT ![drawn'] =
                 [user |-> call[c].email, purpose |-> "verify", expires |-> now + VerifyLifetime]]
          /\ created' = [created EXCEPT ![call[c].email] = @ + 1]
          /\ call' = [call EXCEPT ![c] = NoCall]
       \/ /\ ~UserVisible(c)
          /\ call' = [call EXCEPT ![c] = Failed(c)]
          /\ UNCHANGED <<drawn, tokens, created>>
    /\ UNCHANGED <<users, sessions, attempts, now, requests, faults, swept, admitted>>

-----------------------------------------------------------------------------
(* POST /auth/login: limiters, SELECT, verify; 429 and 401 end it here. *)
PasswordMatches(e, p) == users[e] # None /\ users[e].password = p
LoginStart(c) ==
    /\ Arrives(c, "login")
    /\ \E s \in Sources \cap requests.keys, n \in Spellings \cap requests.keys, p \in Passwords :
           /\ attempts' = Charged("login", s, n)
           /\ call' = [call EXCEPT ![c] =
                  IF Admits("login", s, n) /\ PasswordMatches(Account[n], p)
                  THEN [NoCall EXCEPT !.pc = "issue", !.email = Account[n]] ELSE NoCall]
           /\ admitted' =
                  IF Admits("login", s, n)
                  THEN [admitted EXCEPT ![s] = Append(@, now), ![n] = Append(@, now)] ELSE admitted
    /\ UNCHANGED <<users, sessions, tokens, now, drawn, faults, created, swept>>

(* INSERT INTO sessions; the cookie goes out. *)
LoginIssue(c) ==
    /\ call[c].pc = "issue"
    /\ Draw
    /\ sessions' = [sessions EXCEPT ![drawn'] =
           [user |-> call[c].email, expires |-> now + Lifetime, used |-> now]]
    /\ call' = [call EXCEPT ![c] = NoCall]
    /\ UNCHANGED <<users, tokens, attempts, now, requests, faults, historyVars>>

(* SessionAuthFilter, validateSession: the session is valid now... *)
ValidateSelect(c) ==
    /\ Arrives(c, "validate")
    /\ \E t \in Tokens :
           /\ sessions[t] # None
           /\ sessions[t].expires > now
           /\ call' = [call EXCEPT ![c] =
                  [NoCall EXCEPT !.pc = "touch", !.email = sessions[t].user, !.token = t]]
    /\ UNCHANGED <<users, sessions, tokens, attempts, now, drawn, faults, historyVars>>

(* ... and is extended if its last extension is older than the touch       *)
(* interval, at the time m that the UPDATE began.  An UPDATE of a session  *)
(* that is gone finds no row.  used is history: the latest validation.     *)
MutantStaleWhenExpired(s, m) == s.expires < m
Stale(s, m) == s.expires < m + Lifetime - TouchInterval

MutantTouchedInserts(t, user, m) == [user |-> user, expires |-> m + Lifetime, used |-> m]
Touched(t, user, m) ==
    IF sessions[t] = None
    THEN None
    ELSE [sessions[t] EXCEPT !.used = IF m > @ THEN m ELSE @,
                             !.expires = IF Stale(sessions[t], m) THEN m + Lifetime ELSE @]

(* The UPDATE waits for a reset that deletes the row it would extend; its  *)
(* now() is that of its beginning.                                         *)
Blocked(t) == Doomed(t) /\ sessions[t] # None /\ Stale(sessions[t], now)
TouchWait(c) ==
    /\ call[c].pc = "touch"
    /\ Blocked(call[c].token)
    /\ call' = [call EXCEPT ![c].pc = "waiting", ![c].began = now]
    /\ UNCHANGED <<users, sessions, tokens, attempts, boundVars, historyVars>>

ValidateTouch(c) ==
    LET t == call[c].token
        m == IF call[c].pc = "waiting" THEN call[c].began ELSE now IN
    /\ \/ call[c].pc = "touch" /\ ~Blocked(t)
       \/ call[c].pc = "waiting" /\ ~Doomed(t)
    /\ sessions' = [sessions EXCEPT ![t] = Touched(t, call[c].email, m)]
    /\ call' = [call EXCEPT ![c] = NoCall]
    /\ UNCHANGED <<users, tokens, attempts, boundVars, historyVars>>

(* POST /auth/logout: one DELETE. *)
Logout(t) ==
    /\ Comes("logout")
    /\ sessions[t] # None
    /\ ~Doomed(t)
    /\ sessions' = [sessions EXCEPT ![t] = None]
    /\ UNCHANGED <<users, tokens, attempts, call, now, drawn, faults, historyVars>>

-----------------------------------------------------------------------------
(* requestPasswordReset of an account that exists (any other only answers  *)
(* 200).  Its SELECT reads an id that never changes, so it needs no step.  *)
RequestPasswordReset(e) ==
    /\ Comes("forgot")
    /\ users[e] # None
    /\ Draw
    /\ tokens' = [tokens EXCEPT ![drawn'] =
           [user |-> e, purpose |-> "reset", expires |-> now + ResetLifetime]]
    /\ UNCHANGED <<users, sessions, attempts, call, now, faults, historyVars>>

(* The SELECT of both confirmations: a token of the purpose, unexpired. *)
MutantUsableAnyPurpose(t, purpose) == tokens[t] # None /\ tokens[t].expires > now
Usable(t, purpose) ==
    /\ tokens[t] # None
    /\ tokens[t].purpose = purpose
    /\ tokens[t].expires > now

ConfirmStart(c, purpose, pc) ==
    /\ Arrives(c, purpose)
    /\ \E t \in Tokens, p \in Passwords :
           /\ Usable(t, purpose)
           /\ call' = [call EXCEPT ![c] =
                  [NoCall EXCEPT !.pc = pc, !.email = tokens[t].user, !.token = t, !.password = p]]
    /\ UNCHANGED <<users, sessions, tokens, attempts, now, drawn, faults, historyVars>>

(* confirmPasswordReset: UPDATE users locks the row... *)
ResetUpdate(c) ==
    /\ call[c].pc = "update"
    /\ Uncontended(c, Resetting)
    /\ call' = [call EXCEPT ![c].pc = "sweep", ![c].txn = "open"]
    /\ UNCHANGED <<users, sessions, tokens, attempts, boundVars, historyVars>>

SessionsOf(e) == {t \in Tokens : sessions[t] # None /\ sessions[t].user = e}

(* ... the sessions there are now go, then the token; 200.                 *)
Found(c) == SessionsOf(call[c].email)

ResetSweep(c) ==
    /\ call[c].pc = "sweep"
    /\ call' = [call EXCEPT ![c].pc = "reset", ![c].txn = "committing", ![c].doomed = Found(c),
                            ![c].mark = drawn]
    /\ UNCHANGED <<users, sessions, tokens, attempts, boundVars, historyVars>>

ResetCommit(c) ==
    LET e == call[c].email IN
    /\ call[c].pc = "reset"
    /\ users' = [users EXCEPT ![e].password = call[c].password]
    /\ sessions' = [t \in Tokens |-> IF t \in call[c].doomed THEN None ELSE sessions[t]]
    /\ tokens' = [tokens EXCEPT ![call[c].token] = None]
    /\ swept' = [swept EXCEPT ![e] = call[c].mark]
    /\ call' = [call EXCEPT ![c] = NoCall]
    /\ UNCHANGED <<attempts, boundVars, created, admitted>>

(* confirmEmailVerification: two statements, each committed by itself. *)
VerifyUpdate(c) ==
    /\ call[c].pc = "mark"
    /\ Uncontended(c, Resetting)
    /\ users' = [users EXCEPT ![call[c].email].verified = TRUE]
    /\ call' = [call EXCEPT ![c].pc = "spend"]
    /\ UNCHANGED <<sessions, tokens, attempts, boundVars, historyVars>>

VerifyDelete(c) ==
    /\ call[c].pc = "spend"
    /\ tokens' = [tokens EXCEPT ![call[c].token] = None]
    /\ call' = [call EXCEPT ![c] = NoCall]
    /\ UNCHANGED <<users, sessions, attempts, boundVars, historyVars>>

-----------------------------------------------------------------------------
Tick ==
    /\ now < MaxTime
    /\ now' = now + 1
    /\ UNCHANGED <<users, sessions, tokens, attempts, call, drawn, requests, faults, historyVars>>

(* A statement fails. *)
CallFails(c) ==
    /\ Fault
    /\ call[c].pc \notin {"idle", "refused", "reset"}
    /\ call' = [call EXCEPT ![c] = Failed(c)]
    /\ UNCHANGED <<users, sessions, tokens, attempts, now, drawn, requests, historyVars>>

(* A commit is lost in the destructor, after the answer or before it. *)
CommitLost(c) ==
    /\ Fault
    /\ call[c].txn = "committing"
    /\ call' = [call EXCEPT ![c] =
           IF call[c].pc = "verify" THEN [call[c] EXCEPT !.txn = "none"] ELSE NoCall]
    /\ UNCHANGED <<users, sessions, tokens, attempts, now, drawn, requests, historyVars>>

(* The process dies: open transactions roll back, the limiters are gone. *)
Crash ==
    /\ Fault
    /\ call' = [c \in Calls |-> NoCall]
    /\ attempts' = NoAttempts
    /\ admitted' = NoAdmissions
    /\ UNCHANGED <<users, sessions, tokens, now, drawn, requests, created, swept>>

Init ==
    /\ \E p \in Passwords :
           users = [e \in Emails |->
               IF e \in Existing THEN [password |-> p, verified |-> FALSE, seeded |-> TRUE] ELSE None]
    /\ sessions = [t \in Tokens |-> None]
    /\ tokens = [t \in Tokens |-> None]
    /\ attempts = NoAttempts
    /\ call = [c \in Calls |-> NoCall]
    /\ now = 0
    /\ drawn = 0
    /\ requests \in Loads
    /\ faults = 0
    /\ created = [e \in Emails |-> IF e \in Existing THEN 1 ELSE 0]
    /\ swept = [e \in Emails |-> 0]
    /\ admitted = NoAdmissions

Start(c) ==
    \/ RegisterStart(c) \/ LoginStart(c) \/ ValidateSelect(c)
    \/ ConfirmStart(c, "reset", "update") \/ ConfirmStart(c, "verify", "mark")

Step(c) ==
    \/ RegisterInsert(c) \/ RegisterSeed(c) \/ RegisterCommit(c) \/ RequestEmailVerification(c)
    \/ LoginIssue(c) \/ TouchWait(c) \/ ValidateTouch(c)
    \/ ResetUpdate(c) \/ ResetSweep(c) \/ ResetCommit(c)
    \/ VerifyUpdate(c) \/ VerifyDelete(c)

(* Every request of the model is answered, and its clock has run out. *)
Finished ==
    /\ requests.left = 0
    /\ now = MaxTime
    /\ \A c \in Calls : call[c] = NoCall
    /\ UNCHANGED vars

Next ==
    \/ \E c \in Calls : Start(c) \/ Step(c) \/ CallFails(c) \/ CommitLost(c)
    \/ \E t \in Tokens : Logout(t)
    \/ \E e \in Emails : RequestPasswordReset(e)
    \/ Tick
    \/ Crash
    \/ Finished

Spec == Init /\ [][Next]_vars

(* Statements return and commits land; users owe nothing. *)
Fairness == \A c \in Calls : WF_vars(Step(c))

FairSpec == Spec /\ Fairness

-----------------------------------------------------------------------------
(* Properties.                                                             *)

CallLocals ==
    [pc : {"idle", "issue", "touch", "waiting", "mark", "spend"} \cup Registering \cup Resetting,
     email : Emails \cup {None}, password : Passwords \cup {None}, token : Tokens \cup {0},
     txn : {"none", "open", "committing", "committed"}, seeded : BOOLEAN,
     doomed : SUBSET Tokens, mark : Nat, began : Nat]

(* The domain of every table, limiter and local.                           *)
TypeOK ==
    /\ users \in [Emails -> Users \cup {None}]
    /\ sessions \in [Tokens -> Sessions \cup {None}]
    /\ tokens \in [Tokens -> AuthTokens \cup {None}]
    /\ attempts \in [Limiters -> [Keys -> [windowStart : Nat, count : Nat]]]
    /\ call \in [Calls -> CallLocals]
    /\ now \in 0..MaxTime
    /\ drawn \in 0..MaxTokens
    /\ requests \in RequestLoads
    /\ faults \in 0..MaxFaults
    /\ created \in [Emails -> Nat]
    /\ swept \in [Emails -> Nat]
    /\ admitted \in [Keys -> Seq(0..MaxTime)]

(* Sliding expiry, write-throttled: a session in use stays valid for at    *)
(* least the lifetime less one touch interval after its last validation,   *)
(* and for no longer than the lifetime, however validations of one session *)
(* overlap, wait for a reset or run late (validateSession).                *)
SlidingExpiry ==
    \A t \in Tokens : sessions[t] # None =>
        /\ sessions[t].used <= now
        /\ sessions[t].expires >= sessions[t].used + Lifetime - TouchInterval
        /\ sessions[t].expires <= sessions[t].used + Lifetime

(* An email is registered once, and a 201 is about an account that is      *)
(* there: although nobody waits for the commit of registerUser, and two    *)
(* registrations race, the token's foreign key answers only after it.      *)
AnsweredAccountsExist ==
    \A e \in Emails : created[e] <= 1 /\ (created[e] = 1 => users[e] # None)

(* Equal-tenant registration: an account is there with its seeds or not at *)
(* all, through failures at every statement, lost commits and crashes      *)
(* (the explicit rollback of registerUser against the committing           *)
(* destructor).                                                            *)
AccountsAreSeeded == \A e \in Emails : users[e] # None => users[e].seeded

(* An email is verified only by the token of its own registration: a       *)
(* password reset never verifies it, nor does the account of a             *)
(* registration that failed after its commit was sent.  A verification     *)
(* under way, one that races another of the same token or a crash          *)
(* included, acts for a token drawn to verify, perhaps spent by then       *)
(* (confirmEmailVerification).                                             *)
VerifiedByRegistration ==
    /\ \A e \in Emails : users[e] # None /\ users[e].verified => created[e] = 1
    /\ \A c \in Calls : call[c].pc \in {"mark", "spend"} =>
           LET token == tokens[call[c].token] IN
           token # None => token.purpose = "verify" /\ token.user = call[c].email

(* confirmPasswordReset "invalidates ALL of the user's existing sessions": *)
(* once it commits, no session opened before its DELETE is left or comes   *)
(* back, whichever validations were under way.                             *)
ResetEndsOlderSessions ==
    \A t \in Tokens : sessions[t] # None => t > swept[sessions[t].user]

(* The fixed window lets fewer than twice the limit of logins of one key,  *)
(* a peer address or an email as it is spelled, pass in any span of one    *)
(* window's length, across the edge between two windows, although an       *)
(* attempt the other key's limiter refuses opens or fills the window too:  *)
(* of 2 * MaxAttempts admissions in a row the last is more than a window   *)
(* after the first (RateLimiter::allow, checkRateLimit).  The bound is not *)
(* one per account: each spelling of an email has a window of its own.     *)
BurstSpan == 2 * MaxAttempts - 1
LoginBurstBounded ==
    \A k \in Keys : \A i, j \in 1..Len(admitted[k]) :
        j - i >= BurstSpan => admitted[k][j] - admitted[k][i] > Window

(* Every request is answered and its transaction ends: no registration     *)
(* waits for ever on the unique index, no validation on a reset.           *)
EveryCallAnswers == \A c \in Calls : call[c] # NoCall ~> call[c] = NoCall

=============================================================================
