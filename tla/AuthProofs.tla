----------------------------- MODULE AuthProofs -----------------------------
(***************************************************************************)
(* Proofs about Auth, for any accounts, requests, tokens, clock and faults:*)
(* its safety properties follow from one inductive invariant.              *)
(***************************************************************************)
EXTENDS Auth, TLAPS

(* Whatever carries a token number was given one that is drawn. *)
NumbersAreDrawn ==
    /\ \A t \in Tokens : sessions[t] # None \/ tokens[t] # None => t <= drawn
    /\ \A e \in Emails : swept[e] <= drawn

(* A token belongs to an account, and the token that verifies an email to  *)
(* one whose registration was answered.                                    *)
TokensHaveOwners ==
    \A t \in Tokens : tokens[t] # None =>
        /\ users[tokens[t].user] # None
        /\ tokens[t].purpose = "verify" => created[tokens[t].user] = 1

(* A verified email is one whose registration was answered. *)
VerifiedAnswered == \A e \in Emails : users[e] # None /\ users[e].verified => created[e] = 1

TablesOK ==
    /\ SlidingExpiry
    /\ AnsweredAccountsExist
    /\ AccountsAreSeeded
    /\ VerifiedAnswered
    /\ ResetEndsOlderSessions
    /\ NumbersAreDrawn
    /\ TokensHaveOwners

(* The token a verification acts for: drawn to verify the email it marks,  *)
(* perhaps spent by now.                                                   *)
HoldsVerifyToken(k) ==
    /\ k.token <= drawn
    /\ tokens[k.token] # None =>
           tokens[k.token].purpose = "verify" /\ tokens[k.token].user = k.email

(* What a request k knows at each of its statements. *)
CallKnows(k) ==
    /\ k.pc # "idle" => k.email \in Emails
    /\ k.pc \in Registering \cup Resetting => k.password \in Passwords
    /\ k.pc \in {"touch", "waiting", "mark", "spend"} \cup Resetting => k.token \in Tokens
    /\ k.pc \in {"mark", "spend"} \cup Resetting => users[k.email] # None
    /\ k.pc \in {"mark", "spend"} => created[k.email] = 1 /\ HoldsVerifyToken(k)
    /\ k.pc = "waiting" => k.began <= now

(* How far its transaction is, and what the tables look like from there: a *)
(* registration that has not committed is the first of its email.          *)
TransactionKnows(k) ==
    /\ k.pc \notin {"seed", "verify", "refused", "sweep", "reset"} => k.txn = "none"
    /\ k.pc \in {"seed", "sweep"} => k.txn = "open"
    /\ k.pc = "refused" => k.txn = "committing"
    /\ k.pc \in {"verify", "refused"} => k.seeded = TRUE
    /\ k.pc \in Registering /\ k.txn \in {"open", "committing"} =>
           users[k.email] = None /\ created[k.email] = 0
    /\ k.pc \in Registering /\ k.txn = "committed" =>
           k.pc = "verify" /\ users[k.email] # None /\ created[k.email] = 0

(* A reset that is about to commit deletes all the sessions of its account *)
(* that were opened before its DELETE.                                     *)
SweepIsComplete(k) ==
    /\ k.mark <= drawn
    /\ k.pc = "reset" =>
           \A t \in Tokens :
               sessions[t] # None /\ sessions[t].user = k.email /\ t <= k.mark => t \in k.doomed

CallOK(k) == CallKnows(k) /\ TransactionKnows(k) /\ SweepIsComplete(k)

(* Two requests never register the same email at once. *)
InRegistration(k) == k.pc \in Registering /\ k.txn # "none"
OneRegistration ==
    \A c, d \in Calls :
        InRegistration(call[c]) /\ InRegistration(call[d]) /\ call[c].email = call[d].email => c = d

CallsOK == (\A c \in Calls : CallOK(call[c])) /\ OneRegistration

AuthInvariant == TypeOK /\ TablesOK /\ CallsOK

-----------------------------------------------------------------------------
(* The tables stand as long as nothing writes them. *)
LEMMA TablesStand ==
    ASSUME TablesOK, UNCHANGED <<users, sessions, tokens, now, drawn, created, swept>>
    PROVE  TablesOK'
<1>1. SlidingExpiry' /\ ResetEndsOlderSessions'
  BY DEF TablesOK, SlidingExpiry, ResetEndsOlderSessions
<1>2. AnsweredAccountsExist' /\ AccountsAreSeeded' /\ VerifiedAnswered'
  BY DEF TablesOK, AnsweredAccountsExist, AccountsAreSeeded, VerifiedAnswered
<1>3. NumbersAreDrawn' /\ TokensHaveOwners'
  BY DEF TablesOK, NumbersAreDrawn, TokensHaveOwners
<1> QED BY <1>1, <1>2, <1>3 DEF TablesOK

(* Time goes on, and a token that was drawn is spent or left as it is. *)
TokensStand ==
    /\ now <= now'
    /\ \A t \in Tokens : tokens'[t] # None /\ t <= drawn => tokens'[t] = tokens[t]

LEMMA VerifyTokenStands ==
    ASSUME TypeOK, TypeOK', NEW k \in CallLocals, k.token \in Tokens, HoldsVerifyToken(k),
           drawn <= drawn', TokensStand
    PROVE  HoldsVerifyToken(k)'
<1>1. k.token \in Nat /\ drawn \in Nat /\ drawn' \in Nat
  BY AuthAssumption DEF TypeOK, Tokens
<1> QED BY <1>1 DEF HoldsVerifyToken, TokensStand

LEMMA WaitStands ==
    ASSUME TypeOK, TypeOK', NEW k \in CallLocals, k.began <= now, TokensStand
    PROVE  k.began <= now'
BY AuthAssumption DEF TypeOK, CallLocals, TokensStand

(* What a request knows stands while accounts and answers stay as they are *)
(* and no older session appears.                                           *)
LEMMA CallStands ==
    ASSUME TypeOK, TypeOK', NEW k \in CallLocals, CallOK(k), drawn <= drawn', TokensStand, UNCHANGED created,
           \A e \in Emails : users'[e] = None <=> users[e] = None,
           \A t \in Tokens : sessions'[t] # None /\ t <= drawn =>
               sessions[t] # None /\ sessions'[t].user = sessions[t].user
    PROVE  CallOK(k)'
<1>1. k.mark \in Nat /\ drawn \in Nat /\ drawn' \in Nat /\ Tokens \subseteq Nat
  BY AuthAssumption DEF CallLocals, TypeOK, Tokens
<1>2. CallKnows(k)'
  BY VerifyTokenStands, WaitStands DEF CallOK, CallKnows, Registering, Resetting
<1>3. TransactionKnows(k)'
  BY DEF CallOK, CallKnows, TransactionKnows, Registering
<1>4. SweepIsComplete(k)'
  BY <1>1 DEF CallOK, SweepIsComplete
<1> QED BY <1>2, <1>3, <1>4 DEF CallOK

(* What all requests know stands when none of them moves. *)
LEMMA CallsStand ==
    ASSUME TypeOK, TypeOK', CallsOK, drawn <= drawn', TokensStand, UNCHANGED <<call, created>>,
           \A e \in Emails : users'[e] = None <=> users[e] = None,
           \A t \in Tokens : sessions'[t] # None /\ t <= drawn =>
               sessions[t] # None /\ sessions'[t].user = sessions[t].user
    PROVE  CallsOK'
<1>1. ASSUME NEW d \in Calls PROVE CallOK(call[d])'
  <2>1. PICK j \in CallLocals : j = call[d]
    BY DEF TypeOK
  <2>2. CallOK(j)' /\ call'[d] = j
    BY <2>1, CallStands DEF CallsOK
  <2> QED BY <2>2 DEF CallOK, CallKnows, TransactionKnows, SweepIsComplete, HoldsVerifyToken
<1>2. OneRegistration'
  BY DEF CallsOK, OneRegistration, InRegistration
<1> QED BY <1>1, <1>2 DEF CallsOK

(* No other request registers k's email. *)
Alone(c, k) ==
    InRegistration(k) =>
        \A d \in Calls \ {c} : ~(InRegistration(call[d]) /\ call[d].email = k.email)

(* One request moves on, to k. *)
LEMMA CallMoves ==
    ASSUME TypeOK, CallsOK, NEW c \in Calls, NEW k \in CallLocals,
           call' = [call EXCEPT ![c] = k], CallOK(k)', Alone(c, k),
           \A j \in CallLocals : (\E d \in Calls \ {c} : j = call[d]) => CallOK(j)'
    PROVE  CallsOK' /\ call' \in [Calls -> CallLocals]
<1>1. call \in [Calls -> CallLocals]
  BY DEF TypeOK
<1>2. call' \in [Calls -> CallLocals] /\ call'[c] = k /\ \A d \in Calls \ {c} : call'[d] = call[d]
  BY <1>1
<1>3. ASSUME NEW d \in Calls PROVE CallOK(call[d])'
  <2>1. CASE d = c
    BY <2>1, <1>2 DEF CallOK, CallKnows, TransactionKnows, SweepIsComplete, HoldsVerifyToken
  <2>2. CASE d # c
    <3>1. PICK j \in CallLocals : j = call[d]
      BY <1>1
    <3>2. CallOK(j)' /\ call'[d] = j
      BY <1>2, <2>2, <3>1
    <3> QED BY <3>2 DEF CallOK, CallKnows, TransactionKnows, SweepIsComplete, HoldsVerifyToken
  <2> QED BY <2>1, <2>2
<1>4. OneRegistration'
  BY <1>2 DEF CallsOK, OneRegistration, Alone, InRegistration
<1> QED BY <1>2, <1>3, <1>4 DEF CallsOK

LEMMA NoCallOK ==
    ASSUME TypeOK'
    PROVE  NoCall \in CallLocals /\ CallOK(NoCall)' /\ \A c \in Calls : Alone(c, NoCall)
<1>1. NoCall \in CallLocals
  BY DEF NoCall, CallLocals
<1>2. CallOK(NoCall)'
  BY AuthAssumption DEF NoCall, CallOK, CallKnows, TransactionKnows, SweepIsComplete, Registering, Resetting, TypeOK
<1>3. \A c \in Calls : Alone(c, NoCall)
  BY DEF NoCall, Alone, InRegistration
<1> QED BY <1>1, <1>2, <1>3

(* A limiter's entries stay entries. *)
LEMMA ChargedType ==
    ASSUME TypeOK, NEW l \in Limiters, NEW s \in Sources, NEW n \in Spellings
    PROVE  Charged(l, s, n) \in [Limiters -> [Keys -> [windowStart : Nat, count : Nat]]]
<1> DEFINE Entry == [windowStart : Nat, count : Nat]
<1>1. \A entry \in Entry : Charge(entry, now) \in Entry
  <2>1. now \in Nat
    BY AuthAssumption DEF TypeOK
  <2>2. SUFFICES ASSUME NEW entry \in [windowStart : Nat, count : Nat]
                 PROVE  Charge(entry, now) \in [windowStart : Nat, count : Nat]
    OBVIOUS
  <2>3. entry.count + 1 \in Nat
    OBVIOUS
  <2>4. [windowStart |-> now, count |-> 1] \in [windowStart : Nat, count : Nat]
    BY <2>1
  <2>5. [entry EXCEPT !.count = entry.count + 1] \in [windowStart : Nat, count : Nat]
    BY <2>3
  <2> QED BY <2>4, <2>5 DEF Charge
<1> HIDE DEF Entry
<1>2. attempts \in [Limiters -> [Keys -> Entry]]
  BY DEF TypeOK, Entry
<1>3. Charged(l, s, n) \in [Limiters -> [Keys -> Entry]]
  BY <1>1, <1>2 DEF Charged, Keys
<1> QED BY <1>3 DEF Entry

(* The types of what no other part of the invariant mentions. *)
CountersOK ==
    /\ attempts \in [Limiters -> [Keys -> [windowStart : Nat, count : Nat]]]
    /\ requests \in RequestLoads
    /\ faults \in 0..MaxFaults
    /\ admitted \in [Keys -> Seq(0..MaxTime)]

(* A statement that writes no table. *)
LEMMA OnlyCallMoves ==
    ASSUME AuthInvariant, NEW c \in Calls, NEW k \in CallLocals, call' = [call EXCEPT ![c] = k],
           UNCHANGED <<users, sessions, tokens, now, drawn, created, swept>>, CountersOK',
           CallOK(k), Alone(c, k)
    PROVE  AuthInvariant'
<1>1. TypeOK /\ TablesOK /\ CallsOK
  BY DEF AuthInvariant
<1>2. TypeOK'
  BY <1>1 DEF TypeOK, CountersOK
<1>3. \A j \in CallLocals : CallOK(j) => CallOK(j)'
  <2>1. drawn <= drawn' /\ TokensStand /\ UNCHANGED <<created, users, sessions>>
    BY <1>1, AuthAssumption DEF TypeOK, TokensStand
  <2> QED BY <1>1, <1>2, <2>1, CallStands
<1>4. \A j \in CallLocals : (\E d \in Calls \ {c} : j = call[d]) => CallOK(j)'
  BY <1>1, <1>3 DEF CallsOK
<1>5. CallOK(k)'
  BY <1>3
<1>6. CallsOK'
  BY <1>1, <1>4, <1>5, CallMoves
<1>7. TablesOK'
  BY <1>1, TablesStand
<1> QED BY <1>2, <1>6, <1>7 DEF AuthInvariant

LEMMA NoCallNow ==
    ASSUME TypeOK
    PROVE  NoCall \in CallLocals /\ CallOK(NoCall) /\ \A c \in Calls : Alone(c, NoCall)
<1>1. NoCall \in CallLocals
  BY DEF NoCall, CallLocals
<1>2. CallOK(NoCall)
  BY AuthAssumption DEF NoCall, CallOK, CallKnows, TransactionKnows, SweepIsComplete, Registering, Resetting, TypeOK
<1>3. \A c \in Calls : Alone(c, NoCall)
  BY DEF NoCall, Alone, InRegistration
<1> QED BY <1>1, <1>2, <1>3

(* A request that comes is one less to come. *)
LEMMA RequestCounted ==
    ASSUME TypeOK, NEW kind, Comes(kind)
    PROVE  requests' \in RequestLoads
<1>1. /\ requests \in RequestLoads /\ requests.left > 0
      /\ requests' = [requests EXCEPT !.left = @ - 1]
  BY DEF TypeOK, Comes
<1> QED BY <1>1 DEF RequestLoads

LEMMA RegisterStartKeeps ==
    ASSUME AuthInvariant, NEW c \in Calls, RegisterStart(c)
    PROVE  AuthInvariant'
<1>1. TypeOK
  BY DEF AuthInvariant
<1>2. PICK s \in Sources, n \in Spellings, p \in Passwords :
          /\ attempts' = Charged("register", s, n)
          /\ call' = [call EXCEPT ![c] =
                 IF Admits("register", s, n)
                 THEN [NoCall EXCEPT !.pc = "insert", !.email = Account[n], !.password = p]
                 ELSE NoCall]
  BY DEF RegisterStart
<1>3. CountersOK'
  <2>1. attempts' \in [Limiters -> [Keys -> [windowStart : Nat, count : Nat]]]
    BY <1>1, <1>2, ChargedType DEF Limiters
  <2>2. requests' \in RequestLoads /\ UNCHANGED <<faults, admitted>>
    BY <1>1, RequestCounted DEF RegisterStart, Arrives, historyVars
  <2> QED BY <1>1, <2>1, <2>2 DEF CountersOK, TypeOK
<1>4. UNCHANGED <<users, sessions, tokens, now, drawn, created, swept>>
  BY DEF RegisterStart, historyVars
<1>5. CASE Admits("register", s, n)
  <2>1. PICK k : k = [NoCall EXCEPT !.pc = "insert", !.email = Account[n], !.password = p]
    OBVIOUS
  <2>2. k \in CallLocals /\ k.pc = "insert" /\ k.email = Account[n] /\ Account[n] \in Emails /\ k.password = p /\ k.txn = "none" /\ k.mark = 0
    BY <2>1, AuthAssumption DEF NoCall, CallLocals, Registering
  <2>3. CallOK(k) /\ Alone(c, k)
    BY <2>2, <1>1, AuthAssumption
       DEF CallOK, CallKnows, TransactionKnows, SweepIsComplete, Alone, InRegistration, Registering, Resetting, TypeOK
  <2> QED BY <1>2, <1>3, <1>4, <1>5, <2>1, <2>2, <2>3, OnlyCallMoves
<1>6. CASE ~Admits("register", s, n)
  BY <1>1, <1>2, <1>3, <1>4, <1>6, NoCallNow, OnlyCallMoves
<1> QED BY <1>5, <1>6

LEMMA LoginStartKeeps ==
    ASSUME AuthInvariant, NEW c \in Calls, LoginStart(c)
    PROVE  AuthInvariant'
<1>1. TypeOK
  BY DEF AuthInvariant
<1>2. PICK s \in Sources, n \in Spellings, p \in Passwords :
          /\ attempts' = Charged("login", s, n)
          /\ call' = [call EXCEPT ![c] =
                 IF Admits("login", s, n) /\ PasswordMatches(Account[n], p)
                 THEN [NoCall EXCEPT !.pc = "issue", !.email = Account[n]] ELSE NoCall]
          /\ admitted' =
                 IF Admits("login", s, n)
                 THEN [admitted EXCEPT ![s] = Append(@, now), ![n] = Append(@, now)] ELSE admitted
  BY DEF LoginStart
<1>3. CountersOK'
  <2>1. attempts' \in [Limiters -> [Keys -> [windowStart : Nat, count : Nat]]]
    BY <1>1, <1>2, ChargedType DEF Limiters
  <2>2. requests' \in RequestLoads /\ UNCHANGED faults
    BY <1>1, RequestCounted DEF LoginStart, Arrives
  <2>3. admitted' \in [Keys -> Seq(0..MaxTime)]
    <3>1. admitted \in [Keys -> Seq(0..MaxTime)] /\ now \in 0..MaxTime
      BY <1>1 DEF TypeOK
    <3>2. \A k \in Keys : Append(admitted[k], now) \in Seq(0..MaxTime)
      BY <3>1
    <3>3. s \in Keys /\ n \in Keys /\ s # n
      BY AuthAssumption DEF Keys
    <3> QED BY <1>2, <3>1, <3>2, <3>3
  <2> QED BY <1>1, <2>1, <2>2, <2>3 DEF CountersOK, TypeOK
<1>4. UNCHANGED <<users, sessions, tokens, now, drawn, created, swept>>
  BY DEF LoginStart
<1>5. CASE Admits("login", s, n) /\ PasswordMatches(Account[n], p)
  <2>1. PICK k : k = [NoCall EXCEPT !.pc = "issue", !.email = Account[n]]
    OBVIOUS
  <2>2. k \in CallLocals /\ k.pc = "issue" /\ k.email = Account[n] /\ Account[n] \in Emails /\ k.txn = "none" /\ k.mark = 0
    BY <2>1, AuthAssumption DEF NoCall, CallLocals
  <2>3. CallOK(k) /\ Alone(c, k)
    BY <2>2, <1>1, AuthAssumption
       DEF CallOK, CallKnows, TransactionKnows, SweepIsComplete, Alone, InRegistration, Registering, Resetting, TypeOK
  <2> QED BY <1>2, <1>3, <1>4, <1>5, <2>1, <2>2, <2>3, OnlyCallMoves
<1>6. CASE ~(Admits("login", s, n) /\ PasswordMatches(Account[n], p))
  BY <1>1, <1>2, <1>3, <1>4, <1>6, NoCallNow, OnlyCallMoves
<1> QED BY <1>5, <1>6

LEMMA ValidateSelectKeeps ==
    ASSUME AuthInvariant, NEW c \in Calls, ValidateSelect(c)
    PROVE  AuthInvariant'
<1>1. TypeOK
  BY DEF AuthInvariant
<1>2. PICK t \in Tokens :
          /\ sessions[t] # None
          /\ call' = [call EXCEPT ![c] =
                 [NoCall EXCEPT !.pc = "touch", !.email = sessions[t].user, !.token = t]]
  BY DEF ValidateSelect
<1>3. CountersOK' /\ UNCHANGED <<users, sessions, tokens, now, drawn, created, swept>>
  <2>1. requests' \in RequestLoads
    BY <1>1, RequestCounted DEF ValidateSelect, Arrives
  <2>2. UNCHANGED <<users, sessions, tokens, now, drawn, created, swept, attempts, faults, admitted>>
    BY DEF ValidateSelect, historyVars
  <2> QED BY <1>1, <2>1, <2>2 DEF CountersOK, TypeOK
<1>4. PICK k : k = [NoCall EXCEPT !.pc = "touch", !.email = sessions[t].user, !.token = t]
  OBVIOUS
<1>5. sessions[t].user \in Emails
  BY <1>1, <1>2 DEF TypeOK, Sessions
<1>6. k \in CallLocals /\ k.pc = "touch" /\ k.email \in Emails /\ k.token = t /\ k.txn = "none" /\ k.mark = 0
  BY <1>4, <1>5 DEF NoCall, CallLocals
<1>7. CallOK(k) /\ Alone(c, k)
  BY <1>6, <1>1, AuthAssumption
     DEF CallOK, CallKnows, TransactionKnows, SweepIsComplete, Alone, InRegistration, Registering, Resetting, TypeOK
<1> QED BY <1>2, <1>3, <1>4, <1>6, <1>7, OnlyCallMoves

LEMMA ConfirmStartKeeps ==
    ASSUME AuthInvariant, NEW c \in Calls, NEW purpose, NEW pc, ConfirmStart(c, purpose, pc),
           <<purpose, pc>> \in {<<"reset", "update">>, <<"verify", "mark">>}
    PROVE  AuthInvariant'
<1>1. TypeOK /\ TablesOK
  BY DEF AuthInvariant
<1>2. PICK t \in Tokens, p \in Passwords :
          /\ Usable(t, purpose)
          /\ call' = [call EXCEPT ![c] =
                 [NoCall EXCEPT !.pc = pc, !.email = tokens[t].user, !.token = t, !.password = p]]
  BY DEF ConfirmStart
<1>3. CountersOK' /\ UNCHANGED <<users, sessions, tokens, now, drawn, created, swept>>
  <2>1. requests' \in RequestLoads
    BY <1>1, RequestCounted DEF ConfirmStart, Arrives
  <2>2. UNCHANGED <<users, sessions, tokens, now, drawn, created, swept, attempts, faults, admitted>>
    BY DEF ConfirmStart, historyVars
  <2> QED BY <1>1, <2>1, <2>2 DEF CountersOK, TypeOK
<1>4. PICK k : k = [NoCall EXCEPT !.pc = pc, !.email = tokens[t].user, !.token = t, !.password = p]
  OBVIOUS
<1>5. tokens[t].user \in Emails /\ users[tokens[t].user] # None
      /\ (purpose = "verify" => created[tokens[t].user] = 1) /\ t <= drawn
  BY <1>1, <1>2 DEF TypeOK, AuthTokens, Usable, TablesOK, TokensHaveOwners, NumbersAreDrawn
<1>6. k \in CallLocals /\ k.pc = pc /\ k.email = tokens[t].user /\ k.token = t /\ k.txn = "none"
      /\ k.mark = 0 /\ k.password = p
  BY <1>4, <1>5 DEF NoCall, CallLocals, Resetting
<1>7. CallOK(k) /\ Alone(c, k)
  BY <1>2, <1>5, <1>6, <1>1, AuthAssumption
     DEF CallOK, CallKnows, HoldsVerifyToken, Usable, TransactionKnows, SweepIsComplete, Alone, InRegistration, Registering, Resetting, TypeOK
<1> QED BY <1>2, <1>3, <1>4, <1>6, <1>7, OnlyCallMoves

LEMMA RegisterInsertKeeps ==
    ASSUME AuthInvariant, NEW c \in Calls, RegisterInsert(c)
    PROVE  AuthInvariant'
<1>1. TypeOK /\ TablesOK /\ CallsOK
  BY DEF AuthInvariant
<1>2. CountersOK' /\ UNCHANGED <<users, sessions, tokens, now, drawn, created, swept>>
  BY <1>1 DEF RegisterInsert, CountersOK, TypeOK, boundVars, historyVars
<1>3. CASE users[call[c].email] = None
  <2>1. PICK k : k = [call[c] EXCEPT !.pc = "seed", !.txn = "open"]
    OBVIOUS
  <2>2. call[c] \in CallLocals /\ call[c].pc = "insert" /\ CallOK(call[c])
    BY <1>1 DEF TypeOK, CallsOK, RegisterInsert
  <2>3. k \in CallLocals /\ k.pc = "seed" /\ k.txn = "open" /\ k.email = call[c].email
        /\ k.password = call[c].password /\ k.mark = call[c].mark
    BY <2>1, <2>2 DEF CallLocals, Registering
  <2>4. k.email \in Emails /\ k.password \in Passwords /\ k.mark <= drawn
    BY <2>2, <2>3 DEF CallOK, CallKnows, SweepIsComplete, Registering
  <2>5. created[k.email] = 0
    <3>1. created[k.email] \in Nat
      BY <1>1, <2>4 DEF TypeOK
    <3> QED BY <1>1, <1>3, <2>3, <2>4, <3>1 DEF TablesOK, AnsweredAccountsExist
  <2>6. CallOK(k)
    BY <1>3, <2>3, <2>4, <2>5
       DEF CallOK, CallKnows, TransactionKnows, SweepIsComplete, Registering, Resetting
  <2>7. Alone(c, k)
    <3>1. SUFFICES ASSUME NEW d \in Calls \ {c}, InRegistration(call[d]), call[d].email = k.email
                   PROVE  FALSE
      BY DEF Alone
    <3>2. call[d].txn \in {"none", "open", "committing", "committed"} /\ CallOK(call[d])
      BY <1>1 DEF TypeOK, CallLocals, CallsOK
    <3>3. call[d].txn # "committed"
      BY <1>3, <2>3, <3>1, <3>2 DEF CallOK, TransactionKnows, InRegistration
    <3> QED BY <2>3, <3>1, <3>2, <3>3 DEF InRegistration, RegisterInsert, Uncontended
  <2> QED BY <1>2, <1>3, <2>1, <2>3, <2>6, <2>7, OnlyCallMoves DEF RegisterInsert
<1>4. CASE users[call[c].email] # None
  <2>1. call' = [call EXCEPT ![c] = NoCall]
    BY <1>4 DEF RegisterInsert
  <2> QED BY <1>1, <1>2, <2>1, NoCallNow, OnlyCallMoves
<1> QED BY <1>3, <1>4

LEMMA RegisterSeedKeeps ==
    ASSUME AuthInvariant, NEW c \in Calls, RegisterSeed(c)
    PROVE  AuthInvariant'
<1>1. TypeOK /\ TablesOK /\ CallsOK
  BY DEF AuthInvariant
<1>2. CountersOK' /\ UNCHANGED <<users, sessions, tokens, now, drawn, created, swept>>
  BY <1>1 DEF RegisterSeed, CountersOK, TypeOK, boundVars, historyVars
<1>3. PICK k : k = [call[c] EXCEPT !.pc = "verify", !.seeded = TRUE, !.txn = "committing"]
  OBVIOUS
<1>4. call[c] \in CallLocals /\ call[c].pc = "seed" /\ call[c].txn = "open" /\ CallOK(call[c])
  BY <1>1 DEF TypeOK, CallsOK, RegisterSeed, CallOK, TransactionKnows
<1>5. call' = [call EXCEPT ![c] = k]
  BY <1>1, <1>3, <1>4 DEF RegisterSeed, TypeOK, CallLocals
<1>6. k.pc = "verify" /\ k.txn = "committing" /\ k.email = call[c].email /\ k.seeded = TRUE
      /\ k.password = call[c].password /\ k.mark = call[c].mark
  BY <1>3, <1>4 DEF CallLocals
<1>7. k \in CallLocals
  BY <1>3, <1>4 DEF CallLocals, Registering
<1>8. CallOK(k)
  BY <1>4, <1>6 DEF CallOK, CallKnows, TransactionKnows, SweepIsComplete, Registering, Resetting
<1>9. Alone(c, k)
  BY <1>1, <1>4, <1>6 DEF Alone, CallsOK, OneRegistration, InRegistration, Registering
<1> QED BY <1>2, <1>5, <1>7, <1>8, <1>9, OnlyCallMoves

LEMMA ResetUpdateKeeps ==
    ASSUME AuthInvariant, NEW c \in Calls, ResetUpdate(c)
    PROVE  AuthInvariant'
<1>1. TypeOK /\ TablesOK /\ CallsOK
  BY DEF AuthInvariant
<1>2. CountersOK' /\ UNCHANGED <<users, sessions, tokens, now, drawn, created, swept>>
  BY <1>1 DEF ResetUpdate, CountersOK, TypeOK, boundVars, historyVars
<1>3. PICK k : k = [call[c] EXCEPT !.pc = "sweep", !.txn = "open"]
  OBVIOUS
<1>4. call[c] \in CallLocals /\ call[c].pc = "update" /\ CallOK(call[c])
  BY <1>1 DEF TypeOK, CallsOK, ResetUpdate
<1>5. call' = [call EXCEPT ![c] = k]
  BY <1>1, <1>3, <1>4 DEF ResetUpdate, TypeOK, CallLocals
<1>6. k.pc = "sweep" /\ k.txn = "open" /\ k.email = call[c].email /\ k.token = call[c].token
      /\ k.password = call[c].password /\ k.mark = call[c].mark
  BY <1>3, <1>4 DEF CallLocals
<1>7. k \in CallLocals
  BY <1>3, <1>4 DEF CallLocals, Resetting
<1>8. CallOK(k) /\ Alone(c, k)
  BY <1>4, <1>6 DEF CallOK, CallKnows, TransactionKnows, SweepIsComplete, Registering, Resetting, Alone, InRegistration
<1> QED BY <1>2, <1>5, <1>7, <1>8, OnlyCallMoves

LEMMA ResetSweepKeeps ==
    ASSUME AuthInvariant, NEW c \in Calls, ResetSweep(c)
    PROVE  AuthInvariant'
<1>1. TypeOK /\ TablesOK /\ CallsOK
  BY DEF AuthInvariant
<1>2. CountersOK' /\ UNCHANGED <<users, sessions, tokens, now, drawn, created, swept>>
  BY <1>1 DEF ResetSweep, CountersOK, TypeOK, boundVars, historyVars
<1>3. PICK k : k = [call[c] EXCEPT !.pc = "reset", !.txn = "committing", !.doomed = Found(c), !.mark = drawn]
  OBVIOUS
<1>4. call[c] \in CallLocals /\ call[c].pc = "sweep" /\ CallOK(call[c])
  BY <1>1 DEF TypeOK, CallsOK, ResetSweep
<1>5. call' = [call EXCEPT ![c] = k]
  BY <1>1, <1>3, <1>4 DEF ResetSweep, TypeOK, CallLocals
<1>6. k.pc = "reset" /\ k.email = call[c].email /\ k.token = call[c].token
      /\ k.password = call[c].password /\ k.mark = drawn /\ k.doomed = Found(c)
  BY <1>3, <1>4 DEF CallLocals
<1>7. k \in CallLocals
  <2>1. Found(c) \in SUBSET Tokens /\ drawn \in Nat
    BY <1>1, AuthAssumption DEF Found, SessionsOf, TypeOK
  <2> QED BY <1>3, <1>4, <2>1 DEF CallLocals, Resetting
<1>8. CallKnows(k) /\ TransactionKnows(k) /\ Alone(c, k)
  BY <1>4, <1>6 DEF CallOK, CallKnows, TransactionKnows, Registering, Resetting, Alone, InRegistration
<1>9. SweepIsComplete(k)
  <2>1. drawn <= drawn
    BY <1>1, AuthAssumption DEF TypeOK
  <2> QED BY <1>6, <2>1 DEF SweepIsComplete, Found, SessionsOf
<1> QED BY <1>2, <1>5, <1>7, <1>8, <1>9, OnlyCallMoves DEF CallOK

(* A statement that fails ends its request, but for a commit already sent. *)
LEMMA FailedKeeps ==
    ASSUME AuthInvariant, NEW c \in Calls, call' = [call EXCEPT ![c] = Failed(c)],
           call[c].pc \notin {"idle", "refused", "reset"}, CountersOK',
           UNCHANGED <<users, sessions, tokens, now, drawn, created, swept>>
    PROVE  AuthInvariant'
<1>1. TypeOK /\ TablesOK /\ CallsOK
  BY DEF AuthInvariant
<1>2. CASE call[c].txn = "committing"
  <2>1. PICK k : k = [call[c] EXCEPT !.pc = "refused"]
    OBVIOUS
  <2>2. call[c] \in CallLocals /\ CallOK(call[c])
    BY <1>1 DEF TypeOK, CallsOK
  <2>3. call[c].pc = "verify"
    BY <1>2, <2>2 DEF CallOK, TransactionKnows
  <2>4. k.pc = "refused" /\ k.txn = "committing" /\ k.email = call[c].email
        /\ k.password = call[c].password /\ k.mark = call[c].mark /\ k.seeded = call[c].seeded
    BY <1>2, <2>1, <2>2 DEF CallLocals
  <2>5. k \in CallLocals
    BY <2>1, <2>2 DEF CallLocals, Registering
  <2>6. CallOK(k)
    BY <1>2, <2>2, <2>3, <2>4 DEF CallOK, CallKnows, TransactionKnows, SweepIsComplete, Registering, Resetting
  <2>7. Alone(c, k)
    BY <1>1, <1>2, <2>3, <2>4 DEF Alone, CallsOK, OneRegistration, InRegistration, Registering
  <2> QED BY <1>2, <2>1, <2>5, <2>6, <2>7, OnlyCallMoves DEF Failed
<1>3. CASE call[c].txn # "committing"
  <2>1. call' = [call EXCEPT ![c] = NoCall]
    BY <1>3 DEF Failed
  <2> QED BY <1>1, <2>1, NoCallNow, OnlyCallMoves
<1> QED BY <1>2, <1>3

LEMMA CallFailsKeeps ==
    ASSUME AuthInvariant, NEW c \in Calls, CallFails(c)
    PROVE  AuthInvariant'
<1>1. TypeOK
  BY DEF AuthInvariant
<1>2. faults' \in 0..MaxFaults
  BY <1>1, AuthAssumption DEF CallFails, Fault, TypeOK
<1>3. UNCHANGED <<users, sessions, tokens, now, drawn, created, swept, attempts, requests, admitted>>
  BY DEF CallFails, historyVars
<1>4. CountersOK'
  BY <1>1, <1>2, <1>3 DEF CountersOK, TypeOK
<1> QED BY <1>3, <1>4, FailedKeeps DEF CallFails

LEMMA CommitLostKeeps ==
    ASSUME AuthInvariant, NEW c \in Calls, CommitLost(c)
    PROVE  AuthInvariant'
<1>1. TypeOK /\ TablesOK /\ CallsOK
  BY DEF AuthInvariant
<1>2. CountersOK' /\ UNCHANGED <<users, sessions, tokens, now, drawn, created, swept>>
  <2>1. faults' \in 0..MaxFaults
    BY <1>1, AuthAssumption DEF CommitLost, Fault, TypeOK
  <2>2. UNCHANGED <<users, sessions, tokens, now, drawn, created, swept, attempts, requests, admitted>>
    BY DEF CommitLost, historyVars
  <2> QED BY <1>1, <2>1, <2>2 DEF CountersOK, TypeOK
<1>3. CASE call[c].pc = "verify"
  <2>1. PICK k : k = [call[c] EXCEPT !.txn = "none"]
    OBVIOUS
  <2>2. call[c] \in CallLocals /\ CallOK(call[c])
    BY <1>1 DEF TypeOK, CallsOK
  <2>3. k.pc = "verify" /\ k.txn = "none" /\ k.email = call[c].email
        /\ k.password = call[c].password /\ k.mark = call[c].mark /\ k.seeded = call[c].seeded
    BY <1>3, <2>1, <2>2 DEF CallLocals
  <2>4. k \in CallLocals
    BY <2>1, <2>2 DEF CallLocals, Registering
  <2>5. CallOK(k) /\ Alone(c, k)
    BY <1>3, <2>2, <2>3 DEF CallOK, CallKnows, TransactionKnows, SweepIsComplete, Registering, Resetting, Alone, InRegistration
  <2> QED BY <1>2, <1>3, <2>1, <2>4, <2>5, OnlyCallMoves DEF CommitLost
<1>4. CASE call[c].pc # "verify"
  <2>1. call' = [call EXCEPT ![c] = NoCall]
    BY <1>4 DEF CommitLost
  <2> QED BY <1>1, <1>2, <2>1, NoCallNow, OnlyCallMoves
<1> QED BY <1>3, <1>4

-----------------------------------------------------------------------------
(* The statements that write a table.  A request that ends leaves the      *)
(* others as they were, if what they know stands.                          *)
LEMMA CallEnds ==
    ASSUME TypeOK, TypeOK', CallsOK, NEW c \in Calls, call' = [call EXCEPT ![c] = NoCall],
           drawn <= drawn', TokensStand, UNCHANGED created,
           \A e \in Emails : users'[e] = None <=> users[e] = None,
           \A t \in Tokens : sessions'[t] # None /\ t <= drawn =>
               sessions[t] # None /\ sessions'[t].user = sessions[t].user
    PROVE  CallsOK'
<1>1. \A j \in CallLocals : CallOK(j) => CallOK(j)'
  BY CallStands
<1>2. \A j \in CallLocals : (\E d \in Calls \ {c} : j = call[d]) => CallOK(j)'
  BY <1>1 DEF CallsOK
<1> QED BY <1>2, NoCallOK, CallMoves

LEMMA LoginIssueKeeps ==
    ASSUME AuthInvariant, NEW c \in Calls, LoginIssue(c)
    PROVE  AuthInvariant'
<1>1. TypeOK /\ TablesOK /\ CallsOK
  BY DEF AuthInvariant
<1>2. drawn' = drawn + 1 /\ drawn \in Nat /\ drawn' \in 0..MaxTokens /\ drawn' \in Tokens /\ Tokens \subseteq Nat
  BY <1>1, AuthAssumption DEF LoginIssue, Draw, TypeOK, Tokens
<1>3. PICK s : s = [user |-> call[c].email, expires |-> now + Lifetime, used |-> now]
  OBVIOUS
<1>4. now \in Nat /\ Lifetime \in Nat /\ TouchInterval \in Nat /\ call[c].email \in Emails
  BY <1>1, AuthAssumption DEF TypeOK, LoginIssue, CallsOK, CallOK, CallKnows
<1>5. s \in Sessions /\ s.user \in Emails /\ s.used = now /\ s.expires = now + Lifetime
  BY <1>3, <1>4 DEF Sessions
<1>6. /\ sessions' = [sessions EXCEPT ![drawn'] = s]
      /\ call' = [call EXCEPT ![c] = NoCall]
      /\ UNCHANGED <<users, tokens, attempts, now, requests, faults, created, swept, admitted>>
  BY <1>3 DEF LoginIssue, historyVars
<1>7. sessions \in [Tokens -> Sessions \cup {None}]
  BY <1>1 DEF TypeOK
<1>8. /\ sessions' \in [Tokens -> Sessions \cup {None}]
      /\ sessions'[drawn'] = s
      /\ \A t \in Tokens \ {drawn'} : sessions'[t] = sessions[t]
  BY <1>2, <1>5, <1>6, <1>7
<1>9. TypeOK'
  <2>1. call' \in [Calls -> CallLocals]
    BY <1>1, <1>6, NoCallNow DEF TypeOK
  <2> QED BY <1>1, <1>2, <1>6, <1>8, <2>1 DEF TypeOK
<1>10. SlidingExpiry'
  BY <1>1, <1>4, <1>5, <1>6, <1>8 DEF TablesOK, SlidingExpiry
<1>11. ResetEndsOlderSessions'
  <2>1. \A e \in Emails : swept[e] <= drawn /\ swept[e] \in Nat
    BY <1>1 DEF TablesOK, NumbersAreDrawn, TypeOK
  <2>2. drawn' > swept[s.user]
    BY <1>2, <1>5, <2>1
  <2> QED BY <1>1, <1>6, <1>8, <2>2 DEF TablesOK, ResetEndsOlderSessions
<1>12. NumbersAreDrawn'
  <2>1. \A e \in Emails : swept[e] <= drawn /\ swept[e] \in Nat
    BY <1>1 DEF TablesOK, NumbersAreDrawn, TypeOK
  <2>2. \A t \in Tokens : sessions[t] # None \/ tokens[t] # None => t <= drawn
    BY <1>1 DEF TablesOK, NumbersAreDrawn
  <2> QED BY <1>2, <1>6, <1>8, <2>1, <2>2 DEF NumbersAreDrawn
<1>13. AnsweredAccountsExist' /\ AccountsAreSeeded' /\ VerifiedAnswered' /\ TokensHaveOwners'
  BY <1>1, <1>6 DEF TablesOK, AnsweredAccountsExist, AccountsAreSeeded, VerifiedAnswered, TokensHaveOwners
<1>14. CallsOK'
  <2>1. \A t \in Tokens : sessions'[t] # None /\ t <= drawn =>
            sessions[t] # None /\ sessions'[t].user = sessions[t].user
    BY <1>2, <1>8
  <2>2. drawn <= drawn' /\ TokensStand /\ \A e \in Emails : users'[e] = None <=> users[e] = None
    BY <1>2, <1>4, <1>6 DEF TokensStand
  <2> QED BY <1>1, <1>6, <1>9, <2>1, <2>2, CallEnds
<1> QED BY <1>9, <1>10, <1>11, <1>12, <1>13, <1>14 DEF AuthInvariant, TablesOK

LEMMA TouchWaitKeeps ==
    ASSUME AuthInvariant, NEW c \in Calls, TouchWait(c)
    PROVE  AuthInvariant'
<1>1. TypeOK /\ TablesOK /\ CallsOK
  BY DEF AuthInvariant
<1>2. CountersOK' /\ UNCHANGED <<users, sessions, tokens, now, drawn, created, swept>>
  BY <1>1 DEF TouchWait, CountersOK, TypeOK, boundVars, historyVars
<1>3. PICK k : k = [call[c] EXCEPT !.pc = "waiting", !.began = now]
  OBVIOUS
<1>4. call[c] \in CallLocals /\ call[c].pc = "touch" /\ CallOK(call[c]) /\ now \in Nat
  BY <1>1, AuthAssumption DEF TypeOK, CallsOK, TouchWait
<1>5. call' = [call EXCEPT ![c] = k]
  BY <1>1, <1>3, <1>4 DEF TouchWait, TypeOK, CallLocals
<1>6. k.pc = "waiting" /\ k.email = call[c].email /\ k.token = call[c].token /\ k.began = now
      /\ k.txn = call[c].txn /\ k.mark = call[c].mark
  BY <1>3, <1>4 DEF CallLocals
<1>7. k \in CallLocals
  BY <1>3, <1>4 DEF CallLocals
<1>8. CallOK(k) /\ Alone(c, k)
  BY <1>4, <1>6 DEF CallOK, CallKnows, TransactionKnows, SweepIsComplete, Registering, Resetting, Alone, InRegistration
<1> QED BY <1>2, <1>5, <1>7, <1>8, OnlyCallMoves

LEMMA ValidateTouchKeeps ==
    ASSUME AuthInvariant, NEW c \in Calls, ValidateTouch(c)
    PROVE  AuthInvariant'
<1>1. TypeOK /\ TablesOK /\ CallsOK
  BY DEF AuthInvariant
<1>2. PICK t \in Tokens : t = call[c].token
  BY <1>1 DEF ValidateTouch, CallsOK, CallOK, CallKnows
<1>3. PICK m, s : m = (IF call[c].pc = "waiting" THEN call[c].began ELSE now) /\ s = Touched(t, call[c].email, m)
  OBVIOUS
<1>4. /\ sessions' = [sessions EXCEPT ![t] = s]
      /\ call' = [call EXCEPT ![c] = NoCall]
      /\ UNCHANGED <<users, tokens, attempts, now, drawn, requests, faults, created, swept, admitted>>
  BY <1>2, <1>3 DEF ValidateTouch, boundVars, historyVars
<1>5. sessions \in [Tokens -> Sessions \cup {None}]
  BY <1>1 DEF TypeOK
<1>6. /\ now \in Nat /\ Lifetime \in Nat /\ TouchInterval \in 0..Lifetime /\ drawn \in Nat
      /\ m \in Nat /\ m <= now
  <2>1. now \in Nat /\ call[c] \in CallLocals /\ CallOK(call[c])
    BY <1>1, AuthAssumption DEF TypeOK, CallsOK
  <2>2. m \in Nat /\ m <= now
    BY <1>3, <2>1 DEF CallLocals, CallOK, CallKnows
  <2> QED BY <1>1, <2>1, <2>2, AuthAssumption DEF TypeOK
<1>7. CASE sessions[t] = None
  <2>1. sessions' = sessions
    BY <1>3, <1>4, <1>5, <1>7 DEF Touched
  <2>2. TypeOK'
    <3>1. call' \in [Calls -> CallLocals]
      BY <1>1, <1>4, NoCallNow DEF TypeOK
    <3> QED BY <1>1, <1>4, <2>1, <3>1 DEF TypeOK
  <2>3. TablesOK'
    BY <1>1, <1>4, <2>1, TablesStand
  <2>4. CallsOK'
    <3>1. drawn <= drawn' /\ TokensStand /\ \A e \in Emails : users'[e] = None <=> users[e] = None
      BY <1>4, <1>6 DEF TokensStand
    <3> QED BY <1>1, <1>4, <2>1, <2>2, <3>1, CallEnds
  <2> QED BY <2>2, <2>3, <2>4 DEF AuthInvariant
<1>8. CASE sessions[t] # None
  <2>1. sessions[t] \in Sessions
    BY <1>5, <1>8
  <2>2. PICK x, u : /\ x = (IF Stale(sessions[t], m) THEN m + Lifetime ELSE sessions[t].expires)
                    /\ u = (IF m > sessions[t].used THEN m ELSE sessions[t].used)
    OBVIOUS
  <2>3. s = [sessions[t] EXCEPT !.used = u, !.expires = x]
    BY <1>3, <1>8, <2>1, <2>2 DEF Touched, Sessions
  <2>4. x \in Nat /\ u \in Nat /\ u <= now /\ x >= u + Lifetime - TouchInterval /\ x <= u + Lifetime
    <3>1. sessions[t].expires \in Nat /\ sessions[t].used \in Nat
      BY <2>1 DEF Sessions
    <3>2. /\ sessions[t].used <= now /\ sessions[t].expires <= sessions[t].used + Lifetime
          /\ sessions[t].expires >= sessions[t].used + Lifetime - TouchInterval
      BY <1>1, <1>8 DEF TablesOK, SlidingExpiry
    <3>3. CASE Stale(sessions[t], m)
      BY <1>6, <2>2, <3>1, <3>2, <3>3 DEF Stale
    <3>4. CASE ~Stale(sessions[t], m)
      BY <1>6, <2>2, <3>1, <3>2, <3>4 DEF Stale
    <3> QED BY <3>3, <3>4
  <2>5. s \in Sessions /\ s # None /\ s.user = sessions[t].user /\ s.used = u /\ s.expires = x
    BY <1>6, <2>1, <2>3, <2>4, AuthAssumption DEF Sessions
  <2>6. /\ sessions' \in [Tokens -> Sessions \cup {None}]
        /\ sessions'[t] = s
        /\ \A v \in Tokens \ {t} : sessions'[v] = sessions[v]
    BY <1>4, <1>5, <2>5
  <2>7. TypeOK'
    <3>1. call' \in [Calls -> CallLocals]
      BY <1>1, <1>4, NoCallNow DEF TypeOK
    <3> QED BY <1>1, <1>4, <2>6, <3>1 DEF TypeOK
  <2>8. SlidingExpiry'
    BY <1>1, <1>4, <1>6, <2>4, <2>5, <2>6 DEF TablesOK, SlidingExpiry
  <2>9. ResetEndsOlderSessions' /\ NumbersAreDrawn'
    BY <1>1, <1>4, <1>8, <2>5, <2>6 DEF TablesOK, ResetEndsOlderSessions, NumbersAreDrawn
  <2>10. AnsweredAccountsExist' /\ AccountsAreSeeded' /\ VerifiedAnswered' /\ TokensHaveOwners'
    BY <1>1, <1>4 DEF TablesOK, AnsweredAccountsExist, AccountsAreSeeded, VerifiedAnswered, TokensHaveOwners
  <2>11. CallsOK'
    <3>1. \A v \in Tokens : sessions'[v] # None /\ v <= drawn =>
              sessions[v] # None /\ sessions'[v].user = sessions[v].user
      BY <1>8, <2>5, <2>6
    <3>2. drawn <= drawn' /\ TokensStand /\ \A e \in Emails : users'[e] = None <=> users[e] = None
      BY <1>4, <1>6 DEF TokensStand
    <3> QED BY <1>1, <1>4, <2>7, <3>1, <3>2, CallEnds
  <2> QED BY <2>7, <2>8, <2>9, <2>10, <2>11 DEF AuthInvariant, TablesOK
<1> QED BY <1>7, <1>8

LEMMA LogoutKeeps ==
    ASSUME AuthInvariant, NEW t \in Tokens, Logout(t)
    PROVE  AuthInvariant'
<1>1. TypeOK /\ TablesOK /\ CallsOK
  BY DEF AuthInvariant
<1>2. /\ sessions' = [sessions EXCEPT ![t] = None]
      /\ UNCHANGED <<users, tokens, attempts, call, now, drawn, faults, created, swept, admitted>>
  BY DEF Logout, historyVars
<1>3. sessions \in [Tokens -> Sessions \cup {None}]
  BY <1>1 DEF TypeOK
<1>4. /\ sessions' \in [Tokens -> Sessions \cup {None}]
      /\ \A u \in Tokens : sessions'[u] # None => sessions'[u] = sessions[u]
  BY <1>2, <1>3
<1>5. TypeOK'
  <2>1. requests' \in RequestLoads
    BY <1>1, RequestCounted DEF Logout
  <2> QED BY <1>1, <1>2, <1>4, <2>1 DEF TypeOK
<1>6. SlidingExpiry' /\ ResetEndsOlderSessions' /\ NumbersAreDrawn'
  BY <1>1, <1>2, <1>4 DEF TablesOK, SlidingExpiry, ResetEndsOlderSessions, NumbersAreDrawn
<1>7. AnsweredAccountsExist' /\ AccountsAreSeeded' /\ VerifiedAnswered' /\ TokensHaveOwners'
  BY <1>1, <1>2 DEF TablesOK, AnsweredAccountsExist, AccountsAreSeeded, VerifiedAnswered, TokensHaveOwners
<1>8. CallsOK'
  <2>1. drawn <= drawn' /\ TokensStand
    BY <1>1, <1>2, AuthAssumption DEF TokensStand, TypeOK
  <2> QED BY <1>1, <1>2, <1>4, <1>5, <2>1, CallsStand
<1> QED BY <1>5, <1>6, <1>7, <1>8 DEF AuthInvariant, TablesOK

LEMMA RequestPasswordResetKeeps ==
    ASSUME AuthInvariant, NEW e \in Emails, RequestPasswordReset(e)
    PROVE  AuthInvariant'
<1>1. TypeOK /\ TablesOK /\ CallsOK
  BY DEF AuthInvariant
<1>2. drawn' = drawn + 1 /\ drawn \in Nat /\ drawn' \in 0..MaxTokens /\ drawn' \in Tokens /\ Tokens \subseteq Nat
  <2>1. drawn \in 0..MaxTokens /\ drawn < MaxTokens /\ drawn' = drawn + 1
    BY <1>1 DEF RequestPasswordReset, Draw, TypeOK
  <2> QED BY <2>1, AuthAssumption DEF Tokens
<1>3. PICK a : a = [user |-> e, purpose |-> "reset", expires |-> now + ResetLifetime]
  OBVIOUS
<1>4. a \in AuthTokens /\ a.user = e /\ a.purpose = "reset"
  <2>1. now + ResetLifetime \in Nat
    BY <1>1, AuthAssumption DEF TypeOK
  <2> QED BY <1>3, <2>1 DEF AuthTokens
<1>5. /\ tokens' = [tokens EXCEPT ![drawn'] = a]
      /\ users[e] # None
      /\ UNCHANGED <<users, sessions, attempts, call, now, faults, created, swept, admitted>>
  BY <1>3 DEF RequestPasswordReset, historyVars
<1>6. /\ tokens' \in [Tokens -> AuthTokens \cup {None}]
      /\ tokens'[drawn'] = a
      /\ \A t \in Tokens \ {drawn'} : tokens'[t] = tokens[t]
  <2>1. tokens \in [Tokens -> AuthTokens \cup {None}]
    BY <1>1 DEF TypeOK
  <2> QED BY <1>2, <1>4, <1>5, <2>1
<1>7. TypeOK'
  <2>1. requests' \in RequestLoads
    BY <1>1, RequestCounted DEF RequestPasswordReset
  <2> QED BY <1>1, <1>2, <1>5, <1>6, <2>1 DEF TypeOK
<1>8. SlidingExpiry' /\ ResetEndsOlderSessions'
  BY <1>1, <1>5 DEF TablesOK, SlidingExpiry, ResetEndsOlderSessions
<1>9. NumbersAreDrawn'
  <2>1. \A f \in Emails : swept[f] <= drawn /\ swept[f] \in Nat
    BY <1>1 DEF TablesOK, NumbersAreDrawn, TypeOK
  <2>2. \A t \in Tokens : sessions[t] # None \/ tokens[t] # None => t <= drawn
    BY <1>1 DEF TablesOK, NumbersAreDrawn
  <2> QED BY <1>2, <1>5, <1>6, <2>1, <2>2 DEF NumbersAreDrawn
<1>10. AnsweredAccountsExist' /\ AccountsAreSeeded' /\ VerifiedAnswered'
  BY <1>1, <1>5 DEF TablesOK, AnsweredAccountsExist, AccountsAreSeeded, VerifiedAnswered
<1>11. TokensHaveOwners'
  BY <1>1, <1>4, <1>5, <1>6 DEF TablesOK, TokensHaveOwners
<1>12. CallsOK'
  <2>1. drawn <= drawn' /\ TokensStand
    BY <1>1, <1>2, <1>5, <1>6, AuthAssumption DEF TokensStand, TypeOK
  <2> QED BY <1>1, <1>5, <1>7, <2>1, CallsStand
<1> QED BY <1>7, <1>8, <1>9, <1>10, <1>11, <1>12 DEF AuthInvariant, TablesOK

LEMMA VerifyDeleteKeeps ==
    ASSUME AuthInvariant, NEW c \in Calls, VerifyDelete(c)
    PROVE  AuthInvariant'
<1>1. TypeOK /\ TablesOK /\ CallsOK
  BY DEF AuthInvariant
<1>2. /\ tokens' = [tokens EXCEPT ![call[c].token] = None]
      /\ call' = [call EXCEPT ![c] = NoCall]
      /\ UNCHANGED <<users, sessions, attempts, now, drawn, requests, faults, created, swept, admitted>>
  BY DEF VerifyDelete, boundVars, historyVars
<1>3. /\ tokens' \in [Tokens -> AuthTokens \cup {None}]
      /\ \A t \in Tokens : tokens'[t] # None => tokens'[t] = tokens[t]
  <2>1. tokens \in [Tokens -> AuthTokens \cup {None}]
    BY <1>1 DEF TypeOK
  <2> QED BY <1>2, <2>1
<1>4. TypeOK'
  <2>1. call' \in [Calls -> CallLocals]
    BY <1>1, <1>2, NoCallNow DEF TypeOK
  <2> QED BY <1>1, <1>2, <1>3, <2>1 DEF TypeOK
<1>5. SlidingExpiry' /\ ResetEndsOlderSessions' /\ NumbersAreDrawn'
  BY <1>1, <1>2, <1>3 DEF TablesOK, SlidingExpiry, ResetEndsOlderSessions, NumbersAreDrawn
<1>6. AnsweredAccountsExist' /\ AccountsAreSeeded' /\ VerifiedAnswered'
  BY <1>1, <1>2 DEF TablesOK, AnsweredAccountsExist, AccountsAreSeeded, VerifiedAnswered
<1>7. TokensHaveOwners'
  BY <1>1, <1>2, <1>3 DEF TablesOK, TokensHaveOwners
<1>8. CallsOK'
  <2>1. drawn <= drawn' /\ TokensStand /\ \A e \in Emails : users'[e] = None <=> users[e] = None
    BY <1>1, <1>2, <1>3, AuthAssumption DEF TypeOK, TokensStand
  <2> QED BY <1>1, <1>2, <1>4, <2>1, CallEnds
<1> QED BY <1>4, <1>5, <1>6, <1>7, <1>8 DEF AuthInvariant, TablesOK

LEMMA VerifyUpdateKeeps ==
    ASSUME AuthInvariant, NEW c \in Calls, VerifyUpdate(c)
    PROVE  AuthInvariant'
<1>1. TypeOK /\ TablesOK /\ CallsOK
  BY DEF AuthInvariant
<1>2. PICK e \in Emails : e = call[c].email /\ users[e] # None /\ created[e] = 1
  BY <1>1 DEF VerifyUpdate, CallsOK, CallOK, CallKnows
<1>3. users[e] \in Users /\ users \in [Emails -> Users \cup {None}]
  BY <1>1, <1>2 DEF TypeOK
<1>4. PICK u : u = [users[e] EXCEPT !.verified = TRUE]
  OBVIOUS
<1>5. u \in Users /\ u # None
  BY <1>3, <1>4, AuthAssumption DEF Users
<1>6. u.seeded = users[e].seeded
  BY <1>3, <1>4 DEF Users
<1>7. users' = [users EXCEPT ![e] = u]
  BY <1>2, <1>3, <1>4 DEF VerifyUpdate
<1>8. UNCHANGED <<sessions, tokens, attempts, now, drawn, requests, faults, created, swept, admitted>>
  BY DEF VerifyUpdate, boundVars, historyVars
<1>9. users' \in [Emails -> Users \cup {None}] /\ users'[e] = u /\ \A f \in Emails \ {e} : users'[f] = users[f]
  BY <1>3, <1>5, <1>7
<1>10. \A f \in Emails : users'[f] = None <=> users[f] = None
  BY <1>2, <1>5, <1>9
<1>11. PICK k : k = [call[c] EXCEPT !.pc = "spend"]
  OBVIOUS
<1>12. call[c] \in CallLocals /\ call[c].pc = "mark" /\ CallOK(call[c])
  BY <1>1 DEF TypeOK, CallsOK, VerifyUpdate
<1>13. call' = [call EXCEPT ![c] = k]
  BY <1>1, <1>11, <1>12 DEF VerifyUpdate, TypeOK, CallLocals
<1>14. k.pc = "spend" /\ k.email = call[c].email /\ k.token = call[c].token /\ k.txn = call[c].txn
       /\ k.mark = call[c].mark
  BY <1>11, <1>12 DEF CallLocals
<1>15. k \in CallLocals
  BY <1>11, <1>12 DEF CallLocals
<1>16. CallOK(k) /\ Alone(c, k)
  BY <1>12, <1>14
     DEF CallOK, CallKnows, TransactionKnows, SweepIsComplete, HoldsVerifyToken, Registering, Resetting,
         Alone, InRegistration
<1>17. TypeOK'
  <2>1. call' \in [Calls -> CallLocals]
    BY <1>1, <1>13, <1>15 DEF TypeOK
  <2> QED BY <1>1, <1>8, <1>9, <2>1 DEF TypeOK
<1>18. \A j \in CallLocals : CallOK(j) => CallOK(j)'
  <2>1. drawn <= drawn' /\ TokensStand
    BY <1>1, <1>8, AuthAssumption DEF TypeOK, TokensStand
  <2> QED BY <1>1, <1>8, <1>10, <1>17, <2>1, CallStands
<1>19. CallsOK'
  <2>1. \A j \in CallLocals : (\E d \in Calls \ {c} : j = call[d]) => CallOK(j)'
    BY <1>1, <1>18 DEF CallsOK
  <2> QED BY <1>1, <1>13, <1>15, <1>16, <1>18, <2>1, CallMoves
<1>20. SlidingExpiry' /\ ResetEndsOlderSessions' /\ NumbersAreDrawn'
  BY <1>1, <1>8 DEF TablesOK, SlidingExpiry, ResetEndsOlderSessions, NumbersAreDrawn
<1>21. AnsweredAccountsExist' /\ TokensHaveOwners'
  BY <1>1, <1>8, <1>10 DEF TablesOK, AnsweredAccountsExist, TokensHaveOwners, TypeOK, AuthTokens
<1>22. AccountsAreSeeded'
  BY <1>1, <1>2, <1>6, <1>9 DEF TablesOK, AccountsAreSeeded
<1>23. VerifiedAnswered'
  BY <1>1, <1>2, <1>8, <1>9 DEF TablesOK, VerifiedAnswered
<1> QED BY <1>17, <1>19, <1>20, <1>21, <1>22, <1>23 DEF AuthInvariant, TablesOK

LEMMA ResetCommitKeeps ==
    ASSUME AuthInvariant, NEW c \in Calls, ResetCommit(c)
    PROVE  AuthInvariant'
<1>1. TypeOK /\ TablesOK /\ CallsOK
  BY DEF AuthInvariant
<1>2. PICK e \in Emails : e = call[c].email /\ users[e] # None
  BY <1>1 DEF ResetCommit, CallsOK, CallOK, CallKnows, Resetting
<1>3. call[c] \in CallLocals /\ CallOK(call[c]) /\ call[c].pc = "reset"
  BY <1>1 DEF TypeOK, CallsOK, ResetCommit
<1>4. users[e] \in Users /\ users \in [Emails -> Users \cup {None}]
  BY <1>1, <1>2 DEF TypeOK
<1>5. PICK u : u = [users[e] EXCEPT !.password = call[c].password]
  OBVIOUS
<1>6. u \in Users /\ u # None
  <2>1. call[c].password \in Passwords
    BY <1>3 DEF CallOK, CallKnows, Resetting
  <2> QED BY <1>4, <1>5, <2>1, AuthAssumption DEF Users
<1>7. u.seeded = users[e].seeded /\ u.verified = users[e].verified
  BY <1>4, <1>5 DEF Users
<1>8. /\ users' = [users EXCEPT ![e] = u]
      /\ sessions' = [t \in Tokens |-> IF t \in call[c].doomed THEN None ELSE sessions[t]]
      /\ tokens' = [tokens EXCEPT ![call[c].token] = None]
      /\ swept' = [swept EXCEPT ![e] = call[c].mark]
      /\ call' = [call EXCEPT ![c] = NoCall]
      /\ UNCHANGED <<attempts, now, drawn, requests, faults, created, admitted>>
  BY <1>2, <1>4, <1>5 DEF ResetCommit, boundVars
<1>9. users' \in [Emails -> Users \cup {None}] /\ users'[e] = u /\ \A f \in Emails \ {e} : users'[f] = users[f]
  BY <1>4, <1>6, <1>8
<1>10. \A f \in Emails : users'[f] = None <=> users[f] = None
  BY <1>2, <1>6, <1>9
<1>11. /\ tokens' \in [Tokens -> AuthTokens \cup {None}]
       /\ \A t \in Tokens : tokens'[t] # None => tokens'[t] = tokens[t]
  <2>1. tokens \in [Tokens -> AuthTokens \cup {None}]
    BY <1>1 DEF TypeOK
  <2> QED BY <1>8, <2>1
<1>12. /\ sessions' \in [Tokens -> Sessions \cup {None}]
       /\ \A t \in Tokens : sessions'[t] # None => sessions'[t] = sessions[t] /\ t \notin call[c].doomed
  <2>1. sessions \in [Tokens -> Sessions \cup {None}]
    BY <1>1 DEF TypeOK
  <2> QED BY <1>8, <2>1
<1>13. call[c].mark \in Nat /\ call[c].mark <= drawn
  BY <1>3 DEF CallLocals, CallOK, SweepIsComplete
<1>14. swept' \in [Emails -> Nat] /\ swept'[e] = call[c].mark /\ \A f \in Emails \ {e} : swept'[f] = swept[f]
  <2>1. swept \in [Emails -> Nat]
    BY <1>1 DEF TypeOK
  <2> QED BY <1>8, <1>13, <2>1
<1>15. TypeOK'
  <2>1. call' \in [Calls -> CallLocals]
    BY <1>1, <1>8, NoCallNow DEF TypeOK
  <2> QED BY <1>1, <1>8, <1>9, <1>11, <1>12, <1>14, <2>1 DEF TypeOK
<1>16. ResetEndsOlderSessions'
  <2>1. SUFFICES ASSUME NEW t \in Tokens, sessions'[t] # None
                 PROVE  t > swept'[sessions'[t].user]
    BY DEF ResetEndsOlderSessions
  <2>2. sessions[t] # None /\ sessions'[t].user = sessions[t].user /\ t \notin call[c].doomed
    BY <1>12, <2>1
  <2>3. sessions[t].user \in Emails /\ t \in Nat
    <3>1. sessions[t] \in Sessions \cup {None}
      BY <1>1 DEF TypeOK
    <3> QED BY <2>2, <3>1, AuthAssumption DEF Sessions, Tokens
  <2>4. CASE sessions[t].user = e
    <3>1. ~(t <= call[c].mark)
      BY <1>2, <1>3, <2>2, <2>4 DEF CallOK, SweepIsComplete
    <3> QED BY <1>13, <1>14, <2>2, <2>3, <2>4, <3>1
  <2>5. CASE sessions[t].user # e
    BY <1>1, <1>14, <2>2, <2>3, <2>5 DEF TablesOK, ResetEndsOlderSessions
  <2> QED BY <2>4, <2>5
<1>17. SlidingExpiry'
  BY <1>1, <1>8, <1>12 DEF TablesOK, SlidingExpiry
<1>18. NumbersAreDrawn'
  <2>1. \A t \in Tokens : sessions'[t] # None \/ tokens'[t] # None => t <= drawn'
    BY <1>1, <1>8, <1>11, <1>12 DEF TablesOK, NumbersAreDrawn
  <2>2. \A f \in Emails : swept'[f] <= drawn'
    BY <1>1, <1>8, <1>13, <1>14 DEF TablesOK, NumbersAreDrawn
  <2> QED BY <2>1, <2>2 DEF NumbersAreDrawn
<1>19. AnsweredAccountsExist' /\ TokensHaveOwners'
  BY <1>1, <1>8, <1>10, <1>11 DEF TablesOK, AnsweredAccountsExist, TokensHaveOwners, TypeOK, AuthTokens
<1>20. AccountsAreSeeded'
  BY <1>1, <1>2, <1>7, <1>9 DEF TablesOK, AccountsAreSeeded
<1>21. VerifiedAnswered'
  BY <1>1, <1>2, <1>7, <1>8, <1>9 DEF TablesOK, VerifiedAnswered
<1>22. CallsOK'
  <2>1. drawn <= drawn' /\ TokensStand
    BY <1>1, <1>8, <1>11, AuthAssumption DEF TypeOK, TokensStand
  <2>2. \A t \in Tokens : sessions'[t] # None /\ t <= drawn =>
            sessions[t] # None /\ sessions'[t].user = sessions[t].user
    BY <1>12
  <2> QED BY <1>1, <1>8, <1>10, <1>15, <2>1, <2>2, CallEnds
<1> QED BY <1>15, <1>16, <1>17, <1>18, <1>19, <1>20, <1>21, <1>22 DEF AuthInvariant, TablesOK

-----------------------------------------------------------------------------
(* What a request knows stands when another account appears or is answered *)
(* for.                                                                    *)
LEMMA CallStandsElsewhere ==
    ASSUME TypeOK, TypeOK', NEW j \in CallLocals, CallOK(j), NEW e \in Emails,
           ~(InRegistration(j) /\ j.email = e), users'[e] # None, created[e] = 0,
           \A f \in Emails \ {e} : users'[f] = users[f] /\ created'[f] = created[f],
           UNCHANGED sessions, drawn <= drawn', TokensStand
    PROVE  CallOK(j)'
<1>1. j.mark \in Nat /\ drawn \in Nat /\ drawn' \in Nat
  BY AuthAssumption DEF CallLocals, TypeOK
<1>2. CallKnows(j)'
  BY VerifyTokenStands, WaitStands DEF CallOK, CallKnows, Registering, Resetting
<1>3. TransactionKnows(j)'
  BY DEF CallOK, CallKnows, TransactionKnows, Registering, InRegistration
<1>4. SweepIsComplete(j)'
  BY <1>1 DEF CallOK, SweepIsComplete
<1> QED BY <1>2, <1>3, <1>4 DEF CallOK

LEMMA RegisterCommitKeeps ==
    ASSUME AuthInvariant, NEW c \in Calls, RegisterCommit(c)
    PROVE  AuthInvariant'
<1>1. TypeOK /\ TablesOK /\ CallsOK
  BY DEF AuthInvariant
<1>2. call[c] \in CallLocals /\ CallOK(call[c]) /\ call[c].pc \in Registering /\ call[c].txn = "committing"
  BY <1>1 DEF TypeOK, CallsOK, RegisterCommit
<1>3. PICK e \in Emails : e = call[c].email /\ users[e] = None /\ created[e] = 0
  BY <1>2 DEF CallOK, CallKnows, TransactionKnows, Registering
<1>4. call[c].pc \in {"verify", "refused"} /\ call[c].seeded = TRUE /\ call[c].password \in Passwords
  BY <1>2 DEF CallOK, CallKnows, TransactionKnows, Registering
<1>5. PICK u : u = [password |-> call[c].password, verified |-> FALSE, seeded |-> TRUE]
  OBVIOUS
<1>6. u \in Users /\ u # None
  <2>1. u \in Users
    BY <1>4, <1>5, Zenon DEF Users
  <2> QED BY <2>1, AuthAssumption
<1>7. u.seeded = TRUE /\ u.verified = FALSE
  BY <1>5
<1>8. /\ users' = [users EXCEPT ![e] = u]
      /\ UNCHANGED <<sessions, tokens, attempts, now, drawn, requests, faults, created, swept, admitted>>
  BY <1>3, <1>4, <1>5 DEF RegisterCommit, boundVars, historyVars
<1>9. users' \in [Emails -> Users \cup {None}] /\ users'[e] = u /\ \A f \in Emails \ {e} : users'[f] = users[f]
  <2>1. users \in [Emails -> Users \cup {None}]
    BY <1>1 DEF TypeOK
  <2> QED BY <1>6, <1>8, <2>1
<1>10. drawn <= drawn' /\ drawn \in Nat /\ TokensStand
  BY <1>1, <1>8, AuthAssumption DEF TypeOK, TokensStand
<1>11. PICK k \in CallLocals :
           /\ call' = [call EXCEPT ![c] = k]
           /\ k = NoCall \/ (k.pc = "verify" /\ k.txn = "committed" /\ k.email = e /\ k.mark = call[c].mark
                             /\ k.password = call[c].password /\ k.seeded = TRUE)
  <2>1. CASE call[c].pc = "refused"
    BY <1>1, <2>1, NoCallNow DEF RegisterCommit
  <2>2. CASE call[c].pc = "verify"
    <3>1. PICK k : k = [call[c] EXCEPT !.txn = "committed"]
      OBVIOUS
    <3>2. k \in CallLocals
      BY <1>2, <3>1 DEF CallLocals
    <3>3. k.pc = "verify" /\ k.txn = "committed" /\ k.email = e /\ k.mark = call[c].mark
          /\ k.password = call[c].password /\ k.seeded = TRUE
      BY <1>2, <1>3, <1>4, <2>2, <3>1 DEF CallLocals
    <3>4. call' = [call EXCEPT ![c] = k]
      BY <2>2, <3>1 DEF RegisterCommit
    <3> QED BY <3>2, <3>3, <3>4
  <2> QED BY <1>4, <2>1, <2>2
<1>12. TypeOK'
  <2>1. call' \in [Calls -> CallLocals]
    BY <1>1, <1>11 DEF TypeOK
  <2> QED BY <1>1, <1>8, <1>9, <2>1 DEF TypeOK
<1>13. CallOK(k)' /\ Alone(c, k)
  <2>1. CASE k = NoCall
    BY <1>12, <2>1, NoCallOK DEF CallOK, CallKnows, TransactionKnows, SweepIsComplete, NoCall
  <2>2. CASE k.pc = "verify" /\ k.txn = "committed" /\ k.email = e /\ k.mark = call[c].mark
             /\ k.password = call[c].password /\ k.seeded = TRUE
    <3>1. CallKnows(k)' /\ TransactionKnows(k)'
      BY <1>3, <1>4, <1>6, <1>8, <1>9, <2>2 DEF CallKnows, TransactionKnows, Registering, Resetting
    <3>2. SweepIsComplete(k)'
      BY <1>2, <1>8, <2>2 DEF CallOK, SweepIsComplete
    <3>3. Alone(c, k)
      BY <1>1, <1>2, <1>3, <2>2 DEF Alone, CallsOK, OneRegistration, InRegistration
    <3> QED BY <3>1, <3>2, <3>3 DEF CallOK
  <2> QED BY <1>11, <2>1, <2>2
<1>14. ASSUME NEW j \in CallLocals, NEW d \in Calls \ {c}, j = call[d]
       PROVE  CallOK(j)'
  <2>1. CallOK(j) /\ ~(InRegistration(j) /\ j.email = e)
    BY <1>1, <1>2, <1>3, <1>14 DEF CallsOK, OneRegistration, InRegistration
  <2> QED BY <1>1, <1>3, <1>6, <1>8, <1>9, <1>10, <1>12, <2>1, CallStandsElsewhere
<1>15. CallsOK'
  BY <1>1, <1>11, <1>13, <1>14, CallMoves
<1>16. SlidingExpiry' /\ ResetEndsOlderSessions' /\ NumbersAreDrawn'
  BY <1>1, <1>8 DEF TablesOK, SlidingExpiry, ResetEndsOlderSessions, NumbersAreDrawn
<1>17. AnsweredAccountsExist' /\ TokensHaveOwners'
  BY <1>1, <1>6, <1>8, <1>9 DEF TablesOK, AnsweredAccountsExist, TokensHaveOwners, TypeOK, AuthTokens
<1>18. AccountsAreSeeded'
  BY <1>1, <1>7, <1>9 DEF TablesOK, AccountsAreSeeded
<1>19. VerifiedAnswered'
  BY <1>1, <1>7, <1>8, <1>9 DEF TablesOK, VerifiedAnswered
<1> QED BY <1>12, <1>15, <1>16, <1>17, <1>18, <1>19 DEF AuthInvariant, TablesOK

LEMMA RequestEmailVerificationKeeps ==
    ASSUME AuthInvariant, NEW c \in Calls, RequestEmailVerification(c)
    PROVE  AuthInvariant'
<1>1. TypeOK /\ TablesOK /\ CallsOK
  BY DEF AuthInvariant
<1>2. call[c] \in CallLocals /\ CallOK(call[c]) /\ call[c].pc = "verify"
  BY <1>1 DEF TypeOK, CallsOK, RequestEmailVerification
<1>3. CASE ~UserVisible(c)
  <2>1. /\ call' = [call EXCEPT ![c] = Failed(c)]
        /\ UNCHANGED <<users, sessions, tokens, now, drawn, created, swept, attempts, requests, faults, admitted>>
    BY <1>3 DEF RequestEmailVerification
  <2>2. CountersOK'
    BY <1>1, <2>1 DEF CountersOK, TypeOK
  <2> QED BY <1>2, <2>1, <2>2, FailedKeeps
<1>4. CASE UserVisible(c)
  <2>1. PICK e \in Emails : e = call[c].email /\ users[e] # None /\ created[e] = 0
    BY <1>2, <1>4 DEF UserVisible, CallOK, CallKnows, TransactionKnows, Registering
  <2>2. PICK a : a = [user |-> e, purpose |-> "verify", expires |-> now + VerifyLifetime]
    OBVIOUS
  <2>3. /\ tokens' = [tokens EXCEPT ![drawn'] = a]
        /\ created' = [created EXCEPT ![e] = @ + 1]
        /\ call' = [call EXCEPT ![c] = NoCall]
        /\ UNCHANGED <<users, sessions, attempts, now, requests, faults, swept, admitted>>
    BY <1>4, <2>1, <2>2 DEF RequestEmailVerification
  <2>4. drawn' = drawn + 1 /\ drawn \in Nat /\ drawn' \in 0..MaxTokens /\ drawn' \in Tokens /\ Tokens \subseteq Nat
    BY <1>1, <1>4, AuthAssumption DEF RequestEmailVerification, Draw, TypeOK, Tokens
  <2>5. a \in AuthTokens /\ a.user = e
    <3>1. now + VerifyLifetime \in Nat
      BY <1>1, AuthAssumption DEF TypeOK
    <3> QED BY <2>2, <3>1 DEF AuthTokens
  <2>6. /\ tokens' \in [Tokens -> AuthTokens \cup {None}]
        /\ tokens'[drawn'] = a
        /\ \A t \in Tokens \ {drawn'} : tokens'[t] = tokens[t]
    <3>1. tokens \in [Tokens -> AuthTokens \cup {None}]
      BY <1>1 DEF TypeOK
    <3> QED BY <2>3, <2>4, <2>5, <3>1
  <2>7. created' \in [Emails -> Nat] /\ created'[e] = 1 /\ \A f \in Emails \ {e} : created'[f] = created[f]
    <3>1. created \in [Emails -> Nat]
      BY <1>1 DEF TypeOK
    <3> QED BY <2>1, <2>3, <3>1
  <2>8. TypeOK'
    <3>1. call' \in [Calls -> CallLocals]
      BY <1>1, <2>3, NoCallNow DEF TypeOK
    <3> QED BY <1>1, <2>3, <2>4, <2>6, <2>7, <3>1 DEF TypeOK
  <2>9. SlidingExpiry' /\ ResetEndsOlderSessions' /\ AccountsAreSeeded'
    BY <1>1, <2>3 DEF TablesOK, SlidingExpiry, ResetEndsOlderSessions, AccountsAreSeeded
  <2>10. NumbersAreDrawn'
    <3>1. \A f \in Emails : swept[f] <= drawn /\ swept[f] \in Nat
      BY <1>1 DEF TablesOK, NumbersAreDrawn, TypeOK
    <3>2. \A t \in Tokens : sessions[t] # None \/ tokens[t] # None => t <= drawn
      BY <1>1 DEF TablesOK, NumbersAreDrawn
    <3> QED BY <2>3, <2>4, <2>6, <3>1, <3>2 DEF NumbersAreDrawn
  <2>11. AnsweredAccountsExist' /\ VerifiedAnswered'
    BY <1>1, <2>1, <2>3, <2>7 DEF TablesOK, AnsweredAccountsExist, VerifiedAnswered
  <2>12. TokensHaveOwners'
    <3>1. \A t \in Tokens : tokens[t] # None => tokens[t].user \in Emails
      BY <1>1 DEF TypeOK, AuthTokens
    <3> QED BY <1>1, <2>1, <2>3, <2>5, <2>6, <2>7, <3>1 DEF TablesOK, TokensHaveOwners
  <2>13. ASSUME NEW j \in CallLocals, NEW d \in Calls \ {c}, j = call[d]
         PROVE  CallOK(j)'
    <3>1. InRegistration(call[c])
      BY <1>2, <1>4 DEF InRegistration, UserVisible, Registering
    <3>2. CallOK(j) /\ ~(InRegistration(j) /\ j.email = e)
      BY <1>1, <2>1, <2>13, <3>1 DEF CallsOK, OneRegistration
    <3>3. drawn <= drawn'
      BY <2>4
    <3>4. TokensStand
      BY <1>1, <2>3, <2>4, <2>6, AuthAssumption DEF TokensStand, TypeOK
    <3> QED BY <1>1, <2>1, <2>3, <2>7, <2>8, <3>2, <3>3, <3>4, CallStandsElsewhere
  <2>14. CallsOK'
    BY <1>1, <2>3, <2>8, <2>13, NoCallOK, CallMoves
  <2> QED BY <2>8, <2>9, <2>10, <2>11, <2>12, <2>14 DEF AuthInvariant, TablesOK
<1> QED BY <1>3, <1>4

LEMMA TickKeeps ==
    ASSUME AuthInvariant, Tick
    PROVE  AuthInvariant'
<1>1. TypeOK /\ TablesOK /\ CallsOK
  BY DEF AuthInvariant
<1>2. now' = now + 1 /\ now' \in 0..MaxTime /\ now \in Nat
  BY <1>1, AuthAssumption DEF Tick, TypeOK
<1>3. UNCHANGED <<users, sessions, tokens, attempts, call, drawn, requests, faults, created, swept, admitted>>
  BY DEF Tick, historyVars
<1>4. TypeOK'
  BY <1>1, <1>2, <1>3 DEF TypeOK
<1>5. SlidingExpiry'
  <2>1. \A t \in Tokens : sessions[t] # None => sessions[t].used \in Nat
    BY <1>1 DEF TypeOK, Sessions
  <2> QED BY <1>1, <1>2, <1>3, <2>1 DEF TablesOK, SlidingExpiry
<1>6. ResetEndsOlderSessions' /\ NumbersAreDrawn' /\ TokensHaveOwners'
  BY <1>1, <1>3 DEF TablesOK, ResetEndsOlderSessions, NumbersAreDrawn, TokensHaveOwners
<1>7. AnsweredAccountsExist' /\ AccountsAreSeeded' /\ VerifiedAnswered'
  BY <1>1, <1>3 DEF TablesOK, AnsweredAccountsExist, AccountsAreSeeded, VerifiedAnswered
<1>8. CallsOK'
  <2>1. drawn <= drawn' /\ TokensStand
    BY <1>1, <1>2, <1>3, AuthAssumption DEF TokensStand, TypeOK
  <2> QED BY <1>1, <1>3, <1>4, <2>1, CallsStand
<1> QED BY <1>4, <1>5, <1>6, <1>7, <1>8 DEF AuthInvariant, TablesOK

LEMMA NoAttemptsType ==
    /\ NoAttempts \in [Limiters -> [Keys -> [windowStart : Nat, count : Nat]]]
    /\ NoAdmissions \in [Keys -> Seq(0..MaxTime)]
<1>1. NoEntry \in [windowStart : Nat, count : Nat]
  BY DEF NoEntry
<1> QED BY <1>1 DEF NoAttempts, NoAdmissions

LEMMA CrashKeeps ==
    ASSUME AuthInvariant, Crash
    PROVE  AuthInvariant'
<1>1. TypeOK /\ TablesOK /\ CallsOK
  BY DEF AuthInvariant
<1>2. call' = [c \in Calls |-> NoCall] /\ attempts' = NoAttempts /\ admitted' = NoAdmissions
  BY DEF Crash
<1>3. UNCHANGED <<users, sessions, tokens, now, drawn, requests, created, swept>>
  BY DEF Crash
<1>4. TypeOK'
  <2>1. faults' \in 0..MaxFaults
    BY <1>1, AuthAssumption DEF Crash, Fault, TypeOK
  <2>2. call' \in [Calls -> CallLocals]
    BY <1>1, <1>2, NoCallNow
  <2> QED BY <1>1, <1>2, <1>3, <2>1, <2>2, NoAttemptsType DEF TypeOK
<1>5. TablesOK'
  BY <1>1, <1>3, TablesStand
<1>6. CallsOK'
  <2>1. \A c \in Calls : call'[c] = NoCall
    BY <1>2
  <2>2. \A c \in Calls : CallOK(call[c])'
    BY <1>4, <2>1, NoCallOK DEF CallOK, CallKnows, TransactionKnows, SweepIsComplete
  <2>3. OneRegistration'
    BY <2>1 DEF OneRegistration, InRegistration, NoCall
  <2> QED BY <2>2, <2>3 DEF CallsOK
<1> QED BY <1>4, <1>5, <1>6 DEF AuthInvariant

LEMMA AuthInit == Init => AuthInvariant
<1>1. SUFFICES ASSUME Init PROVE AuthInvariant
  OBVIOUS
<1>2. PICK p \in Passwords :
          users = [e \in Emails |->
              IF e \in Existing THEN [password |-> p, verified |-> FALSE, seeded |-> TRUE] ELSE None]
  BY <1>1 DEF Init
<1>3. PICK u : u = [password |-> p, verified |-> FALSE, seeded |-> TRUE]
  OBVIOUS
<1>4. u \in Users /\ u # None
  <2>1. u \in Users
    BY <1>3, Zenon DEF Users
  <2> QED BY <2>1, AuthAssumption
<1>5. u.seeded = TRUE /\ u.verified = FALSE
  BY <1>3
<1>6. users \in [Emails -> Users \cup {None}]
      /\ \A e \in Emails : (e \in Existing => users[e] = u) /\ (e \notin Existing => users[e] = None)
  BY <1>2, <1>3, <1>4
<1>7. NoCall \in CallLocals
  BY DEF NoCall, CallLocals
<1>8. TypeOK
  <2>1. /\ sessions \in [Tokens -> Sessions \cup {None}]
        /\ tokens \in [Tokens -> AuthTokens \cup {None}]
        /\ call \in [Calls -> CallLocals]
    BY <1>1, <1>7 DEF Init
  <2>2. /\ now \in 0..MaxTime /\ drawn \in 0..MaxTokens
        /\ requests \in RequestLoads /\ faults \in 0..MaxFaults
        /\ created \in [Emails -> Nat] /\ swept \in [Emails -> Nat]
    BY <1>1, AuthAssumption DEF Init
  <2> QED BY <1>1, <1>6, <2>1, <2>2, NoAttemptsType DEF TypeOK, Init
<1>9. TablesOK
  <2>1. SlidingExpiry /\ ResetEndsOlderSessions /\ NumbersAreDrawn /\ TokensHaveOwners
    BY <1>1 DEF Init, SlidingExpiry, ResetEndsOlderSessions, NumbersAreDrawn, TokensHaveOwners
  <2>2. \A e \in Emails : created[e] = IF e \in Existing THEN 1 ELSE 0
    BY <1>1 DEF Init
  <2>3. AnsweredAccountsExist /\ VerifiedAnswered
    BY <1>4, <1>5, <1>6, <2>2 DEF AnsweredAccountsExist, VerifiedAnswered
  <2>4. AccountsAreSeeded
    BY <1>5, <1>6 DEF AccountsAreSeeded
  <2> QED BY <2>1, <2>3, <2>4 DEF TablesOK
<1>10. CallsOK
  <2>1. \A c \in Calls : call[c] = NoCall
    BY <1>1 DEF Init
  <2>2. \A c \in Calls : CallOK(call[c])
    BY <1>8, <2>1, NoCallNow
  <2>3. OneRegistration
    BY <2>1 DEF OneRegistration, InRegistration, NoCall
  <2> QED BY <2>2, <2>3 DEF CallsOK
<1> QED BY <1>8, <1>9, <1>10 DEF AuthInvariant

LEMMA AuthStep == AuthInvariant /\ [Next]_vars => AuthInvariant'
<1>1. SUFFICES ASSUME AuthInvariant, [Next]_vars PROVE AuthInvariant'
  OBVIOUS
<1>2. ASSUME NEW c \in Calls, Start(c) PROVE AuthInvariant'
  BY <1>1, <1>2, RegisterStartKeeps, LoginStartKeeps, ValidateSelectKeeps, ConfirmStartKeeps DEF Start
<1>3. ASSUME NEW c \in Calls, Step(c) PROVE AuthInvariant'
  BY <1>1, <1>3, TouchWaitKeeps, RegisterInsertKeeps, RegisterSeedKeeps, RegisterCommitKeeps,
     RequestEmailVerificationKeeps, LoginIssueKeeps, ValidateTouchKeeps, ResetUpdateKeeps,
     ResetSweepKeeps, ResetCommitKeeps, VerifyUpdateKeeps, VerifyDeleteKeeps DEF Step
<1>4. ASSUME NEW c \in Calls, CallFails(c) \/ CommitLost(c) PROVE AuthInvariant'
  BY <1>1, <1>4, CallFailsKeeps, CommitLostKeeps
<1>5. ASSUME NEW t \in Tokens, Logout(t) PROVE AuthInvariant'
  BY <1>1, <1>5, LogoutKeeps
<1>6. ASSUME NEW e \in Emails, RequestPasswordReset(e) PROVE AuthInvariant'
  BY <1>1, <1>6, RequestPasswordResetKeeps
<1>7. CASE Tick \/ Crash
  BY <1>1, <1>7, TickKeeps, CrashKeeps
<1>8. CASE UNCHANGED vars
  <2>1. TypeOK /\ TablesOK /\ CallsOK
    BY <1>1 DEF AuthInvariant
  <2>2. UNCHANGED <<users, sessions, tokens, attempts, call, now, drawn, requests, faults, created, swept, admitted>>
    BY <1>8 DEF vars, boundVars, historyVars
  <2>3. TypeOK'
    BY <2>1, <2>2 DEF TypeOK
  <2>4. TablesOK'
    BY <2>1, <2>2, TablesStand
  <2>5. CallsOK'
    <3>1. drawn <= drawn' /\ TokensStand
      BY <2>1, <2>2, AuthAssumption DEF TokensStand, TypeOK
    <3> QED BY <2>1, <2>2, <2>3, <3>1, CallsStand
  <2> QED BY <2>3, <2>4, <2>5 DEF AuthInvariant
<1> QED BY <1>1, <1>2, <1>3, <1>4, <1>5, <1>6, <1>7, <1>8 DEF Next, Finished

(* The inductive invariant: it holds initially and every statement, tick   *)
(* and fault of the authentication service preserves it.                   *)
THEOREM AuthCorrect == Spec => []AuthInvariant
  BY AuthInit, AuthStep, PTL DEF Spec

(* Every table, limiter and local keeps its type (TypeOK), for any number  *)
(* of accounts, requests, tokens and faults.                               *)
THEOREM AuthTypeCorrect == Spec => []TypeOK
<1>1. AuthInvariant => TypeOK
  BY DEF AuthInvariant
<1> QED BY <1>1, AuthCorrect, PTL

(* validateSession keeps its sliding-expiry window for every lifetime and  *)
(* touch interval not longer than it.                                      *)
THEOREM ExpirySlides == Spec => []SlidingExpiry
<1>1. AuthInvariant => SlidingExpiry
  BY DEF AuthInvariant, TablesOK
<1> QED BY <1>1, AuthCorrect, PTL

(* A 201 of registerUser is about an account that is there, and there is   *)
(* one 201 per email, although the answer does not wait for the commit.    *)
THEOREM AnsweredExist == Spec => []AnsweredAccountsExist
<1>1. AuthInvariant => AnsweredAccountsExist
  BY DEF AuthInvariant, TablesOK
<1> QED BY <1>1, AuthCorrect, PTL

(* No failure, lost commit or crash leaves an account without its seeds.   *)
THEOREM Seeded == Spec => []AccountsAreSeeded
<1>1. AuthInvariant => AccountsAreSeeded
  BY DEF AuthInvariant, TablesOK
<1> QED BY <1>1, AuthCorrect, PTL

(* Only the token of an answered registration verifies an email            *)
(* (confirmEmailVerification).                                             *)
THEOREM Verified == Spec => []VerifiedByRegistration
<1>1. AuthInvariant => VerifiedByRegistration
  <2>1. AuthInvariant => VerifiedAnswered
    BY DEF AuthInvariant, TablesOK
  <2>2. ASSUME AuthInvariant, NEW c \in Calls, call[c].pc \in {"mark", "spend"}
        PROVE  HoldsVerifyToken(call[c])
    BY <2>2 DEF AuthInvariant, CallsOK, CallOK, CallKnows
  <2> QED BY <2>1, <2>2 DEF VerifiedByRegistration, VerifiedAnswered, HoldsVerifyToken
<1> QED BY <1>1, AuthCorrect, PTL

(* A committed confirmPasswordReset ends every session opened before its   *)
(* DELETE, and none of them comes back.                                    *)
THEOREM ResetEnds == Spec => []ResetEndsOlderSessions
<1>1. AuthInvariant => ResetEndsOlderSessions
  BY DEF AuthInvariant, TablesOK
<1> QED BY <1>1, AuthCorrect, PTL


-----------------------------------------------------------------------------
(* The burst of logins.  Two windows matter: of the admissions of a key, *)
(* fewer than the limit are later than the start of its window (the charge *)
(* that opened it is not), and those of the window aside fewer than the    *)
(* limit are less than a window's length before that start.  Both hold     *)
(* whether or not a charge was an admission: the other key's limiter may   *)
(* have refused it.                                                        *)

LoginEntry(k) == attempts["login"][k]
Used(entry) == IF entry.count < MaxAttempts THEN entry.count ELSE MaxAttempts

Spread(entry, times, t) ==
    /\ entry.windowStart <= t
    /\ entry.count = 0 \/ MaxAttempts = 0 => Len(times) = 0
    /\ \A i \in 1..Len(times) :
           /\ times[i] <= t
           /\ Len(times) - i >= Used(entry) - 1 => times[i] <= entry.windowStart
           /\ Len(times) - i >= Used(entry) + MaxAttempts - 1 =>
                  times[i] + Window < entry.windowStart

Apart(times) ==
    \A i, j \in 1..Len(times) : j - i >= BurstSpan => times[j] - times[i] > Window

LoginsSpread ==
    \A k \in Keys : Spread(LoginEntry(k), admitted[k], now) /\ Apart(admitted[k])

Entries == [windowStart : Nat, count : Nat]

LEMMA EntryParts ==
    ASSUME NEW entry \in Entries
    PROVE  entry.windowStart \in Nat /\ entry.count \in Nat /\ Used(entry) \in Nat
BY LimiterAssumption DEF Entries, Used

(* A charge in the current window, and one that opens the next. *)
Fills(entry, new, t) ==
    /\ entry.count # 0
    /\ new.windowStart = entry.windowStart
    /\ new.count = entry.count + 1
Opens(entry, new, t) ==
    /\ entry.count = 0 \/ entry.windowStart + Window < t
    /\ new.windowStart = t
    /\ new.count = 1

LEMMA ChargeCases ==
    ASSUME NEW entry \in Entries, NEW t \in Nat
    PROVE  /\ Charge(entry, t) \in Entries
           /\ Fills(entry, Charge(entry, t), t) \/ Opens(entry, Charge(entry, t), t)
<1> USE LimiterAssumption DEF Entries
<1>1. CASE WindowOver(entry, t)
  BY <1>1 DEF Charge, WindowOver, Opens
<1>2. CASE ~WindowOver(entry, t)
  BY <1>2 DEF Charge, WindowOver, Fills
<1> QED BY <1>1, <1>2

(* A refused attempt: the window is charged, nothing is admitted. *)
LEMMA RefusedSpread ==
    ASSUME NEW entry \in Entries, NEW t \in Nat, NEW times \in Seq(Nat), Spread(entry, times, t)
    PROVE  Spread(Charge(entry, t), times, t)
<1> USE LimiterAssumption
<1>1. PICK new \in Entries : new = Charge(entry, t)
  BY ChargeCases
<1>2. PICK n \in Nat : n = Len(times)
  OBVIOUS
<1>3. \A i \in 1..n : times[i] \in Nat
  BY <1>2
<1>4. PICK u \in Nat, v \in Nat : u = Used(entry) /\ v = Used(new)
  BY EntryParts
<1>5. entry.windowStart \in Nat /\ entry.count \in Nat /\ new.windowStart \in Nat
  BY EntryParts
<1>6. CASE Fills(entry, new, t)
  <2>1. u <= v
    BY <1>4, <1>5, <1>6 DEF Used, Fills
  <2>2. new.windowStart = entry.windowStart /\ new.count # 0 /\ entry.count # 0
    BY <1>5, <1>6 DEF Fills
  <2> QED BY <1>1, <1>2, <1>4, <2>1, <2>2 DEF Spread
<1>7. CASE Opens(entry, new, t)
  <2>1. u <= MaxAttempts /\ (MaxAttempts > 0 => v = 1)
    BY <1>4, <1>5, <1>7 DEF Used, Opens
  <2>2. new.windowStart = t /\ new.count = 1 /\ (n = 0 \/ entry.windowStart + Window < t)
    BY <1>2, <1>7 DEF Opens, Spread
  <2>3. ASSUME NEW i \in 1..n, n - i >= v + MaxAttempts - 1
        PROVE  times[i] + Window < t
    <3>1. MaxAttempts > 0 /\ n - i >= u - 1
      BY <1>2, <2>1, <2>3 DEF Spread
    <3>2. times[i] <= entry.windowStart /\ times[i] \in Nat
      BY <1>2, <1>3, <1>4, <3>1 DEF Spread
    <3> QED BY <1>5, <2>2, <3>2
  <2>4. \A i \in 1..n : times[i] <= t
    BY <1>2 DEF Spread
  <2>5. MaxAttempts = 0 => n = 0
    BY <1>2 DEF Spread
  <2> QED BY <1>1, <1>2, <1>4, <2>2, <2>3, <2>4, <2>5 DEF Spread
<1> QED BY <1>1, <1>6, <1>7, ChargeCases

(* An admission: it is far enough from the earlier ones. *)
LEMMA AdmittedSpread ==
    ASSUME NEW entry \in Entries, NEW t \in Nat, NEW times \in Seq(Nat),
           Spread(entry, times, t), Apart(times), Allowed(Charge(entry, t))
    PROVE  Spread(Charge(entry, t), Append(times, t), t) /\ Apart(Append(times, t))
<1> USE LimiterAssumption
<1>1. PICK new \in Entries : new = Charge(entry, t)
  BY ChargeCases
<1>2. PICK n \in Nat : n = Len(times)
  OBVIOUS
<1>3. PICK longer : longer = Append(times, t)
  OBVIOUS
<1>4. /\ Len(longer) = n + 1 /\ longer[n + 1] = t
      /\ \A i \in 1..n : longer[i] = times[i] /\ times[i] \in Nat
  BY <1>2, <1>3
<1>5. PICK w \in Nat, k \in Nat, x \in Nat, m \in Nat :
          /\ w = entry.windowStart /\ k = entry.count
          /\ x = new.windowStart /\ m = new.count
  BY EntryParts
<1>6. /\ w <= t
      /\ \A i \in 1..n :
             /\ times[i] <= t
             /\ n - i >= Used(entry) - 1 => times[i] <= w
             /\ n - i >= Used(entry) + MaxAttempts - 1 => times[i] + Window < w
  BY <1>2, <1>5 DEF Spread
<1>7. m <= MaxAttempts
  BY <1>1, <1>5 DEF Allowed
<1>8. ASSUME m >= 1, x <= t,
             \A i \in 1..(n + 1) : /\ longer[i] <= t
                                   /\ n + 1 - i >= m - 1 => longer[i] <= x
                                   /\ n + 1 - i >= m + MaxAttempts - 1 => longer[i] + Window < x
      PROVE  Spread(new, longer, t)
  <2>1. Used(new) = m /\ new.count # 0 /\ MaxAttempts # 0
    BY <1>5, <1>7, <1>8 DEF Used
  <2> QED BY <1>4, <1>5, <1>8, <2>1 DEF Spread
<1>9. /\ m >= 1
      /\ \A i \in 1..n : n - i >= 2 * MaxAttempts - 2 => times[i] + Window < t
      /\ Spread(new, longer, t)
  <2>1. CASE Fills(entry, new, t)
    <3>1. k > 0 /\ x = w /\ m = k + 1
      BY <1>5, <2>1 DEF Fills
    <3>2. Used(entry) = k
      BY <1>5, <1>7, <3>1 DEF Used
    <3>3. ASSUME NEW i \in 1..n, n - i >= 2 * MaxAttempts - 2
          PROVE  times[i] + Window < t
      <4>1. n - i >= k + MaxAttempts - 1
        BY <1>7, <3>1, <3>3
      <4>2. times[i] + Window < w /\ times[i] \in Nat
        BY <1>4, <1>6, <3>2, <4>1
      <4> QED BY <1>6, <4>2
    <3>4. ASSUME NEW i \in 1..(n + 1)
          PROVE  /\ longer[i] <= t
                 /\ n + 1 - i >= m - 1 => longer[i] <= x
                 /\ n + 1 - i >= m + MaxAttempts - 1 => longer[i] + Window < x
      <4>1. CASE i = n + 1
        <5>1. n + 1 - i = 0 /\ longer[i] = t
          BY <1>4, <4>1
        <5> QED BY <1>7, <3>1, <5>1
      <4>2. CASE i \in 1..n
        <5>1. longer[i] = times[i]
          BY <1>4, <4>2
        <5>2. /\ times[i] <= t
              /\ n - i >= k - 1 => times[i] <= w
              /\ n - i >= k + MaxAttempts - 1 => times[i] + Window < w
          BY <1>6, <3>2, <4>2
        <5> QED BY <3>1, <5>1, <5>2
      <4> QED BY <4>1, <4>2
    <3> QED BY <1>6, <1>8, <3>1, <3>3, <3>4
  <2>2. CASE Opens(entry, new, t)
    <3>1. x = t /\ m = 1 /\ (n = 0 \/ w + Window < t)
      BY <1>2, <1>5, <2>2 DEF Opens, Spread
    <3>2. ASSUME NEW i \in 1..n, n - i >= MaxAttempts - 1
          PROVE  times[i] + Window < t
      <4>1. Used(entry) \in Nat /\ Used(entry) <= MaxAttempts
        BY <1>5, EntryParts DEF Used
      <4>2. times[i] <= w /\ times[i] \in Nat
        BY <1>4, <1>6, <3>2, <4>1
      <4> QED BY <3>1, <4>2
    <3>3. \A i \in 1..(n + 1) : longer[i] <= t
      BY <1>4, <1>6
    <3>4. ASSUME NEW i \in 1..(n + 1), n + 1 - i >= MaxAttempts
          PROVE  longer[i] + Window < t
      <4>1. i \in 1..n /\ n - i >= MaxAttempts - 1
        BY <1>7, <3>1, <3>4
      <4> QED BY <1>4, <3>2, <4>1
    <3>5. Spread(new, longer, t)
      BY <1>8, <3>1, <3>3, <3>4
    <3>6. ASSUME NEW i \in 1..n, n - i >= 2 * MaxAttempts - 2
          PROVE  times[i] + Window < t
      BY <1>7, <3>1, <3>2, <3>6
    <3> QED BY <3>1, <3>5, <3>6
  <2> QED BY <1>1, <2>1, <2>2, ChargeCases
<1>10. Apart(longer)
  <2> SUFFICES ASSUME NEW i \in 1..(n + 1), NEW j \in 1..(n + 1), j - i >= BurstSpan
               PROVE  longer[j] - longer[i] > Window
    BY <1>4 DEF Apart
  <2>1. i \in 1..n
    BY <1>7, <1>9 DEF BurstSpan
  <2>2. CASE j \in 1..n
    <3>1. times[j] - times[i] > Window
      BY <1>2, <2>1, <2>2 DEF Apart
    <3> QED BY <1>4, <2>1, <2>2, <3>1
  <2>3. CASE j = n + 1
    <3>1. n - i >= 2 * MaxAttempts - 2
      BY <2>1, <2>3 DEF BurstSpan
    <3>2. longer[j] = t /\ longer[i] = times[i] /\ times[i] \in Nat
      BY <1>4, <2>1, <2>3
    <3> QED BY <1>9, <2>1, <3>1, <3>2
  <2> QED BY <2>2, <2>3
<1> QED BY <1>1, <1>3, <1>9, <1>10

(* Time passing leaves what is behind it behind it. *)
LEMMA LaterSpread ==
    ASSUME NEW entry \in Entries, NEW times \in Seq(Nat), NEW t \in Nat, NEW u \in Nat,
           t <= u, Spread(entry, times, t)
    PROVE  Spread(entry, times, u)
BY EntryParts DEF Spread

LEMMA LimiterTypes ==
    ASSUME TypeOK
    PROVE  /\ now \in Nat
           /\ \A k \in Keys : LoginEntry(k) \in Entries /\ admitted[k] \in Seq(Nat)
<1>1. now \in Nat /\ \A k \in Keys : LoginEntry(k) \in Entries
  BY AuthAssumption DEF TypeOK, LoginEntry, Entries, Limiters
<1>2. ASSUME NEW k \in Keys PROVE admitted[k] \in Seq(Nat)
  <2>1. admitted[k] \in Seq(0..MaxTime)
    BY DEF TypeOK
  <2> QED BY <2>1, AuthAssumption
<1> QED BY <1>1, <1>2

(* A login charges the entries of its source and its spelling, and no      *)
(* other key's; a registration charges none of these.                      *)
LEMMA ChargedEntries ==
    ASSUME TypeOK, NEW s \in Sources, NEW n \in Spellings
    PROVE  /\ \A k \in {s, n} : Charged("login", s, n)["login"][k] = Charge(LoginEntry(k), now)
           /\ \A k \in Keys \ {s, n} : Charged("login", s, n)["login"][k] = LoginEntry(k)
           /\ \A k \in Keys : Charged("register", s, n)["login"][k] = LoginEntry(k)
<1>1. s # n /\ s \in Keys /\ n \in Keys /\ "login" \in Limiters /\ "register" \in Limiters
  BY AuthAssumption DEF Limiters, Keys
<1> QED BY <1>1 DEF TypeOK, Charged, LoginEntry

LEMMA SpreadStands ==
    ASSUME TypeOK, LoginsSpread, now' \in Nat, now <= now', UNCHANGED admitted,
           \A k \in Keys : LoginEntry(k)' = LoginEntry(k)
    PROVE  LoginsSpread'
<1> SUFFICES ASSUME NEW k \in Keys
             PROVE  Spread(LoginEntry(k)', admitted'[k], now') /\ Apart(admitted'[k])
  BY DEF LoginsSpread
<1>1. LoginEntry(k) \in Entries /\ admitted[k] \in Seq(Nat) /\ now \in Nat
  BY LimiterTypes
<1>2. Spread(LoginEntry(k), admitted[k], now) /\ Apart(admitted[k])
  BY DEF LoginsSpread
<1> QED BY <1>1, <1>2, LaterSpread

LEMMA LoginStartSpreads ==
    ASSUME TypeOK, LoginsSpread, NEW c \in Calls, LoginStart(c)
    PROVE  LoginsSpread'
<1>1. PICK s \in Sources, n \in Spellings :
          /\ attempts' = Charged("login", s, n)
          /\ admitted' =
                 IF Admits("login", s, n)
                 THEN [admitted EXCEPT ![s] = Append(@, now), ![n] = Append(@, now)] ELSE admitted
  BY DEF LoginStart
<1>2. now' = now
  BY DEF LoginStart
<1>3. SUFFICES ASSUME NEW k \in Keys
               PROVE  Spread(LoginEntry(k)', admitted'[k], now) /\ Apart(admitted'[k])
  BY <1>2 DEF LoginsSpread
<1>4. /\ LoginEntry(k) \in Entries /\ admitted[k] \in Seq(Nat) /\ now \in Nat
      /\ Spread(LoginEntry(k), admitted[k], now) /\ Apart(admitted[k])
  BY LimiterTypes DEF LoginsSpread
<1>5. admitted \in [Keys -> Seq(0..MaxTime)] /\ s # n /\ s \in Keys /\ n \in Keys
  BY AuthAssumption DEF TypeOK, Keys
<1>6. CASE k \notin {s, n}
  <2>1. LoginEntry(k)' = LoginEntry(k) /\ admitted'[k] = admitted[k]
    BY <1>1, <1>5, <1>6, ChargedEntries DEF LoginEntry
  <2> QED BY <1>4, <2>1
<1>7. CASE k \in {s, n}
  <2>1. LoginEntry(k)' = Charge(LoginEntry(k), now)
    BY <1>1, <1>7, ChargedEntries DEF LoginEntry
  <2>2. CASE Admits("login", s, n)
    <3>1. Allowed(Charge(LoginEntry(k), now))
      BY <1>7, <2>2, ChargedEntries DEF Admits
    <3>2. admitted'[k] = Append(admitted[k], now)
      BY <1>1, <1>5, <1>7, <2>2
    <3> QED BY <1>4, <2>1, <3>1, <3>2, AdmittedSpread
  <2>3. CASE ~Admits("login", s, n)
    <3>1. admitted'[k] = admitted[k]
      BY <1>1, <1>5, <1>7, <2>3
    <3> QED BY <1>4, <2>1, <3>1, RefusedSpread
  <2> QED BY <2>2, <2>3
<1> QED BY <1>6, <1>7

LEMMA NothingSpreads ==
    ASSUME NEW t \in Nat
    PROVE  Spread(NoEntry, <<>>, t) /\ Apart(<<>>)
BY DEF Spread, Apart, NoEntry

LEMMA SpreadStep == AuthInvariant /\ LoginsSpread /\ [Next]_vars => LoginsSpread'
<1> SUFFICES ASSUME AuthInvariant, LoginsSpread, [Next]_vars PROVE LoginsSpread'
  OBVIOUS
<1>1. TypeOK /\ now \in Nat
  BY LimiterTypes DEF AuthInvariant
<1>2. ASSUME NEW c \in Calls, RegisterStart(c) PROVE LoginsSpread'
  <2>1. PICK s \in Sources, n \in Spellings : attempts' = Charged("register", s, n)
    BY <1>2 DEF RegisterStart
  <2>2. \A f \in Keys : LoginEntry(f)' = LoginEntry(f)
    BY <1>1, <2>1, ChargedEntries DEF LoginEntry
  <2>3. UNCHANGED <<now, admitted>>
    BY <1>2 DEF RegisterStart, historyVars
  <2> QED BY <1>1, <2>2, <2>3, SpreadStands
<1>3. CASE Tick
  <2>1. now' = now + 1 /\ UNCHANGED <<attempts, admitted>>
    BY <1>3 DEF Tick, historyVars
  <2>2. \A f \in Keys : LoginEntry(f)' = LoginEntry(f)
    BY <2>1 DEF LoginEntry
  <2> QED BY <1>1, <2>1, <2>2, SpreadStands
<1>4. CASE Crash
  <2>1. /\ now' = now /\ \A k \in Keys : admitted'[k] = <<>>
        /\ \A k \in Keys : LoginEntry(k)' = NoEntry
    BY <1>4 DEF Crash, NoAdmissions, NoAttempts, LoginEntry, Limiters
  <2> QED BY <1>1, <2>1, NothingSpreads DEF LoginsSpread
<1>5. CASE UNCHANGED <<attempts, now, admitted>>
  <2>1. \A f \in Keys : LoginEntry(f)' = LoginEntry(f)
    BY <1>5 DEF LoginEntry
  <2> QED BY <1>1, <1>5, <2>1, SpreadStands
<1>6. ASSUME NEW c \in Calls, Start(c) PROVE LoginsSpread'
  BY <1>1, <1>2, <1>5, <1>6, LoginStartSpreads DEF Start, ValidateSelect, ConfirmStart, historyVars
<1>7. ASSUME NEW c \in Calls, Step(c) \/ CallFails(c) \/ CommitLost(c) PROVE LoginsSpread'
  BY <1>5, <1>7 DEF Step, RegisterInsert, RegisterSeed, RegisterCommit, RequestEmailVerification,
     LoginIssue, TouchWait, ValidateTouch, ResetUpdate, ResetSweep, ResetCommit, VerifyUpdate, VerifyDelete,
     CallFails, CommitLost, boundVars, historyVars
<1>8. ASSUME NEW t \in Tokens, Logout(t) PROVE LoginsSpread'
  BY <1>5, <1>8 DEF Logout, historyVars
<1>9. ASSUME NEW e \in Emails, RequestPasswordReset(e) PROVE LoginsSpread'
  BY <1>5, <1>9 DEF RequestPasswordReset, historyVars
<1>10. CASE UNCHANGED vars
  BY <1>5, <1>10 DEF vars, boundVars, historyVars
<1> QED BY <1>3, <1>4, <1>6, <1>7, <1>8, <1>9, <1>10 DEF Next, Finished

LEMMA SpreadInit == Init => LoginsSpread
<1> SUFFICES ASSUME Init PROVE LoginsSpread
  OBVIOUS
<1>1. /\ now = 0 /\ \A k \in Keys : admitted[k] = <<>>
      /\ \A k \in Keys : LoginEntry(k) = NoEntry
  BY DEF Init, NoAdmissions, NoAttempts, LoginEntry, Limiters
<1> QED BY <1>1, NothingSpreads DEF LoginsSpread

(* RateLimiter::allow lets fewer than twice the limit of logins of a peer  *)
(* address, or of an email as it is spelled, pass within any span of a     *)
(* window's length, for every limit, window, number of sources and         *)
(* spellings and interleaving of requests, ticks and crashes.              *)
THEOREM LoginBurst == Spec => []LoginBurstBounded
<1>1. LoginsSpread => LoginBurstBounded
  BY DEF LoginsSpread, Apart, LoginBurstBounded
<1> QED BY <1>1, AuthCorrect, SpreadInit, SpreadStep, PTL DEF Spec

=============================================================================
