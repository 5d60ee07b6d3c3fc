\* Two requests in flight out of four of any kind, one account existing and one being
\* registered; or six logins from two addresses, under two spellings of an email.
SPECIFICATION FairSpec
CONSTANTS
    None = None
    e1 = e1
    e2 = e2
    lower = lower
    mixed = mixed
    s1 = s1
    s2 = s2
    Emails <- MCEmails
    Existing <- MCExisting
    Sources <- MCSources
    Spellings <- MCSpellings
    Account <- MCAccount
    Loads <- MCLoads
    MaxMixed = 4
    MaxLogins = 6
    Passwords = {p1}
    Calls = {c1, c2}
    MaxAttempts = 2
    Window = 1
    Lifetime = 2
    TouchInterval = 1
    ResetLifetime = 1
    VerifyLifetime = 2
    MaxTokens = 4
    MaxTime = 2
    MaxFaults = 1
INVARIANTS SlidingExpiry AnsweredAccountsExist AccountsAreSeeded VerifiedByRegistration
    ResetEndsOlderSessions LoginBurstBounded
PROPERTIES EveryCallAnswers
