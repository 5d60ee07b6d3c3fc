------------------------------- MODULE MCAuth -------------------------------
(***************************************************************************)
(* Instances of Auth for TLC: an email can be sent in two cases, and the   *)
(* database ignores which.  A behaviour has requests of every kind, in one *)
(* case and from one peer address, or logins only, in either case and from *)
(* either address.                                                         *)
(***************************************************************************)
EXTENDS Auth

CONSTANTS e1, e2, lower, mixed, s1, s2, MaxMixed, MaxLogins

MCEmails == {e1, e2}
MCExisting == {e1}
MCSources == {s1, s2}
MCSpellings == (MCEmails \X {lower}) \cup {<<e2, mixed>>}
MCAccount == [n \in MCSpellings |-> n[1]]

MCLoads ==
    {[kinds |-> RequestKinds, keys |-> {s1} \cup (MCEmails \X {lower}), left |-> MaxMixed],
     [kinds |-> {"login"}, keys |-> MCSources \cup ({e2} \X {lower, mixed}), left |-> MaxLogins]}

=============================================================================
