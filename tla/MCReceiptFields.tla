--------------------------- MODULE MCReceiptFields ---------------------------
(***************************************************************************)
(* A small instance of ReceiptFields: the bodies whose keys constrain each *)
(* other.                                                                  *)
(***************************************************************************)
EXTENDS ReceiptFields, FiniteSets, TLC

CONSTANTS r1, r2, w1, w2

TwoReceipts == {r1, r2}
TwoWriters == {w1, w2}
OneRate == {150}
TwoTotals == {0, 1}
Answers == {"purchase", "refund", "transfer"}

(* The sets of keys that come together, with the values of one each. *)
NoKeys ==
    [kind |-> Absent, direction |-> Absent, total |-> Absent, currency |-> Absent,
     rate |-> Absent, tax |-> Absent, offsets |-> Absent]

TestBodies ==
    {NoKeys}
    \cup {[NoKeys EXCEPT !.kind = k, !.offsets = o] :
              k \in {"purchase", "refund"}, o \in {r1, r2, NULL}}
    \cup {[NoKeys EXCEPT !.kind = k, !.total = 1, !.offsets = o] : k \in {"refund"}, o \in {r1, r2}}
    \cup {[NoKeys EXCEPT !.kind = "transfer", !.direction = d, !.total = 1] : d \in {"inflow", Absent}}
    \cup {[NoKeys EXCEPT !.kind = "transfer"], [NoKeys EXCEPT !.tax = TRUE]}
    \cup {[NoKeys EXCEPT !.total = 1, !.currency = "USD", !.rate = 150]}
    \cup {[NoKeys EXCEPT !.rate = NULL]}

Symmetric == Permutations(TwoReceipts) \cup Permutations(TwoWriters)

=============================================================================
