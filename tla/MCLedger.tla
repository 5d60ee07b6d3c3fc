------------------------------ MODULE MCLedger ------------------------------
(***************************************************************************)
(* Small instances of Ledger.  A mix names the requests that come          *)
(* together: the first two of Together keep item writes apart from changes *)
(* of a receipt's kind, the third has items created beside scans that wait *)
(* for them, and KindRaceMixes an item created beside an edit.             *)
(***************************************************************************)
EXTENDS LedgerRefinement, TLC

CONSTANTS r1, c1, c2, w1, w2, w3

OneReceipt == {r1}
TwoCategories == {c1, c2}
TwoItems == {1, 2}
TwoWriters == {w1, w2}
ThreeWriters == {w1, w2, w3}

Together ==
    { {"manual", "item_create", "item_update", "item_remove", "delete", "flip", "category_create",
       "category_remove"},
      {"manual", "item_remove", "patch", "delete", "flip", "category_create", "category_remove",
       "scan"},
      {"manual", "item_create", "delete", "scan"} }
KindRaceMixes == { {"item_create", "patch"} }

(* One kind of each side; "invoice" is a kind the table does not know. *)
BothSides == {"purchase", "income"}
Answers == {"purchase", "income", "invoice"}

Symmetric == Permutations(ThreeWriters) \cup Permutations(TwoCategories)

=============================================================================
