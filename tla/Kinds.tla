-------------------------------- MODULE Kinds --------------------------------
(***************************************************************************)
(* The transaction-kind table of src/receipts/Kinds.h: which rules each    *)
(* kind of receipt obeys.  Every validation, default and scan decision in  *)
(* the program derives from this table.                                    *)
(***************************************************************************)

Directions == {"inflow", "outflow"}

(* A kind with no canonical direction (a transfer) goes either way. *)
AnyDirection == "any"

(* kKinds.  The scanner's wording for a kind is reduced to the one bit the *)
(* program computes from it: whether the scanner may classify a document   *)
(* as that kind at all.                                                    *)
KindRules ==
    [ purchase |->
        [canonicalDirection |-> "outflow", allowsTaxDeductible |-> TRUE, canOffset |-> FALSE,
         isOffsetTarget |-> TRUE, usesIncomeCategories |-> FALSE, scannable |-> TRUE],
      refund |->
        [canonicalDirection |-> "inflow", allowsTaxDeductible |-> FALSE, canOffset |-> TRUE,
         isOffsetTarget |-> FALSE, usesIncomeCategories |-> FALSE, scannable |-> TRUE],
      reimbursement |->
        [canonicalDirection |-> "inflow", allowsTaxDeductible |-> FALSE, canOffset |-> TRUE,
         isOffsetTarget |-> FALSE, usesIncomeCategories |-> FALSE, scannable |-> TRUE],
      income |->
        [canonicalDirection |-> "inflow", allowsTaxDeductible |-> FALSE, canOffset |-> FALSE,
         isOffsetTarget |-> FALSE, usesIncomeCategories |-> TRUE, scannable |-> TRUE],
      transfer |->
        [canonicalDirection |-> AnyDirection, allowsTaxDeductible |-> FALSE, canOffset |-> FALSE,
         isOffsetTarget |-> FALSE, usesIncomeCategories |-> FALSE, scannable |-> FALSE] ]

KnownKinds == {"purchase", "refund", "reimbursement", "income", "transfer"}

DefaultKind == "purchase"

RulesFor(kind) == KindRules[kind]

(* findKind(kind) && rules->scannable(): an unknown kind is not scannable. *)
MutantScannableAnyKind(kind) == kind \in KnownKinds
Scannable(kind) == kind \in KnownKinds /\ RulesFor(kind).scannable

=============================================================================
