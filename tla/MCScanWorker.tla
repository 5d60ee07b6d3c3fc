---------------------------- MODULE MCScanWorker ----------------------------
(***************************************************************************)
(* Small instances of ScanWorker for TLC.  Each configuration opens one    *)
(* part of the environment: the queue with several receipts and faults,    *)
(* one reviewed receipt under edits, item edits, racing ticks, liveness.   *)
(***************************************************************************)
EXTENDS ScanRefinement

CONSTANT m1

OneReceipt == {1}
TwoReceipts == {1, 2}
ThreeReceipts == {1, 2, 3}
NoMerchants == {}
NoPairs == {}
OneTotal == {0}
TwoTotals == {0, 1}
OneMerchant == {m1}
SameMerchant == {<<m1, m1>>}
PurchaseOnly == {"purchase"}
PurchaseOrTransfer == {"purchase", "transfer"}

=============================================================================
