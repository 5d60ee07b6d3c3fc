-------------------------- MODULE LedgerRefinement --------------------------
(***************************************************************************)
(* Ledger implements AtomicLedger.  The tables are the same; the locals    *)
(* and locks of the open transactions are hidden.                          *)
(***************************************************************************)
EXTENDS Ledger

Contract == INSTANCE AtomicLedger WITH
    ScanKinds <- {k \in ResultKinds : Scannable(k)}, FirstKind <- DefaultKind

(* The transactions implement the contract, Contract!Spec, where item      *)
(* writes do not meet kind changes: however their statements, row          *)
(* locks, stale snapshots and aborts interleave, each takes effect in one  *)
(* step, its commit, and what it checked on the way - the category's side, *)
(* the receipt's kind, that nobody vouches for the row a scan rewrites,    *)
(* that the items it replaces are all there are - is true in that step.    *)
LedgerLooksAtomic ==
    /\ KindChangesAlone => Contract!Init
    /\ [][KindChangesAlone => Contract!Next]_(Contract!vars)

=============================================================================
