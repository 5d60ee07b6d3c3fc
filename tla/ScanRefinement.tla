--------------------------- MODULE ScanRefinement ---------------------------
(***************************************************************************)
(* ScanWorker implements ReceiptScan: a queued and a claimed receipt both  *)
(* wait, and a receipt is reviewed from its first reviewed_at on.          *)
(***************************************************************************)
EXTENDS ScanWorker

(* What a receipt is doing, as its user sees it. *)
PhaseOf(state) ==
    CASE state \in {"uploaded", "scanning"} -> "waiting"
      [] state = "idle" -> "resting"
      [] state = "scan_failed" -> "failed"
      [] OTHER -> state

Phase == [r \in Receipts |-> PhaseOf(scanState[r])]

(* How many images the result in raw_ocr_json was read from. *)
Seen == [r \in Receipts |-> raw[r].imgs]

Vouched == [r \in Receipts |-> Reviewed(r)]

Promise == INSTANCE ReceiptScan WITH
    Blank <- BlankFields, phase <- Phase, seen <- Seen, doc <- fields, reviewed <- Vouched

(* A scan that applies a result got it from the provider. *)
ResultsAreReal == \A c \in Claims : scan[c].pc \in Applying => scan[c].result \in Results

(* The pipeline implements its contract: through stale claims, reclaims,   *)
(* retries, edits, crashes and lost calls, a receipt that waits is settled *)
(* as if by one scan, in one step, of all the images it has at that step,  *)
(* which leaves what the user vouches for; it is given up, or it goes on   *)
(* waiting; nothing else happens to it but what its user asks for.         *)
ScansLookAtomic == Promise!Spec

=============================================================================
