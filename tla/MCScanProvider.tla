--------------------------- MODULE MCScanProvider ---------------------------
(***************************************************************************)
(* ScanProvider at the program's default timings: 120 s per attempt, two   *)
(* retries, 600 s to reclaim.  The documents have a total and up to two    *)
(* lines of either sign, rounded up or down, informational or not.         *)
(***************************************************************************)
EXTENDS ScanProvider

Headers == {NoHeader, -1, 60}

Line(n, info) == [amount |-> n, informational |-> info]
Documents ==
    [kind : {"purchase", "refund"}, total : {-1005, 2010}, subtotal : {NoSubtotal, 1005},
     items : {<<>>, <<Line(-4, FALSE)>>, <<Line(-1004, FALSE)>>, <<Line(1005, FALSE)>>, <<Line(1005, TRUE)>>,
              <<Line(1005, FALSE), Line(1005, FALSE)>>, <<Line(1005, FALSE), Line(-1004, FALSE)>>}]

=============================================================================
