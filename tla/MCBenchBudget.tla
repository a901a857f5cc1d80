---------------------------- MODULE MCBenchBudget ----------------------------
(* Two directories and up to three runs, of which two are required: an even   *)
(* and an odd median.  The points give deltas of -50, 0, 2 (the budget) and    *)
(* 104 per cent, and one estimate the parser refuses.                         *)
EXTENDS BenchBudget

MCPoints == [direct |-> {100, 200}, kernox |-> {0, 100, 204}]
=============================================================================
