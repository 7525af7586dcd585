---------------------------- MODULE MCSettlement ----------------------------
(* Instances of Settlement for TLC: two rows, so that a run has a row after a  *)
(* failed one, and one or two processes.                                     *)
EXTENDS Settlement

CONSTANTS r1, r2, g1, g2

OneRun    == {r1}
TwoRuns   == {r1, r2}
OneGroup  == {g1}
TwoGroups == {g1, g2}
=============================================================================
