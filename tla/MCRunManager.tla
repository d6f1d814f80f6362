---------------------------- MODULE MCRunManager ----------------------------
(* RunManager with two runs.                                                  *)
EXTENDS RunManager

CONSTANTS r1, r2

MCTwoRuns == {r1, r2}
=============================================================================
