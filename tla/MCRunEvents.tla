---------------------------- MODULE MCRunEvents ----------------------------
(* RunEvents with two runs and a subscriber's queue of two events.            *)
EXTENDS RunEvents

CONSTANTS first, second

MCRuns == {first, second}
=============================================================================
