---------------------------- MODULE MCInferClient ----------------------------
(* InferClient with two jobs; a "generate" is stopped with its worker, an     *)
(* "enhance" is asked to stop.                                                *)
EXTENDS InferClient

CONSTANTS j1, j2

MCTwoJobs == {j1, j2}
MCTypes == {"generate", "enhance"}
MCHardTypes == {"generate"}
=============================================================================
