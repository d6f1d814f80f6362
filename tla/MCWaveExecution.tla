-------------------------- MODULE MCWaveExecution --------------------------
(* WaveExecution on small plans.                                              *)
EXTENDS WaveExecution

CONSTANTS gpu0, gpu1, MaxNode

MCNodes == 1..MaxNode
(* Node 2 is light: a loader, a save or a composite. *)
MCHeavy == MCNodes \ {2}
(* Node 1 has a list on its input. *)
MCBatched == {1}
MCOneDevice == <<gpu0>>
MCTwoDevices == <<gpu0, gpu1>>

(* Every acyclic graph: edges go from a lower to a higher place in the plan. *)
MCAllGraphs == SUBSET {<<a, b>> \in MCNodes \X MCNodes : a < b}
=============================================================================
