-------------------------- MODULE MCDeviceScheduler --------------------------
(* DeviceScheduler on small instances: three heavy and two light callers.     *)
EXTENDS DeviceScheduler, TLC

CONSTANTS h1, h2, h3, l1, l2, gpu0, gpu1

MCCallers == {h1, h2, h3, l1, l2}
MCHeavy == {h1, h2, h3}
MCTwoDevices == <<gpu0, gpu1>>

(* Callers of one kind are interchangeable. *)
MCSymmetry == Permutations({h1, h2, h3}) \cup Permutations({l1, l2})
=============================================================================
