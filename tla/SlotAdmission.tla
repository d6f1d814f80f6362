--------------------------- MODULE SlotAdmission ---------------------------
(* What DeviceScheduler promises its callers (graph/scheduler.py, "Hands out *)
(* execution slots: one heavy job per device, many light jobs"), with the     *)
(* semaphores, the deque and its lock left out: a grant and a return are      *)
(* single steps.  DeviceScheduler is shown to implement it.                   *)
EXTENDS Naturals, FiniteSets

CONSTANTS
    Callers,        \* node steps that ask for a slot
    Devices,        \* devices a heavy job may be placed on
    LightCapacity,  \* light slots
    Nobody          \* "no caller", not a caller

VARIABLES
    holder,         \* device -> the caller working on it, or Nobody
    lightHolders    \* callers working in a light slot

vars == <<holder, lightHolders>>

Idle(t) == t \notin lightHolders /\ \A d \in Devices : holder[d] # t

Init ==
    /\ holder = [d \in Devices |-> Nobody]
    /\ lightHolders = {}

(* A heavy slot is granted on a device nobody holds. *)
GrantHeavy(t, d) ==
    /\ Idle(t)
    /\ holder[d] = Nobody
    /\ holder' = [holder EXCEPT ![d] = t]
    /\ UNCHANGED lightHolders

ReturnHeavy(t, d) ==
    /\ holder[d] = t
    /\ holder' = [holder EXCEPT ![d] = Nobody]
    /\ UNCHANGED lightHolders

GrantLight(t) ==
    /\ Idle(t)
    /\ Cardinality(lightHolders) < LightCapacity
    /\ lightHolders' = lightHolders \cup {t}
    /\ UNCHANGED holder

ReturnLight(t) ==
    /\ t \in lightHolders
    /\ lightHolders' = lightHolders \ {t}
    /\ UNCHANGED holder

Next ==
    \E t \in Callers :
        \/ \E d \in Devices : GrantHeavy(t, d) \/ ReturnHeavy(t, d)
        \/ GrantLight(t)
        \/ ReturnLight(t)

Spec == Init /\ [][Next]_vars
=============================================================================
