-------------------------- MODULE DeviceScheduler --------------------------
(* graph/scheduler.py, class DeviceScheduler: the admission of node steps to  *)
(* execution slots.  A heavy step passes a counting semaphore, then takes the *)
(* device at the head of a deque; it gives the device back at the tail, then  *)
(* releases the semaphore.  A light step only passes a semaphore.             *)
EXTENDS Integers, Sequences, FiniteSets

CONSTANTS
    Callers,        \* node steps that ask for a slot
    Heavy,          \* those that node_kind() calls heavy
    HeavyDevices,   \* the sequence of device names the scheduler is built with
    LightSlots,     \* the light_slots argument
    NoDevice        \* a caller that holds no device

Devices == {HeavyDevices[i] : i \in 1..Len(HeavyDevices)}

ASSUME CallersAssumption == IsFiniteSet(Callers) /\ Heavy \subseteq Callers
ASSUME DevicesAssumption ==
    /\ HeavyDevices \in Seq(Devices)
    /\ HeavyDevices # <<>>          \* __init__ raises ValueError otherwise
    /\ NoDevice \notin Devices \cup Callers
ASSUME LightAssumption == LightSlots \in Int

(* max(1, light_slots) *)
LightCapacity == IF LightSlots < 1 THEN 1 ELSE LightSlots

VARIABLES
    freeDevices,    \* the deque _free_devices
    heavySem,       \* the count of the semaphore _heavy
    lightSem,       \* the count of the semaphore _light
    slotPc,         \* where each caller is in slot()
    device          \* the device a caller popped, or NoDevice

schedVars == <<freeDevices, heavySem, lightSem, slotPc, device>>

(* outside:  not in slot(); admitted: past _heavy.acquire(), before popleft;  *)
(* onDevice: in the body of the with, holding a device; returned: the device  *)
(* is back, the semaphore not yet released; onCpu: in the body, light.        *)
SlotPcs == {"outside", "admitted", "onDevice", "returned", "onCpu"}

InitScheduler ==
    /\ freeDevices = HeavyDevices
    /\ heavySem = Len(HeavyDevices)
    /\ lightSem = LightCapacity
    /\ slotPc = [t \in Callers |-> "outside"]
    /\ device = [t \in Callers |-> NoDevice]

(* self._heavy.acquire(): blocks while the count is zero *)
AcquireHeavy(t) ==
    /\ t \in Heavy
    /\ slotPc[t] = "outside"
    /\ heavySem > 0
    /\ heavySem' = heavySem - 1
    /\ slotPc' = [slotPc EXCEPT ![t] = "admitted"]
    /\ UNCHANGED <<freeDevices, lightSem, device>>

(* Seeded bug: the device is read at the head but left in the deque.          *)
TakeDevice_Peek(t) ==
    /\ slotPc[t] = "admitted"
    /\ device' = [device EXCEPT ![t] = Head(freeDevices)]
    /\ slotPc' = [slotPc EXCEPT ![t] = "onDevice"]
    /\ UNCHANGED <<freeDevices, heavySem, lightSem>>

(* device = self._free_devices.popleft(), under _devices_lock *)
TakeDevice(t) ==
    /\ slotPc[t] = "admitted"
    /\ device' = [device EXCEPT ![t] = Head(freeDevices)]
    /\ freeDevices' = Tail(freeDevices)
    /\ slotPc' = [slotPc EXCEPT ![t] = "onDevice"]
    /\ UNCHANGED <<heavySem, lightSem>>

(* finally: self._free_devices.append(device), however the body ended *)
ReturnDevice(t) ==
    /\ slotPc[t] = "onDevice"
    /\ freeDevices' = Append(freeDevices, device[t])
    /\ device' = [device EXCEPT ![t] = NoDevice]
    /\ slotPc' = [slotPc EXCEPT ![t] = "returned"]
    /\ UNCHANGED <<heavySem, lightSem>>

(* Seeded bug: the release is skipped when the body raised.                   *)
ReleaseHeavy_LostOnError(t) ==
    /\ slotPc[t] = "returned"
    /\ heavySem' \in {heavySem, heavySem + 1}
    /\ slotPc' = [slotPc EXCEPT ![t] = "outside"]
    /\ UNCHANGED <<freeDevices, lightSem, device>>

(* self._heavy.release() *)
ReleaseHeavy(t) ==
    /\ slotPc[t] = "returned"
    /\ heavySem' = heavySem + 1
    /\ slotPc' = [slotPc EXCEPT ![t] = "outside"]
    /\ UNCHANGED <<freeDevices, lightSem, device>>

(* Seeded bug: light steps are not counted.                                   *)
AcquireLight_Unbounded(t) ==
    /\ t \notin Heavy
    /\ slotPc[t] = "outside"
    /\ slotPc' = [slotPc EXCEPT ![t] = "onCpu"]
    /\ UNCHANGED <<freeDevices, heavySem, lightSem, device>>

AcquireLight(t) ==
    /\ t \notin Heavy
    /\ slotPc[t] = "outside"
    /\ lightSem > 0
    /\ lightSem' = lightSem - 1
    /\ slotPc' = [slotPc EXCEPT ![t] = "onCpu"]
    /\ UNCHANGED <<freeDevices, heavySem, device>>

ReleaseLight(t) ==
    /\ slotPc[t] = "onCpu"
    /\ lightSem' = lightSem + 1
    /\ slotPc' = [slotPc EXCEPT ![t] = "outside"]
    /\ UNCHANGED <<freeDevices, heavySem, device>>

SlotStep(t) ==
    \/ AcquireHeavy(t) \/ TakeDevice(t) \/ ReturnDevice(t) \/ ReleaseHeavy(t)
    \/ AcquireLight(t) \/ ReleaseLight(t)

NextScheduler == \E t \in Callers : SlotStep(t)

SchedulerSpec == InitScheduler /\ [][NextScheduler]_schedVars

(* The heavy_capacity property: it counts the devices that are free *now*. *)
HeavyCapacity == Len(freeDevices)

-----------------------------------------------------------------------------
(* Properties *)

SlotsTypeOK ==
    /\ freeDevices \in Seq(Devices)
    /\ heavySem \in 0..Len(HeavyDevices)
    /\ lightSem \in 0..LightCapacity
    /\ slotPc \in [Callers -> SlotPcs]
    /\ device \in [Callers -> Devices \cup {NoDevice}]
    /\ \A t \in Callers : slotPc[t] = "onDevice" <=> device[t] # NoDevice

(* A caller past the semaphore always finds a device: popleft() never raises  *)
(* IndexError, which would leak the semaphore since it runs before the try.   *)
AdmittedFindsDevice ==
    \A t \in Callers : slotPc[t] = "admitted" => freeDevices # <<>>

(* "one heavy job per device": no two callers work on one device at a time.   *)
OneHeavyJobPerDevice ==
    \A s, t \in Callers :
        slotPc[s] = "onDevice" /\ slotPc[t] = "onDevice" /\ device[s] = device[t] => s = t

(* The list names each device once. *)
DistinctDevices ==
    \A i, j \in 1..Len(HeavyDevices) : HeavyDevices[i] = HeavyDevices[j] => i = j

(* The same, under the precondition that makes it true of the code.           *)
ExclusiveIfDistinct == DistinctDevices => OneHeavyJobPerDevice

(* However bodies interleave, every device is in one place: in the deque,     *)
(* once, or held by one caller.  None is lost when a body raises, none is     *)
(* doubled.                                                                   *)
DevicesConserved ==
    DistinctDevices =>
        /\ \A i, j \in 1..Len(freeDevices) : freeDevices[i] = freeDevices[j] => i = j
        /\ \A d \in Devices :
              (\E i \in 1..Len(freeDevices) : freeDevices[i] = d)
                <=> (\A t \in Callers : device[t] # d)
        /\ OneHeavyJobPerDevice

(* The semaphores count the callers they let in, and the deque is short of    *)
(* exactly the devices that are held: when all callers have left, on whatever *)
(* path, every slot is back.                                                  *)
PastHeavy == {t \in Callers : slotPc[t] \in {"admitted", "onDevice", "returned"}}
OnDevice == {t \in Callers : slotPc[t] = "onDevice"}
OnCpu == {t \in Callers : slotPc[t] = "onCpu"}

SlotsAccounted ==
    /\ heavySem = Len(HeavyDevices) - Cardinality(PastHeavy)
    /\ Len(freeDevices) = Len(HeavyDevices) - Cardinality(OnDevice)
    /\ lightSem = LightCapacity - Cardinality(OnCpu)

(* Refinement of SlotAdmission: a device belongs to the caller that holds it. *)
Holder(d) ==
    IF \E t \in Callers : slotPc[t] = "onDevice" /\ device[t] = d
    THEN CHOOSE t \in Callers : slotPc[t] = "onDevice" /\ device[t] = d
    ELSE NoDevice

Admission == INSTANCE SlotAdmission WITH
    Nobody <- NoDevice,
    holder <- [d \in Devices |-> Holder(d)],
    lightHolders <- OnCpu

(* The semaphores and the deque together implement atomic grants.             *)
ImplementsAdmission == Admission!Spec

(* The inductive invariant behind the theorems of DeviceSchedulerProofs.      *)
SlotsInv == SlotsTypeOK /\ SlotsAccounted /\ DevicesConserved
=============================================================================
