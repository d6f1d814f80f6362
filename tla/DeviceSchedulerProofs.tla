----------------------- MODULE DeviceSchedulerProofs -----------------------
(* Theorems about DeviceScheduler for every set of callers, every list of     *)
(* devices and every number of light slots.                                   *)
EXTENDS DeviceScheduler, FiniteSetTheorems, TLAPS

(* The callers in a part of slot() are finitely many, and one entering or     *)
(* leaving it changes their number by one.                                    *)
LEMMA Enter ==
    ASSUME NEW S, NEW T, NEW t, IsFiniteSet(S), t \notin S, T = S \cup {t}
    PROVE  IsFiniteSet(T) /\ Cardinality(T) = Cardinality(S) + 1
BY FS_AddElement

LEMMA Leave ==
    ASSUME NEW S, NEW T, NEW t, IsFiniteSet(S), t \in S, T = S \ {t}
    PROVE  /\ IsFiniteSet(T) /\ Cardinality(T) = Cardinality(S) - 1
           /\ Cardinality(S) > 0
<1>1. IsFiniteSet(T) /\ Cardinality(T) = Cardinality(S) - 1
  BY FS_RemoveElement
<1>2. Cardinality(S) \in Nat /\ Cardinality(T) \in Nat
  BY <1>1, FS_CardinalityType
<1> QED BY <1>1, <1>2

LEMMA SetsFinite ==
    /\ IsFiniteSet(PastHeavy) /\ Cardinality(PastHeavy) \in Nat
    /\ IsFiniteSet(OnDevice) /\ Cardinality(OnDevice) \in Nat
    /\ IsFiniteSet(OnCpu) /\ Cardinality(OnCpu) \in Nat
    /\ Cardinality(OnDevice) <= Cardinality(PastHeavy)
<1>1. PastHeavy \subseteq Callers /\ OnDevice \subseteq PastHeavy /\ OnCpu \subseteq Callers
  BY DEF PastHeavy, OnDevice, OnCpu
<1> QED BY <1>1, CallersAssumption, FS_Subset, FS_CardinalityType

(* An admitted caller finds the deque non-empty: the devices held are fewer   *)
(* than the admissions, and the admissions are no more than the devices.      *)
LEMMA AdmittedHasDevice ==
    ASSUME SlotsTypeOK, SlotsAccounted, NEW t \in Callers, slotPc[t] = "admitted"
    PROVE  Len(freeDevices) > 0
<1>1. t \in PastHeavy /\ t \notin OnDevice /\ OnDevice \subseteq PastHeavy \ {t}
  BY DEF PastHeavy, OnDevice
<1>2. IsFiniteSet(PastHeavy \ {t}) /\ Cardinality(PastHeavy \ {t}) = Cardinality(PastHeavy) - 1
  BY <1>1, SetsFinite, FS_RemoveElement
<1>3. Cardinality(OnDevice) <= Cardinality(PastHeavy \ {t})
  BY <1>1, <1>2, FS_Subset
<1>4. heavySem >= 0 /\ heavySem \in Int /\ Len(HeavyDevices) \in Nat
  BY DevicesAssumption DEF SlotsTypeOK
<1> QED BY <1>2, <1>3, <1>4, SetsFinite DEF SlotsAccounted

LEMMA InitEstablishes == InitScheduler => SlotsInv
<1> SUFFICES ASSUME InitScheduler PROVE SlotsInv
  OBVIOUS
<1>1. SlotsTypeOK
  BY DevicesAssumption, LightAssumption DEF InitScheduler, SlotsTypeOK, SlotPcs, LightCapacity
<1>2. SlotsAccounted
  <2>1. PastHeavy = {} /\ OnDevice = {} /\ OnCpu = {}
    BY DEF InitScheduler, PastHeavy, OnDevice, OnCpu
  <2>2. Len(HeavyDevices) \in Nat /\ LightCapacity \in Nat
    BY DevicesAssumption, LightAssumption DEF LightCapacity
  <2> QED BY <2>1, <2>2, FS_EmptySet DEF InitScheduler, SlotsAccounted
<1>3. DevicesConserved
  BY DevicesAssumption
  DEF InitScheduler, DevicesConserved, DistinctDevices, OneHeavyJobPerDevice, Devices
<1> QED BY <1>1, <1>2, <1>3 DEF SlotsInv

(* The counts: each action moves one caller across at most two of the three   *)
(* sets, and changes the counter that belongs to the set it crosses.          *)
LEMMA AccountsPreserved ==
    ASSUME SlotsTypeOK, SlotsAccounted, NEW t \in Callers, SlotStep(t)
    PROVE  SlotsAccounted'
<1> USE SetsFinite
<1>0. Len(HeavyDevices) \in Nat /\ LightCapacity \in Nat
  BY DevicesAssumption, LightAssumption DEF LightCapacity
<1>1. CASE AcquireHeavy(t)
  <2>1. t \notin PastHeavy /\ PastHeavy' = PastHeavy \cup {t}
        /\ OnDevice' = OnDevice /\ OnCpu' = OnCpu
    BY <1>1 DEF AcquireHeavy, SlotsTypeOK, PastHeavy, OnDevice, OnCpu
  <2>2. Cardinality(PastHeavy') = Cardinality(PastHeavy) + 1
    BY <2>1, Enter
  <2> QED BY <1>0, <1>1, <2>1, <2>2 DEF AcquireHeavy, SlotsAccounted, SlotsTypeOK
<1>2. CASE TakeDevice(t)
  <2>1. t \notin OnDevice /\ OnDevice' = OnDevice \cup {t}
        /\ PastHeavy' = PastHeavy /\ OnCpu' = OnCpu
    BY <1>2 DEF TakeDevice, SlotsTypeOK, PastHeavy, OnDevice, OnCpu
  <2>2. Cardinality(OnDevice') = Cardinality(OnDevice) + 1
    BY <2>1, Enter
  <2>3. Len(freeDevices) > 0
    BY <1>2, AdmittedHasDevice DEF TakeDevice
  <2>4. Len(freeDevices') = Len(freeDevices) - 1
    BY <1>2, <2>3 DEF TakeDevice, SlotsTypeOK
  <2> QED BY <1>0, <1>2, <2>1, <2>2, <2>4 DEF TakeDevice, SlotsAccounted
<1>3. CASE ReturnDevice(t)
  <2>1. t \in OnDevice /\ OnDevice' = OnDevice \ {t}
        /\ PastHeavy' = PastHeavy /\ OnCpu' = OnCpu
    BY <1>3 DEF ReturnDevice, SlotsTypeOK, PastHeavy, OnDevice, OnCpu
  <2>2. Cardinality(OnDevice') = Cardinality(OnDevice) - 1
    BY <2>1, Leave
  <2>3. device[t] \in Devices
    BY <1>3 DEF ReturnDevice, SlotsTypeOK
  <2>4. Len(freeDevices') = Len(freeDevices) + 1
    BY <1>3, <2>3 DEF ReturnDevice, SlotsTypeOK
  <2> QED BY <1>0, <1>3, <2>1, <2>2, <2>4 DEF ReturnDevice, SlotsAccounted
<1>4. CASE ReleaseHeavy(t)
  <2>1. t \in PastHeavy /\ PastHeavy' = PastHeavy \ {t}
        /\ OnDevice' = OnDevice /\ OnCpu' = OnCpu
    BY <1>4 DEF ReleaseHeavy, SlotsTypeOK, PastHeavy, OnDevice, OnCpu
  <2>2. Cardinality(PastHeavy') = Cardinality(PastHeavy) - 1
    BY <2>1, Leave
  <2> QED BY <1>0, <1>4, <2>1, <2>2 DEF ReleaseHeavy, SlotsAccounted, SlotsTypeOK
<1>5. CASE AcquireLight(t)
  <2>1. t \notin OnCpu /\ OnCpu' = OnCpu \cup {t}
        /\ OnDevice' = OnDevice /\ PastHeavy' = PastHeavy
    BY <1>5 DEF AcquireLight, SlotsTypeOK, PastHeavy, OnDevice, OnCpu
  <2>2. Cardinality(OnCpu') = Cardinality(OnCpu) + 1
    BY <2>1, Enter
  <2> QED BY <1>0, <1>5, <2>1, <2>2 DEF AcquireLight, SlotsAccounted, SlotsTypeOK
<1>6. CASE ReleaseLight(t)
  <2>1. t \in OnCpu /\ OnCpu' = OnCpu \ {t}
        /\ OnDevice' = OnDevice /\ PastHeavy' = PastHeavy
    BY <1>6 DEF ReleaseLight, SlotsTypeOK, PastHeavy, OnDevice, OnCpu
  <2>2. Cardinality(OnCpu') = Cardinality(OnCpu) - 1
    BY <2>1, Leave
  <2> QED BY <1>0, <1>6, <2>1, <2>2 DEF ReleaseLight, SlotsAccounted, SlotsTypeOK
<1> QED BY <1>1, <1>2, <1>3, <1>4, <1>5, <1>6 DEF SlotStep

(* Types: the semaphores stay in range because their counts do.               *)
LEMMA TypesPreserved ==
    ASSUME SlotsTypeOK, SlotsAccounted, NEW t \in Callers, SlotStep(t)
    PROVE  SlotsTypeOK'
<1>0. Len(HeavyDevices) \in Nat /\ LightCapacity \in Nat
  BY DevicesAssumption, LightAssumption DEF LightCapacity
<1>1. CASE AcquireHeavy(t)
  BY <1>0, <1>1 DEF AcquireHeavy, SlotsTypeOK, SlotPcs
<1>2. CASE TakeDevice(t)
  <2>1. Len(freeDevices) > 0
    BY <1>2, AdmittedHasDevice DEF TakeDevice
  <2>2. Head(freeDevices) \in Devices /\ Tail(freeDevices) \in Seq(Devices)
    BY <2>1 DEF SlotsTypeOK
  <2> QED BY <1>2, <2>2, DevicesAssumption DEF TakeDevice, SlotsTypeOK, SlotPcs
<1>3. CASE ReturnDevice(t)
  <2>1. device[t] \in Devices
    BY <1>3 DEF ReturnDevice, SlotsTypeOK
  <2>2. Append(freeDevices, device[t]) \in Seq(Devices)
    BY <2>1 DEF SlotsTypeOK
  <2> QED BY <1>3, <2>2 DEF ReturnDevice, SlotsTypeOK, SlotPcs
<1>4. CASE ReleaseHeavy(t)
  <2>1. t \in PastHeavy
    BY <1>4 DEF ReleaseHeavy, PastHeavy
  <2>2. Cardinality(PastHeavy) > 0
    BY <2>1, Leave, SetsFinite
  <2>3. heavySem + 1 \in 0..Len(HeavyDevices)
    BY <1>0, <2>2, SetsFinite DEF SlotsAccounted, SlotsTypeOK
  <2> QED BY <1>4, <2>3 DEF ReleaseHeavy, SlotsTypeOK, SlotPcs
<1>5. CASE AcquireLight(t)
  BY <1>0, <1>5 DEF AcquireLight, SlotsTypeOK, SlotPcs
<1>6. CASE ReleaseLight(t)
  <2>1. t \in OnCpu
    BY <1>6 DEF ReleaseLight, OnCpu
  <2>2. Cardinality(OnCpu) > 0
    BY <2>1, Leave, SetsFinite
  <2>3. lightSem + 1 \in 0..LightCapacity
    BY <1>0, <2>2, SetsFinite DEF SlotsAccounted, SlotsTypeOK
  <2> QED BY <1>6, <2>3 DEF ReleaseLight, SlotsTypeOK, SlotPcs
<1> QED BY <1>1, <1>2, <1>3, <1>4, <1>5, <1>6 DEF SlotStep

(* The deque and the holders stay a partition of the devices: popleft takes   *)
(* one from the head, append puts a held one, which is in no other place.     *)
LEMMA PlacesPreserved ==
    ASSUME SlotsInv, NEW t \in Callers, SlotStep(t)
    PROVE  DevicesConserved'
<1> SUFFICES ASSUME DistinctDevices
             PROVE  /\ (\A i, j \in 1..Len(freeDevices) :
                            freeDevices[i] = freeDevices[j] => i = j)'
                    /\ (\A d \in Devices :
                            (\E i \in 1..Len(freeDevices) : freeDevices[i] = d)
                                <=> (\A s \in Callers : device[s] # d))'
                    /\ OneHeavyJobPerDevice'
  BY DEF DevicesConserved, DistinctDevices
<1> DEFINE n == Len(freeDevices)
<1>a. /\ SlotsTypeOK
      /\ \A i, j \in 1..n : freeDevices[i] = freeDevices[j] => i = j
      /\ \A d \in Devices :
            (\E i \in 1..n : freeDevices[i] = d) <=> (\A s \in Callers : device[s] # d)
      /\ OneHeavyJobPerDevice
  BY DEF SlotsInv, DevicesConserved
<1>b. n \in Nat /\ freeDevices \in Seq(Devices)
  BY <1>a DEF SlotsTypeOK
<1>1. CASE TakeDevice(t)
  <2> DEFINE h == freeDevices[1]
  <2>1. n > 0
    BY <1>1, AdmittedHasDevice DEF TakeDevice, SlotsInv
  <2>2. /\ Len(freeDevices') = n - 1
        /\ \A i \in 1..(n - 1) : freeDevices'[i] = freeDevices[i + 1]
        /\ h \in Devices /\ device' = [device EXCEPT ![t] = h]
    BY <1>1, <1>b, <2>1 DEF TakeDevice
  <2>3. \A s \in Callers : device[s] # h
    BY <1>a, <1>b, <2>1, <2>2
  <2>4. \A i, j \in 1..(n - 1) : freeDevices'[i] = freeDevices'[j] => i = j
    BY <1>a, <1>b, <2>2
  <2>5. ASSUME NEW d \in Devices
        PROVE  (\E i \in 1..(n - 1) : freeDevices'[i] = d)
                 <=> (\A s \in Callers : device'[s] # d)
    <3>1. CASE d = h
      <4>1. device'[t] = d
        BY <2>2, <3>1, <1>a DEF SlotsTypeOK
      <4>2. \A i \in 1..(n - 1) : freeDevices'[i] # d
        <5> SUFFICES ASSUME NEW i \in 1..(n - 1), freeDevices[i + 1] = freeDevices[1]
                     PROVE  FALSE
          BY <2>2, <3>1
        <5> QED BY <1>a, <1>b, <2>1
      <4> QED BY <4>1, <4>2
    <3>2. CASE d # h
      <4>1. (\A s \in Callers : device'[s] # d) <=> (\A s \in Callers : device[s] # d)
        <5>1. device[t] = NoDevice /\ NoDevice # d
          BY <1>1, <1>a, DevicesAssumption DEF TakeDevice, SlotsTypeOK
        <5> QED BY <2>2, <3>2, <5>1, <1>a DEF SlotsTypeOK
      <4>2. (\E i \in 1..(n - 1) : freeDevices'[i] = d) <=> (\E i \in 1..n : freeDevices[i] = d)
        <5>1. ASSUME NEW i \in 1..n, freeDevices[i] = d
              PROVE  \E k \in 1..(n - 1) : freeDevices'[k] = d
          <6>1. i # 1 /\ i - 1 \in 1..(n - 1) /\ (i - 1) + 1 = i
            BY <3>2, <5>1, <1>b
          <6>2. freeDevices'[i - 1] = d
            BY <2>2, <5>1, <6>1
          <6> QED BY <6>1, <6>2
        <5>2. ASSUME NEW i \in 1..(n - 1), freeDevices'[i] = d
              PROVE  \E k \in 1..n : freeDevices[k] = d
          BY <2>2, <5>2, <1>b
        <5> QED BY <5>1, <5>2
      <4> QED BY <4>1, <4>2, <1>a
    <3> QED BY <3>1, <3>2
  <2>6. OneHeavyJobPerDevice'
    <3> SUFFICES ASSUME NEW r \in Callers, NEW s \in Callers,
                        slotPc'[r] = "onDevice", slotPc'[s] = "onDevice",
                        device'[r] = device'[s]
                 PROVE  r = s
      BY DEF OneHeavyJobPerDevice
    <3> QED BY <1>1, <1>a, <2>2, <2>3 DEF TakeDevice, SlotsTypeOK, OneHeavyJobPerDevice
  <2> QED BY <2>2, <2>4, <2>5, <2>6 DEF Devices
<1>2. CASE ReturnDevice(t)
  <2> DEFINE d0 == device[t]
  <2>1. /\ d0 \in Devices
        /\ Len(freeDevices') = n + 1
        /\ \A i \in 1..n : freeDevices'[i] = freeDevices[i]
        /\ freeDevices'[n + 1] = d0
        /\ device' = [device EXCEPT ![t] = NoDevice]
    <3>1. d0 \in Devices
      BY <1>2, <1>a DEF ReturnDevice, SlotsTypeOK
    <3> QED BY <1>2, <1>b, <3>1 DEF ReturnDevice
  <2>2. \A i \in 1..n : freeDevices[i] # d0
    BY <1>a, <2>1
  <2>3. \A i, j \in 1..(n + 1) : freeDevices'[i] = freeDevices'[j] => i = j
    BY <1>a, <1>b, <2>1, <2>2
  <2>4. \A s \in Callers : device[s] = d0 => s = t
    <3>1. slotPc[t] = "onDevice"
      BY <1>2 DEF ReturnDevice
    <3>2. \A s \in Callers : device[s] = d0 => slotPc[s] = "onDevice"
      BY <1>a, <2>1, DevicesAssumption DEF SlotsTypeOK
    <3> QED BY <1>a, <3>1, <3>2 DEF OneHeavyJobPerDevice
  <2>5. ASSUME NEW d \in Devices
        PROVE  (\E i \in 1..(n + 1) : freeDevices'[i] = d)
                 <=> (\A s \in Callers : device'[s] # d)
    <3>0. NoDevice # d
      BY DevicesAssumption
    <3>1. CASE d = d0
      <4>1. \A s \in Callers : device'[s] # d
        BY <2>1, <2>4, <3>0, <3>1, <1>a DEF SlotsTypeOK
      <4>2. n + 1 \in 1..(n + 1) /\ freeDevices'[n + 1] = d
        BY <1>b, <2>1, <3>1
      <4> QED BY <4>1, <4>2
    <3>2. CASE d # d0
      <4>1. (\A s \in Callers : device'[s] # d) <=> (\A s \in Callers : device[s] # d)
        BY <2>1, <3>0, <3>2, <1>a DEF SlotsTypeOK
      <4>2. (\E i \in 1..(n + 1) : freeDevices'[i] = d) <=> (\E i \in 1..n : freeDevices[i] = d)
        <5>1. \A i \in 1..(n + 1) : i \in 1..n \/ i = n + 1
          BY <1>b
        <5>2. \A i \in 1..n : i \in 1..(n + 1)
          BY <1>b
        <5> QED BY <2>1, <3>2, <5>1, <5>2
      <4> QED BY <4>1, <4>2, <1>a
    <3> QED BY <3>1, <3>2
  <2>6. OneHeavyJobPerDevice'
    BY <1>2, <1>a DEF ReturnDevice, SlotsTypeOK, OneHeavyJobPerDevice
  <2> QED BY <2>1, <2>3, <2>5, <2>6 DEF Devices
<1>3. CASE AcquireHeavy(t) \/ ReleaseHeavy(t) \/ AcquireLight(t) \/ ReleaseLight(t)
  <2>1. UNCHANGED <<freeDevices, device>>
    BY <1>3 DEF AcquireHeavy, ReleaseHeavy, AcquireLight, ReleaseLight
  <2>2. \A s \in Callers : slotPc'[s] = "onDevice" => slotPc[s] = "onDevice"
    BY <1>3, <1>a DEF AcquireHeavy, ReleaseHeavy, AcquireLight, ReleaseLight, SlotsTypeOK
  <2>3. OneHeavyJobPerDevice'
    BY <1>a, <2>1, <2>2 DEF OneHeavyJobPerDevice
  <2> QED BY <1>a, <2>1, <2>3 DEF Devices
<1> QED BY <1>1, <1>2, <1>3 DEF SlotStep

LEMMA StepPreserves == SlotsInv /\ [NextScheduler]_schedVars => SlotsInv'
<1>1. ASSUME SlotsInv, NEW t \in Callers, SlotStep(t) PROVE SlotsInv'
  BY <1>1, TypesPreserved, AccountsPreserved, PlacesPreserved DEF SlotsInv
<1>2. ASSUME SlotsInv, UNCHANGED schedVars PROVE SlotsInv'
  <2>1. SlotsTypeOK'
    BY <1>2 DEF schedVars, SlotsInv, SlotsTypeOK
  <2>2. SlotsAccounted'
    BY <1>2 DEF schedVars, SlotsInv, SlotsAccounted, PastHeavy, OnDevice, OnCpu
  <2>3. DevicesConserved'
    BY <1>2 DEF schedVars, SlotsInv, DevicesConserved, OneHeavyJobPerDevice
  <2> QED BY <2>1, <2>2, <2>3 DEF SlotsInv
<1> QED BY <1>1, <1>2 DEF NextScheduler

THEOREM Invariance == SchedulerSpec => []SlotsInv
<1> QED BY InitEstablishes, StepPreserves, PTL DEF SchedulerSpec

(* The variables keep their types, the semaphores their range, and a caller   *)
(* has a device exactly while it is in the body of slot().                    *)
THEOREM TypeCorrect == SchedulerSpec => []SlotsTypeOK
<1>1. SlotsInv => SlotsTypeOK
  BY DEF SlotsInv
<1> QED BY <1>1, Invariance, PTL

(* popleft() in slot() never meets an empty deque.                            *)
THEOREM NeverPopsEmpty == SchedulerSpec => []AdmittedFindsDevice
<1>1. SlotsInv => AdmittedFindsDevice
  <2> SUFFICES ASSUME SlotsInv, NEW t \in Callers, slotPc[t] = "admitted"
               PROVE  freeDevices # <<>>
    BY DEF AdmittedFindsDevice
  <2>1. Len(freeDevices) > 0
    BY AdmittedHasDevice DEF SlotsInv
  <2> QED BY <2>1
<1> QED BY <1>1, Invariance, PTL

(* Of any list of distinct devices, no device ever has two heavy jobs, and    *)
(* each is in the deque or held.                                              *)
THEOREM MutualExclusion == SchedulerSpec => []ExclusiveIfDistinct
<1>1. SlotsInv => ExclusiveIfDistinct
  BY DEF SlotsInv, DevicesConserved, ExclusiveIfDistinct
<1> QED BY <1>1, Invariance, PTL

THEOREM Conservation == SchedulerSpec => []DevicesConserved
<1>1. SlotsInv => DevicesConserved
  BY DEF SlotsInv
<1> QED BY <1>1, Invariance, PTL

(* The semaphores count the callers inside: none is leaked.                   *)
THEOREM NoLeak == SchedulerSpec => []SlotsAccounted
<1>1. SlotsInv => SlotsAccounted
  BY DEF SlotsInv
<1> QED BY <1>1, Invariance, PTL

-----------------------------------------------------------------------------
(* Refinement: who holds a device is well defined, and only popleft and       *)
(* append change it.                                                          *)
LEMMA HolderIs ==
    ASSUME SlotsInv, DistinctDevices, NEW d \in Devices, NEW t \in Callers
    PROVE  /\ slotPc[t] = "onDevice" /\ device[t] = d => Holder(d) = t
           /\ Holder(d) = t => slotPc[t] = "onDevice" /\ device[t] = d
<1>1. \A r, s \in Callers :
        slotPc[r] = "onDevice" /\ device[r] = d /\ slotPc[s] = "onDevice" /\ device[s] = d
            => r = s
  BY DEF SlotsInv, DevicesConserved, OneHeavyJobPerDevice
<1>2. t # NoDevice
  BY DevicesAssumption
<1> QED BY <1>1, <1>2 DEF Holder

LEMMA HolderNone ==
    ASSUME NEW d \in Devices, \A t \in Callers : ~(slotPc[t] = "onDevice" /\ device[t] = d)
    PROVE  Holder(d) = NoDevice
BY DEF Holder

LEMMA SameHolder ==
    ASSUME NEW d \in Devices,
           \A t \in Callers : (slotPc[t] = "onDevice" /\ device[t] = d)
                                  <=> (slotPc'[t] = "onDevice" /\ device'[t] = d)
    PROVE  Holder(d)' = Holder(d)
BY DEF Holder

LEMMA InitRefines == InitScheduler => Admission!Init
<1> SUFFICES ASSUME InitScheduler PROVE Admission!Init
  OBVIOUS
<1>1. \A d \in Devices : Holder(d) = NoDevice
  BY DEF InitScheduler, Holder
<1>2. OnCpu = {}
  BY DEF InitScheduler, OnCpu
<1> QED BY <1>1, <1>2 DEF Admission!Init

LEMMA StepRefines ==
    DistinctDevices /\ SlotsInv /\ [NextScheduler]_schedVars => [Admission!Next]_(Admission!vars)
<1> SUFFICES ASSUME DistinctDevices, SlotsInv, [NextScheduler]_schedVars
             PROVE  [Admission!Next]_(Admission!vars)
  OBVIOUS
<1>a. SlotsTypeOK /\ SlotsAccounted /\ SlotsInv'
  BY StepPreserves DEF SlotsInv
<1>b. DistinctDevices'
  BY DEF DistinctDevices
<1>1. ASSUME NEW t \in Callers, TakeDevice(t)
      PROVE  Admission!Next
  <2>0. Head(freeDevices) \in Devices
    BY <1>1, <1>a, AdmittedHasDevice DEF TakeDevice, SlotsTypeOK
  <2> PICK h \in Devices : h = Head(freeDevices)
    BY <2>0
  <2>1. device' = [device EXCEPT ![t] = h] /\ slotPc' = [slotPc EXCEPT ![t] = "onDevice"]
    BY <1>1 DEF TakeDevice
  <2>2. slotPc[t] = "admitted" /\ device[t] = NoDevice
    BY <1>1, <1>a DEF TakeDevice, SlotsTypeOK
  <2>3. \A s \in Callers : device[s] # h
    BY <2>1, <1>1, <1>a, AdmittedHasDevice DEF TakeDevice, SlotsTypeOK, SlotsInv, DevicesConserved
  <2>4. Holder(h) = NoDevice
    BY <2>1, <2>3, HolderNone
  <2>5. Holder(h)' = t
    <3>1. slotPc'[t] = "onDevice" /\ device'[t] = h
      BY <2>1, <1>a DEF SlotsTypeOK
    <3>2. \A r, s \in Callers :
            slotPc'[r] = "onDevice" /\ device'[r] = h /\ slotPc'[s] = "onDevice" /\ device'[s] = h
                => r = s
      BY <1>a, <1>b DEF SlotsInv, DevicesConserved, OneHeavyJobPerDevice
    <3> QED BY <3>1, <3>2 DEF Holder
  <2>6. \A d \in Devices \ {h} : Holder(d)' = Holder(d)
    <3> SUFFICES ASSUME NEW d \in Devices, d # h
                 PROVE  Holder(d)' = Holder(d)
      OBVIOUS
    <3>1. NoDevice # d
      BY DevicesAssumption
    <3>2. \A s \in Callers : (slotPc[s] = "onDevice" /\ device[s] = d)
                               <=> (slotPc'[s] = "onDevice" /\ device'[s] = d)
      BY <2>1, <2>2, <3>1, <1>a DEF SlotsTypeOK
    <3> QED BY <3>2, SameHolder
  <2>7. OnCpu' = OnCpu /\ t \notin OnCpu
    BY <2>1, <2>2, <1>a DEF OnCpu, SlotsTypeOK
  <2>8. \A d \in Devices : Holder(d) # t
    BY <2>2, HolderIs, <1>a
  <2>9. [d \in Devices |-> Holder(d)]' = [[d \in Devices |-> Holder(d)] EXCEPT ![h] = t]
    BY <2>1, <2>5, <2>6 DEF Devices
  <2>10. Admission!GrantHeavy(t, h)
    BY <2>1, <2>4, <2>7, <2>8, <2>9 DEF Admission!GrantHeavy, Admission!Idle
  <2> QED BY <2>1, <2>10 DEF Admission!Next
<1>2. ASSUME NEW t \in Callers, ReturnDevice(t)
      PROVE  Admission!Next
  <2>0. device[t] \in Devices /\ slotPc[t] = "onDevice"
    BY <1>2, <1>a DEF ReturnDevice, SlotsTypeOK
  <2> PICK h \in Devices : h = device[t]
    BY <2>0
  <2>1. slotPc[t] = "onDevice" /\ device[t] = h
    BY <2>0
  <2>2. device' = [device EXCEPT ![t] = NoDevice] /\ slotPc' = [slotPc EXCEPT ![t] = "returned"]
    BY <1>2 DEF ReturnDevice
  <2>3. Holder(h) = t
    BY <2>1, HolderIs
  <2>4. Holder(h)' = NoDevice
    <3>1. \A s \in Callers : ~(slotPc'[s] = "onDevice" /\ device'[s] = h)
      <4> SUFFICES ASSUME NEW s \in Callers, slotPc'[s] = "onDevice", device'[s] = h
                   PROVE  FALSE
        OBVIOUS
      <4>1. s # t /\ slotPc[s] = "onDevice" /\ device[s] = h
        BY <2>2, <1>a DEF SlotsTypeOK
      <4> QED BY <4>1, <2>1 DEF SlotsInv, DevicesConserved, OneHeavyJobPerDevice
    <3> QED BY <3>1 DEF Holder
  <2>5. \A d \in Devices \ {h} : Holder(d)' = Holder(d)
    <3> SUFFICES ASSUME NEW d \in Devices, d # h
                 PROVE  Holder(d)' = Holder(d)
      OBVIOUS
    <3>1. \A s \in Callers : (slotPc[s] = "onDevice" /\ device[s] = d)
                               <=> (slotPc'[s] = "onDevice" /\ device'[s] = d)
      BY <2>2, <1>a DEF SlotsTypeOK
    <3> QED BY <3>1, SameHolder
  <2>6. OnCpu' = OnCpu
    BY <2>1, <2>2, <1>a DEF OnCpu, SlotsTypeOK
  <2>7. [d \in Devices |-> Holder(d)]' = [[d \in Devices |-> Holder(d)] EXCEPT ![h] = NoDevice]
    BY <2>1, <2>4, <2>5 DEF Devices
  <2>8. Admission!ReturnHeavy(t, h)
    BY <2>1, <2>3, <2>6, <2>7 DEF Admission!ReturnHeavy
  <2> QED BY <2>1, <2>8 DEF Admission!Next
<1>3. ASSUME NEW t \in Callers, AcquireHeavy(t) \/ ReleaseHeavy(t)
      PROVE  UNCHANGED Admission!vars
  <2>1. \A s \in Callers : (slotPc'[s] = "onDevice" <=> slotPc[s] = "onDevice")
                            /\ device'[s] = device[s] /\ (slotPc'[s] = "onCpu" <=> slotPc[s] = "onCpu")
    BY <1>3, <1>a DEF AcquireHeavy, ReleaseHeavy, SlotsTypeOK
  <2>2. \A d \in Devices : Holder(d)' = Holder(d)
    BY <2>1, SameHolder
  <2>3. OnCpu' = OnCpu
    BY <2>1 DEF OnCpu
  <2> QED BY <2>2, <2>3 DEF Admission!vars, Devices
<1>4. ASSUME NEW t \in Callers, AcquireLight(t) \/ ReleaseLight(t)
      PROVE  Admission!Next
  <2>1. \A s \in Callers : (slotPc'[s] = "onDevice" <=> slotPc[s] = "onDevice")
                            /\ device'[s] = device[s]
    BY <1>4, <1>a DEF AcquireLight, ReleaseLight, SlotsTypeOK
  <2>2. \A d \in Devices : Holder(d)' = Holder(d)
    BY <2>1, SameHolder
  <2>3. [d \in Devices |-> Holder(d)]' = [d \in Devices |-> Holder(d)]
    BY <2>2 DEF Devices
  <2>4. CASE AcquireLight(t)
    <3>1. OnCpu' = OnCpu \cup {t} /\ t \notin OnCpu /\ slotPc[t] = "outside"
      BY <2>4, <1>a DEF AcquireLight, OnCpu, SlotsTypeOK
    <3>2. \A d \in Devices : Holder(d) # t
      BY <3>1, HolderIs
    <3>3. Cardinality(OnCpu) < LightCapacity
      BY <2>4, <1>a, SetsFinite, LightAssumption
      DEF AcquireLight, SlotsAccounted, SlotsTypeOK, LightCapacity
    <3>4. Admission!Cardinality(OnCpu) = Cardinality(OnCpu)
      BY DEF Admission!Cardinality, Cardinality, IsFiniteSet, Admission!IsFiniteSet
    <3>5. Admission!GrantLight(t)
      BY <2>3, <3>1, <3>2, <3>3, <3>4 DEF Admission!GrantLight, Admission!Idle
    <3> QED BY <3>5 DEF Admission!Next
  <2>5. CASE ReleaseLight(t)
    <3>1. OnCpu' = OnCpu \ {t} /\ t \in OnCpu
      BY <2>5, <1>a DEF ReleaseLight, OnCpu, SlotsTypeOK
    <3>2. Admission!ReturnLight(t)
      BY <2>3, <3>1 DEF Admission!ReturnLight
    <3> QED BY <3>2 DEF Admission!Next
  <2> QED BY <1>4, <2>4, <2>5
<1>5. ASSUME UNCHANGED schedVars
      PROVE  UNCHANGED Admission!vars
  <2>1. \A d \in Devices : Holder(d)' = Holder(d)
    BY <1>5, SameHolder DEF schedVars
  <2> QED BY <1>5, <2>1 DEF schedVars, Admission!vars, OnCpu, Devices
<1> QED BY <1>1, <1>2, <1>3, <1>4, <1>5 DEF NextScheduler, SlotStep

(* For every list of distinct devices, the semaphores, the deque and its lock *)
(* implement the atomic grants of SlotAdmission.                              *)
THEOREM Refinement == DistinctDevices => (SchedulerSpec => ImplementsAdmission)
<1> SUFFICES ASSUME DistinctDevices PROVE SchedulerSpec => ImplementsAdmission
  OBVIOUS
<1> QED
  BY InitRefines, StepRefines, Invariance, PTL DEF SchedulerSpec, ImplementsAdmission, Admission!Spec
=============================================================================
