------------------------ MODULE WaveExecutionProofs ------------------------
(* Theorems about WaveExecution for every plan and every number of devices    *)
(* and slots.                                                                 *)
EXTENDS WaveExecution, DeviceSchedulerProofs, WellFoundedInduction

WaveTypes ==
    /\ settled \subseteq Nodes /\ wave \subseteq Nodes
    /\ mainPc \in {"planning", "inWave", "ended"}
    /\ stepPc \in [Nodes -> StepPcs]
    /\ result \in [Nodes -> Results]
    /\ seen \in [Nodes -> SUBSET Nodes]
    /\ values \subseteq Nodes
    /\ failure \in {"none", "failed", "cancelled"}
    /\ outcome \in {"none", "COMPLETED", "FAILED", "CANCELLED"}

(* A step that was planned has all it depends on, and has seen it once it is  *)
(* past gathering.                                                            *)
Gathered == {"lookup", "atSlot", "leaving", "storing", "finished"} \cup InBody
InputsThere ==
    \A n \in Nodes : /\ stepPc[n] # "waiting" => Deps(n) \subseteq values
                     /\ stepPc[n] \in Gathered => Deps(n) \subseteq seen[n]

(* What the result of a step is, by the place it is at. *)
Good(n) == n \in values /\ result[n] \in {"ok", "cached"}
ResultsFit ==
    \A n \in Nodes : /\ stepPc[n] = "leaving" => result[n] \in {"ok", "failed", "cancelled"}
                     /\ stepPc[n] = "storing" => result[n] \in {"ok", "cached"}
                     /\ stepPc[n] = "raised" => result[n] \in {"failed", "cancelled"}
                     /\ stepPc[n] = "finished" => Good(n)

(* Settled nodes are over and good, nodes of later waves untouched; a wave    *)
(* that is over without a failure is good, too.                               *)
PlanKept ==
    /\ mainPc = "planning" => failure = "none" /\ wave = {}
    /\ mainPc = "inWave" => \A n \in wave : n \notin settled /\ stepPc[n] # "waiting"
    /\ mainPc # "ended" => \A n \in settled : stepPc[n] = "collected" /\ Good(n)
    /\ mainPc # "ended" => \A n \in Nodes \ (settled \cup wave) : stepPc[n] = "waiting"
    /\ mainPc # "ended" /\ failure = "none" =>
           \A n \in wave : stepPc[n] = "collected" => Good(n)
    /\ mainPc = "ended" => \A n \in Nodes : stepPc[n] \in {"waiting", "ready", "collected"}

(* In line there is one step at a time, and none after a failure.             *)
OneInLine ==
    mainPc = "inWave" /\ ~Pooled =>
        /\ \A m, n \in wave : stepPc[m] \notin {"ready", "collected"}
                              /\ stepPc[n] \notin {"ready", "collected"} => m = n
        /\ failure # "none" => \A n \in wave : stepPc[n] \in {"ready", "collected"}
SerialInLine == ~concurrent => workers = 1

(* Who is to blame for the end. *)
BlameFits ==
    /\ failure = "failed" => \E n \in Nodes : stepPc[n] = "collected" /\ result[n] = "failed"
    /\ failure = "cancelled" => userCancel
    /\ (\E n \in Nodes : result[n] = "cancelled") => cancel
    /\ cancel => userCancel \/ failure # "none"
OutcomeFits ==
    /\ outcome # "none" => mainPc = "ended"
    /\ outcome = "COMPLETED" => \A n \in Nodes : stepPc[n] = "collected" /\ Good(n)
    /\ outcome = "FAILED" => failure = "failed"
    /\ outcome = "CANCELLED" => failure = "cancelled"

(* Only a step between its slot's with and its end is in slot(). *)
SlotsUsed ==
    \A n \in Nodes : slotPc[n] # "outside" => stepPc[n] \in {"atSlot", "leaving"} \cup InBody

WaveInv ==
    /\ WaveTypes /\ InputsThere /\ ResultsFit /\ PlanKept /\ OneInLine /\ SerialInLine
    /\ BlameFits /\ OutcomeFits /\ SlotsUsed

-----------------------------------------------------------------------------
(* Every step of a run is a step of its DeviceScheduler, or none.             *)
LEMMA StepIsSlotStep == [Next]_vars => [NextScheduler]_schedVars
<1> SUFFICES ASSUME [Next]_vars PROVE NextScheduler \/ UNCHANGED schedVars
  OBVIOUS
<1>1. ASSUME NEW n \in Nodes, EnterSlot(n) PROVE NextScheduler
  BY <1>1 DEF EnterSlot, NextScheduler, SlotStep, Nodes
<1>2. ASSUME NEW n \in Nodes, LeaveSlot(n) PROVE NextScheduler
  BY <1>2 DEF LeaveSlot, NextScheduler, SlotStep, Nodes
<1>3. ASSUME NEW n \in Nodes, PassPause(n) \/ Gather(n) \/ CacheHit(n) \/ CacheMiss(n)
      \/ BeginBody(n) \/ BeginItem(n) \/ EndItem(n) \/ Falters(n) \/ Retry(n)
      \/ Progress(n) \/ EndBody(n) \/ Store(n) \/ StartStep(n) \/ Collect(n)
      PROVE  UNCHANGED schedVars
  BY <1>3 DEF PassPause, Gather, CacheHit, CacheMiss, BeginBody, BeginItem, EndItem, Falters,
              Retry, Progress, EndBody, Store, StartStep, Collect
<1>4. ASSUME PlanWave \/ EndWave \/ Complete \/ Pause \/ Resume \/ Cancel \/ UNCHANGED vars
      PROVE  UNCHANGED schedVars
  BY <1>4 DEF PlanWave, EndWave, Complete, Pause, Resume, Cancel, vars
<1> QED BY <1>1, <1>2, <1>3, <1>4 DEF Next, MainStep, NodeStep, Step

THEOREM SchedulerIsUsed == Spec => SchedulerSpec
<1>1. Init => InitScheduler
  BY DEF Init
<1> QED BY <1>1, StepIsSlotStep, PTL DEF Spec, SchedulerSpec

LEMMA WaveInit == Init => WaveInv
<1> SUFFICES ASSUME Init PROVE WaveInv
  OBVIOUS
<1>1. WaveTypes
  BY DEF Init, WaveTypes, StepPcs, Results
<1>2. InputsThere /\ ResultsFit /\ PlanKept /\ OneInLine /\ SerialInLine /\ OutcomeFits
  BY DEF Init, InputsThere, ResultsFit, PlanKept, OneInLine, SerialInLine, OutcomeFits, Gathered,
            InBody
<1>3. BlameFits
  BY DEF Init, BlameFits
<1>4. SlotsUsed
  BY DEF Init, InitScheduler, SlotsUsed, Nodes
<1> QED BY <1>1, <1>2, <1>3, <1>4 DEF WaveInv

(* Each action writes values of the right type. *)
LEMMA WaveTypesKept == WaveInv /\ [Next]_vars => WaveTypes'
<1> SUFFICES ASSUME WaveInv, [Next]_vars PROVE WaveTypes'
  BY DEF WaveInv
<1> USE DEF WaveInv, WaveTypes, ResultsFit, StepPcs, Results, NextWave, Goto, Ends, InBody,
            Shows, Fail, schedVars, stepVars, mainVars, flagVars, restVars, bodyVars, shownVars
<1>1. ASSUME NEW n \in Nodes, CacheHit(n) \/ CacheMiss(n) \/ EnterSlot(n) PROVE WaveTypes'
  BY <1>1 DEF CacheHit, CacheMiss, EnterSlot
<1>2. ASSUME NEW n \in Nodes, BeginBody(n) \/ EndBody(n) \/ LeaveSlot(n) PROVE WaveTypes'
  BY <1>2 DEF BeginBody, EndBody, LeaveSlot
<1>3. ASSUME Pause \/ Resume \/ Cancel PROVE WaveTypes'
  BY <1>3 DEF Pause, Resume, Cancel
<1>4. ASSUME NEW n \in Nodes, BeginItem(n) \/ EndItem(n) PROVE WaveTypes'
  BY <1>4 DEF BeginItem, EndItem
<1>5. ASSUME NEW n \in Nodes, Falters(n) \/ Retry(n) \/ Progress(n) PROVE WaveTypes'
  BY <1>5 DEF Falters, Retry, Progress
<1>6. ASSUME NEW n \in Nodes, PassPause(n) PROVE WaveTypes'
  BY <1>6 DEF PassPause
<1>7. ASSUME NEW n \in Nodes, Gather(n) PROVE WaveTypes'
  BY <1>7 DEF Gather
<1>8. ASSUME NEW n \in Nodes, Store(n) PROVE WaveTypes'
  BY <1>8 DEF Store
<1>9. ASSUME NEW n \in Nodes, StartStep(n) PROVE WaveTypes'
  BY <1>9 DEF StartStep, Ready
<1>10. ASSUME NEW n \in Nodes, Collect(n) PROVE WaveTypes'
  BY <1>10 DEF Collect
<1>11. ASSUME PlanWave PROVE WaveTypes'
  BY <1>11 DEF PlanWave
<1>12. ASSUME EndWave PROVE WaveTypes'
  BY <1>12 DEF EndWave
<1>13. ASSUME Complete PROVE WaveTypes'
  BY <1>13 DEF Complete
<1>14. ASSUME UNCHANGED vars PROVE WaveTypes'
  BY <1>14 DEF vars
<1> QED BY <1>1, <1>2, <1>3, <1>4, <1>5, <1>6, <1>7, <1>8, <1>9, <1>10, <1>11, <1>12,
      <1>13, <1>14
        DEF Next, MainStep, NodeStep, Step

(* Outputs are never taken back, and a wave is planned from settled nodes.    *)
LEMMA InputsKept == WaveInv /\ [Next]_vars => InputsThere'
<1> SUFFICES ASSUME WaveInv, [Next]_vars PROVE InputsThere'
  BY DEF WaveInv
<1> USE DEF WaveInv, WaveTypes, InputsThere, Gathered, PlanKept, Good, Deps, NextWave, Goto, Ends,
            InBody, Shows, Fail,
            schedVars, stepVars, mainVars, flagVars, restVars, bodyVars, shownVars
<1>1. ASSUME Pause \/ Resume \/ Cancel PROVE InputsThere'
  BY <1>1 DEF Pause, Resume, Cancel
<1>2. ASSUME EndWave \/ Complete PROVE InputsThere'
  BY <1>2 DEF EndWave, Complete
<1>3. ASSUME NEW n \in Nodes, PassPause(n) PROVE InputsThere'
  BY <1>3 DEF PassPause
<1>4. ASSUME NEW n \in Nodes, Gather(n) PROVE InputsThere'
  BY <1>4 DEF Gather
<1>5. ASSUME NEW n \in Nodes, CacheHit(n) PROVE InputsThere'
  BY <1>5 DEF CacheHit
<1>6. ASSUME NEW n \in Nodes, CacheMiss(n) PROVE InputsThere'
  BY <1>6 DEF CacheMiss
<1>7. ASSUME NEW n \in Nodes, EnterSlot(n) PROVE InputsThere'
  BY <1>7 DEF EnterSlot
<1>8. ASSUME NEW n \in Nodes, BeginBody(n) PROVE InputsThere'
  BY <1>8 DEF BeginBody
<1>9. ASSUME NEW n \in Nodes, BeginItem(n) PROVE InputsThere'
  BY <1>9 DEF BeginItem
<1>10. ASSUME NEW n \in Nodes, EndItem(n) PROVE InputsThere'
  BY <1>10 DEF EndItem
<1>11. ASSUME NEW n \in Nodes, Falters(n) PROVE InputsThere'
  BY <1>11 DEF Falters
<1>12. ASSUME NEW n \in Nodes, Retry(n) PROVE InputsThere'
  BY <1>12 DEF Retry
<1>13. ASSUME NEW n \in Nodes, Progress(n) PROVE InputsThere'
  BY <1>13 DEF Progress
<1>14. ASSUME NEW n \in Nodes, EndBody(n) PROVE InputsThere'
  BY <1>14 DEF EndBody
<1>15. ASSUME NEW n \in Nodes, LeaveSlot(n) PROVE InputsThere'
  BY <1>15 DEF LeaveSlot
<1>16. ASSUME NEW n \in Nodes, Store(n) PROVE InputsThere'
  BY <1>16 DEF Store
<1>17. ASSUME NEW n \in Nodes, StartStep(n) PROVE InputsThere'
  BY <1>17 DEF StartStep, Ready
<1>18. ASSUME NEW n \in Nodes, Collect(n) PROVE InputsThere'
  BY <1>18 DEF Collect
<1>19. ASSUME PlanWave PROVE InputsThere'
  BY <1>19 DEF PlanWave
<1>20. ASSUME UNCHANGED vars PROVE InputsThere'
  BY <1>20 DEF vars
<1> QED BY <1>1, <1>2, <1>3, <1>4, <1>5, <1>6, <1>7, <1>8, <1>9, <1>10, <1>11, <1>12, <1>13,
      <1>14, <1>15, <1>16, <1>17, <1>18, <1>19, <1>20
        DEF Next, MainStep, NodeStep, Step

(* A result is written on the way out of the slot, or by a hit, and a failing *)
(* save replaces it.                                                          *)
LEMMA ResultsKept == WaveInv /\ [Next]_vars => ResultsFit'
<1> SUFFICES ASSUME WaveInv, [Next]_vars PROVE ResultsFit'
  BY DEF WaveInv
<1> USE DEF WaveInv, WaveTypes, ResultsFit, Good, Goto, Ends,
            InBody, Shows, Fail,
            schedVars, stepVars, mainVars, flagVars, restVars, bodyVars, shownVars
<1>1. ASSUME Pause \/ Resume \/ Cancel PROVE ResultsFit'
  BY <1>1 DEF Pause, Resume, Cancel
<1>2. ASSUME EndWave \/ Complete PROVE ResultsFit'
  BY <1>2 DEF EndWave, Complete
<1>3. ASSUME NEW n \in Nodes, PassPause(n) PROVE ResultsFit'
  BY <1>3 DEF PassPause
<1>4. ASSUME NEW n \in Nodes, Gather(n) PROVE ResultsFit'
  BY <1>4 DEF Gather
<1>5. ASSUME NEW n \in Nodes, CacheHit(n) PROVE ResultsFit'
  BY <1>5 DEF CacheHit
<1>6. ASSUME NEW n \in Nodes, CacheMiss(n) PROVE ResultsFit'
  BY <1>6 DEF CacheMiss
<1>7. ASSUME NEW n \in Nodes, EnterSlot(n) PROVE ResultsFit'
  BY <1>7 DEF EnterSlot
<1>8. ASSUME NEW n \in Nodes, BeginBody(n) PROVE ResultsFit'
  BY <1>8 DEF BeginBody
<1>9. ASSUME NEW n \in Nodes, BeginItem(n) PROVE ResultsFit'
  BY <1>9 DEF BeginItem
<1>10. ASSUME NEW n \in Nodes, EndItem(n) PROVE ResultsFit'
  BY <1>10 DEF EndItem
<1>11. ASSUME NEW n \in Nodes, Falters(n) PROVE ResultsFit'
  BY <1>11 DEF Falters
<1>12. ASSUME NEW n \in Nodes, Retry(n) PROVE ResultsFit'
  BY <1>12 DEF Retry
<1>13. ASSUME NEW n \in Nodes, Progress(n) PROVE ResultsFit'
  BY <1>13 DEF Progress
<1>14. ASSUME NEW n \in Nodes, EndBody(n) PROVE ResultsFit'
  BY <1>14 DEF EndBody
<1>15. ASSUME NEW n \in Nodes, LeaveSlot(n) PROVE ResultsFit'
  BY <1>15 DEF LeaveSlot
<1>16. ASSUME NEW n \in Nodes, Store(n) PROVE ResultsFit'
  BY <1>16 DEF Store
<1>17. ASSUME NEW n \in Nodes, StartStep(n) PROVE ResultsFit'
  BY <1>17 DEF StartStep, Ready
<1>18. ASSUME NEW n \in Nodes, Collect(n) PROVE ResultsFit'
  BY <1>18 DEF Collect
<1>19. ASSUME PlanWave PROVE ResultsFit'
  BY <1>19 DEF PlanWave
<1>20. ASSUME UNCHANGED vars PROVE ResultsFit'
  BY <1>20 DEF vars
<1> QED BY <1>1, <1>2, <1>3, <1>4, <1>5, <1>6, <1>7, <1>8, <1>9, <1>10, <1>11, <1>12, <1>13,
      <1>14, <1>15, <1>16, <1>17, <1>18, <1>19, <1>20
        DEF Next, MainStep, NodeStep, Step

(* A wave ends when it is collected; one that is good joins the settled       *)
(* nodes, one that is not ends the run.                                       *)
LEMMA PlanIsKept == WaveInv /\ [Next]_vars => PlanKept'
<1> SUFFICES ASSUME WaveInv, [Next]_vars PROVE PlanKept'
  BY DEF WaveInv
<1> USE DEF WaveInv, WaveTypes, PlanKept, ResultsFit, Good, NextWave, OneInLine, Goto, Ends,
            InBody, Shows, Fail,
            schedVars, stepVars, mainVars, flagVars, restVars, bodyVars, shownVars
<1>1. ASSUME Pause \/ Resume \/ Cancel PROVE PlanKept'
  BY <1>1 DEF Pause, Resume, Cancel
<1>2. ASSUME NEW n \in Nodes, PassPause(n) PROVE PlanKept'
  BY <1>2 DEF PassPause
<1>3. ASSUME NEW n \in Nodes, Gather(n) PROVE PlanKept'
  BY <1>3 DEF Gather
<1>4. ASSUME NEW n \in Nodes, CacheHit(n) PROVE PlanKept'
  BY <1>4 DEF CacheHit
<1>5. ASSUME NEW n \in Nodes, CacheMiss(n) PROVE PlanKept'
  BY <1>5 DEF CacheMiss
<1>6. ASSUME NEW n \in Nodes, EnterSlot(n) PROVE PlanKept'
  BY <1>6 DEF EnterSlot
<1>7. ASSUME NEW n \in Nodes, BeginBody(n) PROVE PlanKept'
  BY <1>7 DEF BeginBody
<1>8. ASSUME NEW n \in Nodes, BeginItem(n) PROVE PlanKept'
  BY <1>8 DEF BeginItem
<1>9. ASSUME NEW n \in Nodes, EndItem(n) PROVE PlanKept'
  BY <1>9 DEF EndItem
<1>10. ASSUME NEW n \in Nodes, Falters(n) PROVE PlanKept'
  BY <1>10 DEF Falters
<1>11. ASSUME NEW n \in Nodes, Retry(n) PROVE PlanKept'
  BY <1>11 DEF Retry
<1>12. ASSUME NEW n \in Nodes, Progress(n) PROVE PlanKept'
  BY <1>12 DEF Progress
<1>13. ASSUME NEW n \in Nodes, EndBody(n) PROVE PlanKept'
  BY <1>13 DEF EndBody
<1>14. ASSUME NEW n \in Nodes, LeaveSlot(n) PROVE PlanKept'
  BY <1>14 DEF LeaveSlot
<1>15. ASSUME NEW n \in Nodes, Store(n) PROVE PlanKept'
  BY <1>15 DEF Store
<1>16. ASSUME NEW n \in Nodes, StartStep(n) PROVE PlanKept'
  BY <1>16 DEF StartStep, Ready
<1>17. ASSUME NEW n \in Nodes, Collect(n) PROVE PlanKept'
  BY <1>17 DEF Collect
<1>18. ASSUME PlanWave PROVE PlanKept'
  BY <1>18 DEF PlanWave
<1>19. ASSUME EndWave PROVE PlanKept'
  BY <1>19 DEF EndWave
<1>20. ASSUME Complete PROVE PlanKept'
  BY <1>20 DEF Complete
<1>21. ASSUME UNCHANGED vars PROVE PlanKept'
  BY <1>21 DEF vars
<1> QED BY <1>1, <1>2, <1>3, <1>4, <1>5, <1>6, <1>7, <1>8, <1>9, <1>10, <1>11, <1>12, <1>13,
      <1>14, <1>15, <1>16, <1>17, <1>18, <1>19, <1>20, <1>21
        DEF Next, MainStep, NodeStep, Step

(* Without a pool a step starts when the one before was collected.            *)
LEMMA InLineKept == WaveInv /\ [Next]_vars => OneInLine'
<1> SUFFICES ASSUME WaveInv, [Next]_vars PROVE OneInLine'
  BY DEF WaveInv
<1> USE DEF WaveInv, WaveTypes, OneInLine, PlanKept, ResultsFit, Pooled, Goto, Ends,
            InBody, Shows, Fail,
            schedVars, stepVars, mainVars, flagVars, restVars, bodyVars, shownVars
<1>1. ASSUME Pause \/ Resume \/ Cancel PROVE OneInLine'
  BY <1>1 DEF Pause, Resume, Cancel
<1>2. ASSUME EndWave \/ Complete PROVE OneInLine'
  BY <1>2 DEF EndWave, Complete
<1>3. ASSUME NEW n \in Nodes, PassPause(n) PROVE OneInLine'
  BY <1>3 DEF PassPause
<1>4. ASSUME NEW n \in Nodes, Gather(n) PROVE OneInLine'
  BY <1>4 DEF Gather
<1>5. ASSUME NEW n \in Nodes, CacheHit(n) PROVE OneInLine'
  BY <1>5 DEF CacheHit
<1>6. ASSUME NEW n \in Nodes, CacheMiss(n) PROVE OneInLine'
  BY <1>6 DEF CacheMiss
<1>7. ASSUME NEW n \in Nodes, EnterSlot(n) PROVE OneInLine'
  BY <1>7 DEF EnterSlot
<1>8. ASSUME NEW n \in Nodes, BeginBody(n) PROVE OneInLine'
  BY <1>8 DEF BeginBody
<1>9. ASSUME NEW n \in Nodes, BeginItem(n) PROVE OneInLine'
  BY <1>9 DEF BeginItem
<1>10. ASSUME NEW n \in Nodes, EndItem(n) PROVE OneInLine'
  BY <1>10 DEF EndItem
<1>11. ASSUME NEW n \in Nodes, Falters(n) PROVE OneInLine'
  BY <1>11 DEF Falters
<1>12. ASSUME NEW n \in Nodes, Retry(n) PROVE OneInLine'
  BY <1>12 DEF Retry
<1>13. ASSUME NEW n \in Nodes, Progress(n) PROVE OneInLine'
  BY <1>13 DEF Progress
<1>14. ASSUME NEW n \in Nodes, EndBody(n) PROVE OneInLine'
  BY <1>14 DEF EndBody
<1>15. ASSUME NEW n \in Nodes, LeaveSlot(n) PROVE OneInLine'
  BY <1>15 DEF LeaveSlot
<1>16. ASSUME NEW n \in Nodes, Store(n) PROVE OneInLine'
  BY <1>16 DEF Store
<1>17. ASSUME NEW n \in Nodes, StartStep(n) PROVE OneInLine'
  BY <1>17 DEF StartStep, Ready
<1>18. ASSUME NEW n \in Nodes, Collect(n) PROVE OneInLine'
  BY <1>18 DEF Collect
<1>19. ASSUME PlanWave PROVE OneInLine'
  <2>1. failure' = "none" /\ \A n \in wave' : n \in Nodes => stepPc'[n] = "ready"
    BY <1>19 DEF PlanWave
  <2>2. wave' \subseteq Nodes
    BY <1>19 DEF PlanWave, NextWave
  <2> QED BY <2>1, <2>2
<1>20. ASSUME UNCHANGED vars PROVE OneInLine'
  BY <1>20 DEF vars
<1> QED BY <1>1, <1>2, <1>3, <1>4, <1>5, <1>6, <1>7, <1>8, <1>9, <1>10, <1>11, <1>12, <1>13,
      <1>14, <1>15, <1>16, <1>17, <1>18, <1>19, <1>20
        DEF Next, MainStep, NodeStep, Step

LEMMA SerialKept == WaveInv /\ [Next]_vars => SerialInLine'
<1> SUFFICES ASSUME SerialInLine, [Next]_vars, ~concurrent' PROVE workers' = 1
  BY DEF WaveInv, SerialInLine
<1> USE DEF mainVars, restVars, bodyVars, shownVars
<1>1. CASE PlanWave
  BY <1>1 DEF PlanWave
<1>2. ASSUME NEW n \in Nodes, StartStep(n) \/ Step(n) \/ Progress(n) \/ Collect(n)
      PROVE  workers' = 1
  <2>1. UNCHANGED <<concurrent, workers>>
    BY <1>2 DEF StartStep, Step, Collect, PassPause, Gather, CacheHit, CacheMiss, EnterSlot,
         BeginBody, BeginItem, EndItem, Falters, Retry, Progress, EndBody, LeaveSlot, Store
  <2> QED BY <2>1 DEF SerialInLine
<1>3. CASE EndWave \/ Complete \/ Pause \/ Resume \/ Cancel \/ UNCHANGED vars
  <2>1. UNCHANGED <<concurrent, workers>>
    BY <1>3 DEF EndWave, Complete, Pause, Resume, Cancel, vars
  <2> QED BY <2>1 DEF SerialInLine
<1> QED BY <1>1, <1>2, <1>3 DEF Next, MainStep, NodeStep

(* The flag is raised by Stop or by a failure that was kept first.            *)
LEMMA BlameKept == WaveInv /\ [Next]_vars => BlameFits'
<1> SUFFICES ASSUME WaveInv, [Next]_vars PROVE BlameFits'
  BY DEF WaveInv
<1> USE DEF WaveInv, WaveTypes, BlameFits, PlanKept, ResultsFit, StepPcs, Results, Goto, Ends,
            InBody, Shows, Fail,
            schedVars, stepVars, mainVars, flagVars, restVars, bodyVars, shownVars
<1>1. ASSUME NEW n \in Nodes, PassPause(n) PROVE BlameFits'
  BY <1>1 DEF PassPause
<1>2. ASSUME NEW n \in Nodes, Gather(n) PROVE BlameFits'
  BY <1>2 DEF Gather
<1>3. ASSUME NEW n \in Nodes, CacheHit(n) PROVE BlameFits'
  BY <1>3 DEF CacheHit
<1>4. ASSUME NEW n \in Nodes, CacheMiss(n) PROVE BlameFits'
  BY <1>4 DEF CacheMiss
<1>5. ASSUME NEW n \in Nodes, EnterSlot(n) PROVE BlameFits'
  BY <1>5 DEF EnterSlot
<1>6. ASSUME NEW n \in Nodes, BeginBody(n) PROVE BlameFits'
  BY <1>6 DEF BeginBody
<1>7. ASSUME NEW n \in Nodes, BeginItem(n) PROVE BlameFits'
  BY <1>7 DEF BeginItem
<1>8. ASSUME NEW n \in Nodes, EndItem(n) PROVE BlameFits'
  BY <1>8 DEF EndItem
<1>9. ASSUME NEW n \in Nodes, Falters(n) PROVE BlameFits'
  BY <1>9 DEF Falters
<1>10. ASSUME NEW n \in Nodes, Retry(n) PROVE BlameFits'
  BY <1>10 DEF Retry
<1>11. ASSUME NEW n \in Nodes, Progress(n) PROVE BlameFits'
  BY <1>11 DEF Progress
<1>12. ASSUME NEW n \in Nodes, EndBody(n) PROVE BlameFits'
  BY <1>12 DEF EndBody
<1>13. ASSUME NEW n \in Nodes, LeaveSlot(n) PROVE BlameFits'
  BY <1>13 DEF LeaveSlot
<1>14. ASSUME NEW n \in Nodes, Store(n) PROVE BlameFits'
  BY <1>14 DEF Store
<1>15. ASSUME NEW n \in Nodes, StartStep(n) PROVE BlameFits'
  BY <1>15 DEF StartStep, Ready
<1>16. ASSUME NEW n \in Nodes, Collect(n) PROVE BlameFits'
  BY <1>16 DEF Collect
<1>17. ASSUME PlanWave PROVE BlameFits'
  BY <1>17 DEF PlanWave
<1>18. ASSUME EndWave PROVE BlameFits'
  BY <1>18 DEF EndWave
<1>19. ASSUME Complete PROVE BlameFits'
  BY <1>19 DEF Complete
<1>20. ASSUME Pause PROVE BlameFits'
  BY <1>20 DEF Pause
<1>21. ASSUME Resume PROVE BlameFits'
  BY <1>21 DEF Resume
<1>22. ASSUME Cancel PROVE BlameFits'
  BY <1>22 DEF Cancel
<1>23. ASSUME UNCHANGED vars PROVE BlameFits'
  BY <1>23 DEF vars
<1> QED BY <1>1, <1>2, <1>3, <1>4, <1>5, <1>6, <1>7, <1>8, <1>9, <1>10, <1>11, <1>12, <1>13,
      <1>14, <1>15, <1>16, <1>17, <1>18, <1>19, <1>20, <1>21, <1>22, <1>23
        DEF Next, MainStep, NodeStep, Step

(* The outcome is written once, when the executing thread ends.               *)
LEMMA OutcomeKept == WaveInv /\ [Next]_vars => OutcomeFits'
<1> SUFFICES ASSUME WaveInv, [Next]_vars PROVE OutcomeFits'
  BY DEF WaveInv
<1> USE DEF WaveInv, WaveTypes, OutcomeFits, PlanKept, Good, Goto, Ends,
            InBody, Shows, Fail,
            schedVars, stepVars, mainVars, flagVars, restVars, bodyVars, shownVars
<1>1. ASSUME Pause \/ Resume \/ Cancel PROVE OutcomeFits'
  BY <1>1 DEF Pause, Resume, Cancel
<1>2. ASSUME NEW n \in Nodes, PassPause(n) PROVE OutcomeFits'
  BY <1>2 DEF PassPause
<1>3. ASSUME NEW n \in Nodes, Gather(n) PROVE OutcomeFits'
  BY <1>3 DEF Gather
<1>4. ASSUME NEW n \in Nodes, CacheHit(n) PROVE OutcomeFits'
  BY <1>4 DEF CacheHit
<1>5. ASSUME NEW n \in Nodes, CacheMiss(n) PROVE OutcomeFits'
  BY <1>5 DEF CacheMiss
<1>6. ASSUME NEW n \in Nodes, EnterSlot(n) PROVE OutcomeFits'
  BY <1>6 DEF EnterSlot
<1>7. ASSUME NEW n \in Nodes, BeginBody(n) PROVE OutcomeFits'
  BY <1>7 DEF BeginBody
<1>8. ASSUME NEW n \in Nodes, BeginItem(n) PROVE OutcomeFits'
  BY <1>8 DEF BeginItem
<1>9. ASSUME NEW n \in Nodes, EndItem(n) PROVE OutcomeFits'
  BY <1>9 DEF EndItem
<1>10. ASSUME NEW n \in Nodes, Falters(n) PROVE OutcomeFits'
  BY <1>10 DEF Falters
<1>11. ASSUME NEW n \in Nodes, Retry(n) PROVE OutcomeFits'
  BY <1>11 DEF Retry
<1>12. ASSUME NEW n \in Nodes, Progress(n) PROVE OutcomeFits'
  BY <1>12 DEF Progress
<1>13. ASSUME NEW n \in Nodes, EndBody(n) PROVE OutcomeFits'
  BY <1>13 DEF EndBody
<1>14. ASSUME NEW n \in Nodes, LeaveSlot(n) PROVE OutcomeFits'
  BY <1>14 DEF LeaveSlot
<1>15. ASSUME NEW n \in Nodes, Store(n) PROVE OutcomeFits'
  BY <1>15 DEF Store
<1>16. ASSUME NEW n \in Nodes, StartStep(n) PROVE OutcomeFits'
  BY <1>16 DEF StartStep, Ready
<1>17. ASSUME NEW n \in Nodes, Collect(n) PROVE OutcomeFits'
  BY <1>17 DEF Collect
<1>18. ASSUME PlanWave PROVE OutcomeFits'
  BY <1>18 DEF PlanWave
<1>19. ASSUME EndWave PROVE OutcomeFits'
  BY <1>19 DEF EndWave
<1>20. ASSUME Complete PROVE OutcomeFits'
  BY <1>20 DEF Complete
<1>21. ASSUME UNCHANGED vars PROVE OutcomeFits'
  BY <1>21 DEF vars
<1> QED BY <1>1, <1>2, <1>3, <1>4, <1>5, <1>6, <1>7, <1>8, <1>9, <1>10, <1>11, <1>12, <1>13,
      <1>14, <1>15, <1>16, <1>17, <1>18, <1>19, <1>20, <1>21
        DEF Next, MainStep, NodeStep, Step

(* A step moves through slot() only where _run_step is inside the with.       *)
LEMMA SlotsUsedKept == WaveInv /\ SlotsTypeOK /\ [Next]_vars => SlotsUsed'
<1> SUFFICES ASSUME WaveInv, SlotsTypeOK, [Next]_vars PROVE SlotsUsed'
  BY DEF WaveInv
<1> USE DEF WaveInv, SlotsTypeOK, Nodes, WaveTypes, SlotsUsed, PlanKept,
            AcquireHeavy, TakeDevice, AcquireLight, ReturnDevice, ReleaseHeavy, ReleaseLight,
                  Goto, Ends, InBody, Shows, Fail,
            schedVars, stepVars, mainVars, flagVars, restVars, bodyVars, shownVars
<1>1. ASSUME Pause \/ Resume \/ Cancel PROVE SlotsUsed'
  BY <1>1 DEF Pause, Resume, Cancel
<1>2. ASSUME EndWave \/ Complete PROVE SlotsUsed'
  BY <1>2 DEF EndWave, Complete
<1>3. ASSUME NEW n \in Nodes, PassPause(n) PROVE SlotsUsed'
  BY <1>3 DEF PassPause
<1>4. ASSUME NEW n \in Nodes, Gather(n) PROVE SlotsUsed'
  BY <1>4 DEF Gather
<1>5. ASSUME NEW n \in Nodes, CacheHit(n) PROVE SlotsUsed'
  BY <1>5 DEF CacheHit
<1>6. ASSUME NEW n \in Nodes, CacheMiss(n) PROVE SlotsUsed'
  BY <1>6 DEF CacheMiss
<1>7. ASSUME NEW n \in Nodes, EnterSlot(n) PROVE SlotsUsed'
  BY <1>7 DEF EnterSlot
<1>8. ASSUME NEW n \in Nodes, BeginBody(n) PROVE SlotsUsed'
  BY <1>8 DEF BeginBody
<1>9. ASSUME NEW n \in Nodes, BeginItem(n) PROVE SlotsUsed'
  BY <1>9 DEF BeginItem
<1>10. ASSUME NEW n \in Nodes, EndItem(n) PROVE SlotsUsed'
  BY <1>10 DEF EndItem
<1>11. ASSUME NEW n \in Nodes, Falters(n) PROVE SlotsUsed'
  BY <1>11 DEF Falters
<1>12. ASSUME NEW n \in Nodes, Retry(n) PROVE SlotsUsed'
  BY <1>12 DEF Retry
<1>13. ASSUME NEW n \in Nodes, Progress(n) PROVE SlotsUsed'
  BY <1>13 DEF Progress
<1>14. ASSUME NEW n \in Nodes, EndBody(n) PROVE SlotsUsed'
  BY <1>14 DEF EndBody
<1>15. ASSUME NEW n \in Nodes, LeaveSlot(n) PROVE SlotsUsed'
  BY <1>15 DEF LeaveSlot
<1>16. ASSUME NEW n \in Nodes, Store(n) PROVE SlotsUsed'
  BY <1>16 DEF Store
<1>17. ASSUME NEW n \in Nodes, StartStep(n) PROVE SlotsUsed'
  BY <1>17 DEF StartStep, Ready
<1>18. ASSUME NEW n \in Nodes, Collect(n) PROVE SlotsUsed'
  BY <1>18 DEF Collect
<1>19. ASSUME PlanWave PROVE SlotsUsed'
  BY <1>19 DEF PlanWave
<1>20. ASSUME UNCHANGED vars PROVE SlotsUsed'
  BY <1>20 DEF vars
<1> QED BY <1>1, <1>2, <1>3, <1>4, <1>5, <1>6, <1>7, <1>8, <1>9, <1>10, <1>11, <1>12, <1>13,
      <1>14, <1>15, <1>16, <1>17, <1>18, <1>19, <1>20
        DEF Next, MainStep, NodeStep, Step

LEMMA WaveStep == WaveInv /\ SlotsTypeOK /\ [Next]_vars => WaveInv'
BY WaveTypesKept, InputsKept, ResultsKept, PlanIsKept, InLineKept, SerialKept, BlameKept,
      OutcomeKept,
   SlotsUsedKept
   DEF WaveInv

THEOREM WaveInvariance == Spec => [](WaveInv /\ SlotsInv)
<1>1. SlotsInv => SlotsTypeOK
  BY DEF SlotsInv
<1> QED BY WaveInit, WaveStep, SchedulerIsUsed, Invariance, <1>1, PTL DEF Spec

(* _run_step skips an absent source without an error; execution_waves and the *)
(* barrier of _run_steps see to it that none is absent, whatever fails.       *)
THEOREM NoMissingInput == Spec => []InputsComplete
<1>1. WaveInv => InputsComplete
  BY DEF WaveInv, InputsThere, Gathered, InBody, InputsComplete
<1> QED BY WaveInvariance, <1>1, PTL

(* _run_steps keeps the first exception although it raises the flag of Stop.  *)
THEOREM OutcomeIsHonest == Spec => []HonestOutcome
<1>1. WaveInv => HonestOutcome
  <2> SUFFICES ASSUME WaveInv PROVE HonestOutcome
    OBVIOUS
  <2>1. outcome = "COMPLETED" => values = Nodes /\ \A n \in Nodes : result[n] \in {"ok", "cached"}
    BY DEF WaveInv, WaveTypes, OutcomeFits, Good
  <2>2. outcome = "FAILED" => \E n \in Nodes : result[n] = "failed"
    BY DEF WaveInv, OutcomeFits, BlameFits
  <2>3. outcome = "CANCELLED" => userCancel
    BY DEF WaveInv, OutcomeFits, BlameFits
  <2> QED BY <2>1, <2>2, <2>3 DEF HonestOutcome
<1> QED BY WaveInvariance, <1>1, PTL

(* LLUNA_GRAPH_CONCURRENCY=0: one step at a time and none after a failure.    *)
THEOREM SerialMeansSerial == Spec => []StrictlySerial
<1>1. WaveInv => StrictlySerial
  <2> SUFFICES ASSUME WaveInv, ~concurrent
               PROVE  Cardinality(Active) <= 1 /\ (failure # "none" => Active = {})
    BY DEF StrictlySerial
  <2>1. ~Pooled
    BY DEF WaveInv, SerialInLine, Pooled
  <2>2. \A n \in Active : mainPc = "inWave" /\ n \in wave /\ stepPc[n] \notin {"ready",
        "collected"}
    BY DEF Active, WaveInv, WaveTypes, PlanKept
  <2>3. \A m, n \in Active : m = n
    BY <2>1, <2>2 DEF WaveInv, OneInLine
  <2>4. Cardinality(Active) <= 1
    <3>1. CASE Active = {}
      BY <3>1, FS_EmptySet
    <3>2. CASE Active # {}
      <4>1. PICK n : n \in Active
        BY <3>2
      <4>2. Active = {n}
        BY <2>3, <4>1
      <4> QED BY <4>2, FS_Singleton
    <3> QED BY <3>1, <3>2
  <2>5. failure # "none" => Active = {}
    BY <2>1, <2>2 DEF WaveInv, OneInLine
  <2> QED BY <2>4, <2>5
<1> QED BY WaveInvariance, <1>1, PTL

(* plan_concurrency reads heavy_capacity between waves, when it is the number *)
(* of devices, and no run ends with a device or a slot in use.                *)
THEOREM CapacityIsTrue == Spec => []QuietBetweenWaves
<1>1. WaveInv /\ SlotsInv => QuietBetweenWaves
  <2> SUFFICES ASSUME WaveInv, SlotsInv, mainPc # "inWave"
               PROVE  Active = {} /\ HeavyCapacity = Len(HeavyDevices)
    BY DEF QuietBetweenWaves
  <2>1. Active = {}
    BY DEF Active, WaveInv, WaveTypes, PlanKept
  <2>2. \A n \in Nodes : slotPc[n] = "outside"
    BY <2>1 DEF Active, WaveInv, SlotsUsed, InBody
  <2>3. OnDevice = {}
    BY <2>2 DEF OnDevice, Nodes
  <2>4. Len(freeDevices) = Len(HeavyDevices) - 0
    BY <2>3, FS_EmptySet DEF SlotsInv, SlotsAccounted
  <2>5. Len(HeavyDevices) \in Nat
    BY DevicesAssumption
  <2> QED BY <2>1, <2>4, <2>5 DEF HeavyCapacity
<1> QED BY WaveInvariance, <1>1, PTL

-----------------------------------------------------------------------------
(* What the window is shown of a step, by the place it is at.                 *)
Before == {"waiting", "ready", "entering", "gathering", "lookup", "atSlot"}
Done == {"SUCCEEDED", "CACHED"}
ShownByPlace ==
    /\ \A n \in Nodes : stepPc[n] \in Before \cup InBody => result[n] = "none"
    /\ outcome = "none" =>
           \A n \in Nodes : /\ nodeState[n] \in {"IDLE", "RUNNING"} \cup Done
                            /\ stepPc[n] \in Before => nodeState[n] = "IDLE"
                            /\ stepPc[n] \in InBody => nodeState[n] = "RUNNING"
    /\ outcome \in {"none", "COMPLETED"} =>
           \A n \in Nodes : result[n] \in {"ok", "cached"} => nodeState[n] \in Done

(* In line the node that changed its state last is the one that is under way, *)
(* or the one that failed.                                                    *)
Holds(n) ==
    nodeState[n] = "RUNNING" \/ result[n] = "failed" \/ stepPc[n] = "storing"
        \/ (stepPc[n] = "leaving" /\ result[n] = "ok")
CurrentFits ==
    mainPc = "inWave" /\ workers = 1 =>
        \A n \in Nodes : /\ Holds(n) => n = current
                         /\ result[n] = "failed" =>
                                stepPc[n] \in {"leaving", "raised"} \/ failure = "failed"

ShownInv ==
    /\ nodeState \in [Nodes -> {"IDLE", "RUNNING", "SUCCEEDED", "CACHED", "FAILED", "CANCELLED"}]
    /\ ShownByPlace /\ CurrentFits /\ BlamesTheRightNode

(* A state is shown where _node_state is called, and Fail repaints one node.  *)
LEMMA ShownByPlaceKept == WaveInv /\ ShownInv /\ [Next]_vars => ShownByPlace'
<1> SUFFICES ASSUME WaveInv, ShownInv, [Next]_vars PROVE ShownByPlace'
  OBVIOUS
<1> USE DEF ShownInv, ShownByPlace, Before, Done, OutcomeFits, ResultsFit, WaveInv, WaveTypes, PlanKept, StepPcs, Results, Goto, Ends, InBody, Shows, Fail,
            schedVars, stepVars, mainVars, flagVars, restVars, bodyVars, shownVars
<1>1. ASSUME Pause \/ Resume \/ Cancel PROVE ShownByPlace'
  BY <1>1 DEF Pause, Resume, Cancel
<1>2. ASSUME NEW n \in Nodes, PassPause(n) PROVE ShownByPlace'
  BY <1>2 DEF PassPause
<1>3. ASSUME NEW n \in Nodes, Gather(n) PROVE ShownByPlace'
  BY <1>3 DEF Gather
<1>4. ASSUME NEW n \in Nodes, CacheHit(n) PROVE ShownByPlace'
  BY <1>4 DEF CacheHit
<1>5. ASSUME NEW n \in Nodes, CacheMiss(n) PROVE ShownByPlace'
  BY <1>5 DEF CacheMiss
<1>6. ASSUME NEW n \in Nodes, EnterSlot(n) PROVE ShownByPlace'
  BY <1>6 DEF EnterSlot
<1>7. ASSUME NEW n \in Nodes, BeginBody(n) PROVE ShownByPlace'
  BY <1>7 DEF BeginBody
<1>8. ASSUME NEW n \in Nodes, BeginItem(n) PROVE ShownByPlace'
  BY <1>8 DEF BeginItem
<1>9. ASSUME NEW n \in Nodes, EndItem(n) PROVE ShownByPlace'
  BY <1>9 DEF EndItem
<1>10. ASSUME NEW n \in Nodes, Falters(n) PROVE ShownByPlace'
  BY <1>10 DEF Falters
<1>11. ASSUME NEW n \in Nodes, Retry(n) PROVE ShownByPlace'
  BY <1>11 DEF Retry
<1>12. ASSUME NEW n \in Nodes, Progress(n) PROVE ShownByPlace'
  BY <1>12 DEF Progress
<1>13. ASSUME NEW n \in Nodes, EndBody(n) PROVE ShownByPlace'
  BY <1>13 DEF EndBody
<1>14. ASSUME NEW n \in Nodes, LeaveSlot(n) PROVE ShownByPlace'
  BY <1>14 DEF LeaveSlot
<1>15. ASSUME NEW n \in Nodes, Store(n) PROVE ShownByPlace'
  BY <1>15 DEF Store
<1>16. ASSUME NEW n \in Nodes, StartStep(n) PROVE ShownByPlace'
  BY <1>16 DEF StartStep, Ready
<1>17. ASSUME NEW n \in Nodes, Collect(n) PROVE ShownByPlace'
  BY <1>17 DEF Collect
<1>18. ASSUME PlanWave PROVE ShownByPlace'
  BY <1>18 DEF PlanWave, NextWave
<1>19. ASSUME EndWave PROVE ShownByPlace'
  BY <1>19 DEF EndWave
<1>20. ASSUME Complete PROVE ShownByPlace'
  BY <1>20 DEF Complete
<1>21. ASSUME UNCHANGED vars PROVE ShownByPlace'
  BY <1>21 DEF vars
<1> QED BY <1>1, <1>2, <1>3, <1>4, <1>5, <1>6, <1>7, <1>8, <1>9, <1>10, <1>11, <1>12, <1>13,
      <1>14, <1>15, <1>16, <1>17, <1>18, <1>19, <1>20, <1>21
        DEF Next, MainStep, NodeStep, Step

(* In line nobody else shows a state while a step is under way.               *)
LEMMA CurrentKept == WaveInv /\ ShownInv /\ [Next]_vars => CurrentFits'
<1> SUFFICES ASSUME WaveInv, ShownInv, [Next]_vars PROVE CurrentFits'
  OBVIOUS
<1> USE DEF ShownInv, ShownByPlace, CurrentFits, Holds, Before, Done, Good, OutcomeFits, ResultsFit, OneInLine, Pooled,
            NextWave, WaveInv, WaveTypes, PlanKept, StepPcs, Results, Goto, Ends, InBody, Shows, Fail,
            schedVars, stepVars, mainVars, flagVars, restVars, bodyVars, shownVars
<1>1. ASSUME Pause \/ Resume \/ Cancel PROVE CurrentFits'
  BY <1>1 DEF Pause, Resume, Cancel
<1>2. ASSUME NEW n \in Nodes, PassPause(n) PROVE CurrentFits'
  BY <1>2 DEF PassPause
<1>3. ASSUME NEW n \in Nodes, Gather(n) PROVE CurrentFits'
  BY <1>3 DEF Gather
<1>4. ASSUME NEW n \in Nodes, CacheHit(n) PROVE CurrentFits'
  BY <1>4 DEF CacheHit
<1>5. ASSUME NEW n \in Nodes, CacheMiss(n) PROVE CurrentFits'
  BY <1>5 DEF CacheMiss
<1>6. ASSUME NEW n \in Nodes, EnterSlot(n) PROVE CurrentFits'
  BY <1>6 DEF EnterSlot
<1>7. ASSUME NEW n \in Nodes, BeginBody(n) PROVE CurrentFits'
  BY <1>7 DEF BeginBody
<1>8. ASSUME NEW n \in Nodes, BeginItem(n) PROVE CurrentFits'
  BY <1>8 DEF BeginItem
<1>9. ASSUME NEW n \in Nodes, EndItem(n) PROVE CurrentFits'
  BY <1>9 DEF EndItem
<1>10. ASSUME NEW n \in Nodes, Falters(n) PROVE CurrentFits'
  BY <1>10 DEF Falters
<1>11. ASSUME NEW n \in Nodes, Retry(n) PROVE CurrentFits'
  BY <1>11 DEF Retry
<1>12. ASSUME NEW n \in Nodes, Progress(n) PROVE CurrentFits'
  BY <1>12 DEF Progress
<1>13. ASSUME NEW n \in Nodes, EndBody(n) PROVE CurrentFits'
  BY <1>13 DEF EndBody
<1>14. ASSUME NEW n \in Nodes, LeaveSlot(n) PROVE CurrentFits'
  BY <1>14 DEF LeaveSlot
<1>15. ASSUME NEW n \in Nodes, Store(n) PROVE CurrentFits'
  BY <1>15 DEF Store
<1>16. ASSUME NEW n \in Nodes, StartStep(n) PROVE CurrentFits'
  BY <1>16 DEF StartStep, Ready
<1>17. ASSUME NEW n \in Nodes, Collect(n) PROVE CurrentFits'
  BY <1>17 DEF Collect
<1>18. ASSUME PlanWave PROVE CurrentFits'
  BY <1>18 DEF PlanWave
<1>19. ASSUME EndWave PROVE CurrentFits'
  BY <1>19 DEF EndWave
<1>20. ASSUME Complete PROVE CurrentFits'
  BY <1>20 DEF Complete
<1>21. ASSUME UNCHANGED vars PROVE CurrentFits'
  BY <1>21 DEF vars
<1> QED BY <1>1, <1>2, <1>3, <1>4, <1>5, <1>6, <1>7, <1>8, <1>9, <1>10, <1>11, <1>12, <1>13,
      <1>14, <1>15, <1>16, <1>17, <1>18, <1>19, <1>20, <1>21
        DEF Next, MainStep, NodeStep, Step

(* The end of the run repaints the node that is to blame.                     *)
LEMMA BlameIsKept == WaveInv /\ ShownInv /\ [Next]_vars => BlamesTheRightNode'
<1> SUFFICES ASSUME WaveInv, ShownInv, [Next]_vars PROVE BlamesTheRightNode'
  OBVIOUS
<1> USE DEF ShownInv, ShownByPlace, CurrentFits, Holds, Before, Done, Good, OutcomeFits, ResultsFit, BlameFits, BlamesTheRightNode, OneInLine,
            WaveInv, WaveTypes, PlanKept, StepPcs, Results, Goto, Ends, InBody, Shows, Fail,
            schedVars, stepVars, mainVars, flagVars, restVars, bodyVars, shownVars
<1>1. ASSUME Pause \/ Resume \/ Cancel PROVE BlamesTheRightNode'
  BY <1>1 DEF Pause, Resume, Cancel
<1>2. ASSUME NEW n \in Nodes, PassPause(n) PROVE BlamesTheRightNode'
  BY <1>2 DEF PassPause
<1>3. ASSUME NEW n \in Nodes, Gather(n) PROVE BlamesTheRightNode'
  BY <1>3 DEF Gather
<1>4. ASSUME NEW n \in Nodes, CacheHit(n) PROVE BlamesTheRightNode'
  BY <1>4 DEF CacheHit
<1>5. ASSUME NEW n \in Nodes, CacheMiss(n) PROVE BlamesTheRightNode'
  BY <1>5 DEF CacheMiss
<1>6. ASSUME NEW n \in Nodes, EnterSlot(n) PROVE BlamesTheRightNode'
  BY <1>6 DEF EnterSlot
<1>7. ASSUME NEW n \in Nodes, BeginBody(n) PROVE BlamesTheRightNode'
  BY <1>7 DEF BeginBody
<1>8. ASSUME NEW n \in Nodes, BeginItem(n) PROVE BlamesTheRightNode'
  BY <1>8 DEF BeginItem
<1>9. ASSUME NEW n \in Nodes, EndItem(n) PROVE BlamesTheRightNode'
  BY <1>9 DEF EndItem
<1>10. ASSUME NEW n \in Nodes, Falters(n) PROVE BlamesTheRightNode'
  BY <1>10 DEF Falters
<1>11. ASSUME NEW n \in Nodes, Retry(n) PROVE BlamesTheRightNode'
  BY <1>11 DEF Retry
<1>12. ASSUME NEW n \in Nodes, Progress(n) PROVE BlamesTheRightNode'
  BY <1>12 DEF Progress
<1>13. ASSUME NEW n \in Nodes, EndBody(n) PROVE BlamesTheRightNode'
  BY <1>13 DEF EndBody
<1>14. ASSUME NEW n \in Nodes, LeaveSlot(n) PROVE BlamesTheRightNode'
  BY <1>14 DEF LeaveSlot
<1>15. ASSUME NEW n \in Nodes, Store(n) PROVE BlamesTheRightNode'
  BY <1>15 DEF Store
<1>16. ASSUME NEW n \in Nodes, StartStep(n) PROVE BlamesTheRightNode'
  BY <1>16 DEF StartStep, Ready
<1>17. ASSUME NEW n \in Nodes, Collect(n) PROVE BlamesTheRightNode'
  BY <1>17 DEF Collect
<1>18. ASSUME PlanWave PROVE BlamesTheRightNode'
  BY <1>18 DEF PlanWave
<1>19. ASSUME EndWave PROVE BlamesTheRightNode'
  <2>1. CASE failure = "none"
    BY <1>19, <2>1 DEF EndWave
  <2>2. CASE failure # "none"
    <3> SUFFICES ASSUME workers = 1, NEW n \in Nodes
                 PROVE  nodeState'[n] # "RUNNING" /\ (nodeState'[n] = "FAILED" <=> result[n] = "failed")
      BY <1>19, <2>2 DEF EndWave
    <3>1. mainPc = "inWave" /\ outcome = "none"
      BY <1>19 DEF EndWave
    <3>2. nodeState'[n] = IF n = current
                          THEN IF failure = "cancelled" THEN "CANCELLED" ELSE "FAILED"
                          ELSE nodeState[n]
      BY <1>19, <2>2 DEF EndWave
    <3>3. nodeState[n] = "RUNNING" \/ result[n] = "failed" => n = current
      BY <3>1
    <3>4. ~Pooled
      BY DEF Pooled
    <3>5. stepPc[n] \notin {"leaving", "raised"}
      BY <2>2, <3>1, <3>4
    <3>6. result[n] = "failed" => failure = "failed"
      BY <3>1, <3>5
    <3>7. failure = "failed" /\ n = current => result[n] = "failed"
      <4>1. ASSUME failure = "failed" PROVE \E m \in Nodes : m = current /\ result[m] = "failed"
        BY <3>1, <4>1
      <4> QED BY <4>1
    <3>8. nodeState[n] # "FAILED"
      BY <3>1
    <3> QED BY <2>2, <3>2, <3>3, <3>6, <3>7, <3>8
  <2> QED BY <2>1, <2>2
<1>20. ASSUME Complete PROVE BlamesTheRightNode'
  BY <1>20 DEF Complete
<1>21. ASSUME UNCHANGED vars PROVE BlamesTheRightNode'
  BY <1>21 DEF vars
<1> QED BY <1>1, <1>2, <1>3, <1>4, <1>5, <1>6, <1>7, <1>8, <1>9, <1>10, <1>11, <1>12, <1>13,
      <1>14, <1>15, <1>16, <1>17, <1>18, <1>19, <1>20, <1>21
        DEF Next, MainStep, NodeStep, Step

LEMMA ShownTypesKept ==
  WaveInv /\ ShownInv /\ [Next]_vars =>
    nodeState' \in [Nodes -> {"IDLE", "RUNNING", "SUCCEEDED", "CACHED", "FAILED", "CANCELLED"}]
<1> SUFFICES ASSUME WaveInv, ShownInv, [Next]_vars
             PROVE  nodeState' \in [Nodes -> {"IDLE", "RUNNING", "SUCCEEDED", "CACHED", "FAILED",
                                              "CANCELLED"}]
  OBVIOUS
<1> USE DEF ShownInv, Shows, Fail, restVars, shownVars
<1>1. ASSUME NEW n \in Nodes, Step(n) \/ StartStep(n) \/ Progress(n) \/ Collect(n)
      PROVE  \/ UNCHANGED nodeState
             \/ \E s \in {"RUNNING", "SUCCEEDED", "CACHED"} : nodeState' = [nodeState EXCEPT ![n] = s]
  BY <1>1 DEF Step, StartStep, Progress, Collect, PassPause, Gather, CacheHit, CacheMiss, EnterSlot,
              BeginBody, BeginItem, EndItem, Falters, Retry, EndBody, LeaveSlot, Store
<1>2. ASSUME EndWave
      PROVE  \/ UNCHANGED nodeState
             \/ \E s \in {"FAILED", "CANCELLED"} :
                    nodeState' = [n \in Nodes |-> IF n = current THEN s ELSE nodeState[n]]
  BY <1>2 DEF EndWave
<1>3. ASSUME PlanWave \/ Complete \/ Pause \/ Resume \/ Cancel \/ UNCHANGED vars
      PROVE  UNCHANGED nodeState
  BY <1>3 DEF PlanWave, Complete, Pause, Resume, Cancel, vars
<1> QED BY <1>1, <1>2, <1>3 DEF Next, MainStep, NodeStep

LEMMA ShownInit == Init => ShownInv
BY DEF Init, ShownInv, ShownByPlace, CurrentFits, BlamesTheRightNode, InBody

(* _execute only knows current_node_id; with one step at a time that is the   *)
(* node that raised.                                                          *)
THEOREM RightNodeIsBlamed == Spec => []BlamesTheRightNode
<1>1. ShownInv => BlamesTheRightNode
  BY DEF ShownInv
<1>2. WaveInv /\ ShownInv /\ [Next]_vars => ShownInv'
  BY ShownTypesKept, ShownByPlaceKept, CurrentKept, BlameIsKept DEF ShownInv
<1> QED BY ShownInit, WaveInvariance, <1>1, <1>2, PTL DEF Spec

(* Only the two gates lead on, and both read the cancel flag.                 *)
THEOREM StopReachesTheGates == Spec => StopsOthers
<1> DEFINE Stops == \A n \in Nodes : cancel /\ stepPc[n] \in AtGate
                                      => stepPc'[n] \in AtGate \/ result'[n] = "cancelled"
<1>1. WaveInv /\ [Next]_vars => Stops
  <2> SUFFICES ASSUME WaveInv, [Next]_vars, NEW m \in Nodes, cancel, stepPc[m] \in AtGate
               PROVE  stepPc'[m] \in AtGate \/ result'[m] = "cancelled"
    OBVIOUS
  <2> USE DEF WaveInv, WaveTypes, AtGate, Goto, Ends, restVars, stepVars
  <2>1. ASSUME NEW n \in Nodes, PassPause(n) \/ BeginItem(n)
        PROVE  stepPc'[m] \in AtGate \/ result'[m] = "cancelled"
    BY <2>1 DEF PassPause, BeginItem
  <2>2. ASSUME NEW n \in Nodes, StartStep(n) PROVE stepPc'[m] \in AtGate
    BY <2>2 DEF StartStep
  <2>3. ASSUME NEW n \in Nodes, Step(n), ~PassPause(n), ~BeginItem(n)
        PROVE  stepPc[n] \notin AtGate /\ \E p \in StepPcs : stepPc' = [stepPc EXCEPT ![n] = p]
    <3>1. stepPc[n] \notin AtGate
      BY <2>3 DEF Step, Gather, CacheHit, CacheMiss, EnterSlot, BeginBody, EndItem, Falters, Retry,
                  EndBody, LeaveSlot, Store
    <3>2. CASE EnterSlot(n)
      <4>1. stepPc' = [stepPc EXCEPT ![n] = "atSlot"]
        BY <3>2 DEF EnterSlot
      <4> QED BY <3>1, <4>1 DEF StepPcs
    <3>3. CASE ~EnterSlot(n)
      BY <2>3, <3>1, <3>3 DEF Step, Gather, CacheHit, CacheMiss, BeginBody, EndItem, Falters, Retry,
                  EndBody, LeaveSlot, Store, StepPcs, InBody
    <3> QED BY <3>2, <3>3
  <2>4. ASSUME NEW n \in Nodes, Collect(n) PROVE stepPc'[m] \in AtGate
    BY <2>4 DEF Collect
  <2>5. ASSUME PlanWave PROVE stepPc'[m] \in AtGate
    BY <2>5 DEF PlanWave
  <2>6. ASSUME \/ EndWave \/ Complete \/ Pause \/ Resume \/ Cancel \/ UNCHANGED vars
               \/ \E n \in Nodes : Progress(n)
        PROVE  UNCHANGED stepPc
    BY <2>6 DEF EndWave, Complete, Pause, Resume, Cancel, vars, Progress
  <2>7. ASSUME NEW n \in Nodes, Step(n) PROVE stepPc'[m] \in AtGate \/ result'[m] = "cancelled"
    BY <2>1, <2>3, <2>7
  <2> QED BY <2>2, <2>4, <2>5, <2>6, <2>7 DEF Next, MainStep, NodeStep
<1> QED BY WaveInvariance, <1>1, PTL DEF Spec, StopsOthers
-----------------------------------------------------------------------------
(* Types that the argument above did not need.                                *)
RestTypes ==
    /\ edges \in Graphs /\ workers \in Nat \ {0}
    /\ concurrent \in BOOLEAN /\ pause \in BOOLEAN
    /\ cancel \in BOOLEAN /\ userCancel \in BOOLEAN
    /\ items \in [Nodes -> 0..ListLength] /\ attempts \in [Nodes -> 0..RetryLimit]
    /\ current \in Nodes \cup {NoNode}

(* plan_concurrency always allows for one worker. *)
LEMMA PlanNeedsAWorker ==
    ASSUME NEW w \in SUBSET Nodes, freeDevices \in Seq(Devices)
    PROVE  PlanConcurrency(w) \in Nat \ {0}
<1> DEFINE k == Cardinality(w)
           h == Cardinality(w \cap Heavy)
           l == Cardinality(w \ Heavy)
           m == Min({k, Min({h, HeavyCapacity}) + l})
<1>1. k \in Nat /\ h \in Nat /\ l \in Nat
  BY CallersAssumption, FS_Subset, FS_CardinalityType DEF Nodes
<1>2. HeavyCapacity \in Nat
  BY DEF HeavyCapacity
<1>3. \A a, b \in Nat : Min({a, b}) \in {a, b}
  BY DEF Min
<1>4. m \in Nat
  <2>1. Min({h, HeavyCapacity}) \in Nat
    BY <1>1, <1>2, <1>3
  <2>2. Min({h, HeavyCapacity}) + l \in Nat
    BY <1>1, <2>1
  <2> QED BY <1>1, <1>3, <2>2
<1>5. ASSUME NEW a \in Nat PROVE Max({1, a}) \in Nat \ {0}
  <2>1. \E x \in {1, a} : \A y \in {1, a} : x >= y
    OBVIOUS
  <2>2. Max({1, a}) \in {1, a} /\ \A y \in {1, a} : Max({1, a}) >= y
    BY <2>1 DEF Max
  <2> QED BY <2>2
<1> HIDE DEF m
<1>6. Max({1, m}) \in Nat \ {0}
  BY <1>4, <1>5
<1> QED BY <1>6 DEF PlanConcurrency, m

(* Counters stay in their bounds, and nothing else is written anywhere new.   *)
LEMMA RestTypesKept == WaveInv /\ RestTypes /\ SlotsTypeOK /\ [Next]_vars => RestTypes'
<1> SUFFICES ASSUME WaveInv, RestTypes, SlotsTypeOK, [Next]_vars PROVE RestTypes'
  OBVIOUS
<1> USE DEF WaveInv, WaveTypes, RestTypes, SlotsTypeOK, Goto, Ends, InBody, Shows, Fail,
            schedVars, stepVars, mainVars, flagVars, restVars, bodyVars, shownVars
<1>1. ASSUME NEW n \in Nodes, PassPause(n) PROVE RestTypes'
  BY <1>1 DEF PassPause
<1>2. ASSUME NEW n \in Nodes, Gather(n) PROVE RestTypes'
  BY <1>2 DEF Gather
<1>3. ASSUME NEW n \in Nodes, CacheHit(n) PROVE RestTypes'
  BY <1>3 DEF CacheHit
<1>4. ASSUME NEW n \in Nodes, CacheMiss(n) PROVE RestTypes'
  BY <1>4 DEF CacheMiss
<1>5. ASSUME NEW n \in Nodes, EnterSlot(n) PROVE RestTypes'
  BY <1>5 DEF EnterSlot
<1>6. ASSUME NEW n \in Nodes, BeginBody(n) PROVE RestTypes'
  <2>1. /\ ListLength \in 0..ListLength
        /\ items' = items \/ items' = [items EXCEPT ![n] = ListLength]
    BY <1>6, NodesAssumption DEF BeginBody
  <2>2. items' \in [Nodes -> 0..ListLength]
    BY <2>1
  <2>3. current' \in Nodes \cup {NoNode} /\ attempts' = attempts
    BY <1>6 DEF BeginBody
  <2>4. /\ UNCHANGED <<edges, workers, concurrent>>
        /\ UNCHANGED <<pause, cancel, userCancel>>
    BY <1>6 DEF BeginBody
  <2> QED BY <2>2, <2>3, <2>4
<1>7. ASSUME NEW n \in Nodes, BeginItem(n) PROVE RestTypes'
  BY <1>7 DEF BeginItem
<1>8. ASSUME NEW n \in Nodes, EndItem(n) PROVE RestTypes'
  BY <1>8, NodesAssumption DEF EndItem
<1>9. ASSUME NEW n \in Nodes, Falters(n) PROVE RestTypes'
  BY <1>9, NodesAssumption DEF Falters
<1>10. ASSUME NEW n \in Nodes, Retry(n) PROVE RestTypes'
  BY <1>10 DEF Retry
<1>11. ASSUME NEW n \in Nodes, Progress(n) PROVE RestTypes'
  BY <1>11 DEF Progress
<1>12. ASSUME NEW n \in Nodes, EndBody(n) PROVE RestTypes'
  BY <1>12 DEF EndBody
<1>13. ASSUME NEW n \in Nodes, LeaveSlot(n) PROVE RestTypes'
  BY <1>13 DEF LeaveSlot
<1>14. ASSUME NEW n \in Nodes, Store(n) PROVE RestTypes'
  BY <1>14 DEF Store
<1>15. ASSUME NEW n \in Nodes, StartStep(n) PROVE RestTypes'
  BY <1>15 DEF StartStep
<1>16. ASSUME NEW n \in Nodes, Collect(n) PROVE RestTypes'
  BY <1>16 DEF Collect
<1>17. ASSUME PlanWave PROVE RestTypes'
  BY <1>17, PlanNeedsAWorker DEF PlanWave, NextWave
<1>18. ASSUME EndWave PROVE RestTypes'
  BY <1>18 DEF EndWave
<1>19. ASSUME Complete PROVE RestTypes'
  BY <1>19 DEF Complete
<1>20. ASSUME Pause \/ Resume \/ Cancel \/ UNCHANGED vars PROVE RestTypes'
  BY <1>20 DEF Pause, Resume, Cancel, vars
<1> QED BY <1>1, <1>2, <1>3, <1>4, <1>5, <1>6, <1>7, <1>8, <1>9, <1>10, <1>11, <1>12, <1>13,
      <1>14, <1>15, <1>16, <1>17, <1>18, <1>19, <1>20
        DEF Next, MainStep, NodeStep, Step

(* Where a step is in slot(), by where it is in _run_step; whom the present   *)
(* wave waits for; what is over has a result.                                 *)
InSlotFits ==
    \A n \in Nodes : /\ stepPc[n] = "atSlot" => slotPc[n] # "returned"
                     /\ stepPc[n] \in InBody => slotPc[n] \in {"onDevice", "onCpu"}
                     /\ stepPc[n] = "leaving" => slotPc[n] \in {"onDevice", "returned", "onCpu"}
WaveIsDue == mainPc = "inWave" => \A n \in wave : Deps(n) \subseteq settled
EndsKnown ==
    /\ \A n \in Nodes : stepPc[n] = "collected" => result[n] # "none"
    /\ mainPc = "ended" => outcome # "none"

FlowInv == RestTypes /\ InSlotFits /\ WaveIsDue /\ EndsKnown

(* The with statement of _run_step is entered and left where slot() is.       *)
LEMMA InSlotKept == WaveInv /\ SlotsTypeOK /\ InSlotFits /\ [Next]_vars => InSlotFits'
<1> SUFFICES ASSUME WaveInv, SlotsTypeOK, InSlotFits, [Next]_vars PROVE InSlotFits'
  OBVIOUS
<1> USE DEF WaveInv, WaveTypes, SlotsTypeOK, SlotsUsed, PlanKept, InSlotFits, Nodes, AcquireHeavy,
            TakeDevice, AcquireLight, ReturnDevice, ReleaseHeavy, ReleaseLight, Goto, Ends,
            InBody, Shows, Fail, schedVars, stepVars, mainVars, flagVars, restVars, bodyVars,
            shownVars
<1>1. ASSUME NEW n \in Nodes, PassPause(n) PROVE InSlotFits'
  BY <1>1 DEF PassPause
<1>2. ASSUME NEW n \in Nodes, Gather(n) PROVE InSlotFits'
  BY <1>2 DEF Gather
<1>3. ASSUME NEW n \in Nodes, CacheHit(n) PROVE InSlotFits'
  BY <1>3 DEF CacheHit
<1>4. ASSUME NEW n \in Nodes, CacheMiss(n) PROVE InSlotFits'
  BY <1>4 DEF CacheMiss
<1>5. ASSUME NEW n \in Nodes, EnterSlot(n) PROVE InSlotFits'
  BY <1>5 DEF EnterSlot
<1>6. ASSUME NEW n \in Nodes, BeginBody(n) PROVE InSlotFits'
  BY <1>6 DEF BeginBody
<1>7. ASSUME NEW n \in Nodes, BeginItem(n) PROVE InSlotFits'
  BY <1>7 DEF BeginItem
<1>8. ASSUME NEW n \in Nodes, EndItem(n) PROVE InSlotFits'
  BY <1>8 DEF EndItem
<1>9. ASSUME NEW n \in Nodes, Falters(n) PROVE InSlotFits'
  BY <1>9 DEF Falters
<1>10. ASSUME NEW n \in Nodes, Retry(n) PROVE InSlotFits'
  BY <1>10 DEF Retry
<1>11. ASSUME NEW n \in Nodes, Progress(n) PROVE InSlotFits'
  BY <1>11 DEF Progress
<1>12. ASSUME NEW n \in Nodes, EndBody(n) PROVE InSlotFits'
  BY <1>12 DEF EndBody
<1>13. ASSUME NEW n \in Nodes, LeaveSlot(n) PROVE InSlotFits'
  BY <1>13 DEF LeaveSlot
<1>14. ASSUME NEW n \in Nodes, Store(n) PROVE InSlotFits'
  BY <1>14 DEF Store
<1>15. ASSUME NEW n \in Nodes, StartStep(n) PROVE InSlotFits'
  BY <1>15 DEF StartStep
<1>16. ASSUME NEW n \in Nodes, Collect(n) PROVE InSlotFits'
  BY <1>16 DEF Collect
<1>17. ASSUME PlanWave PROVE InSlotFits'
  BY <1>17 DEF PlanWave
<1>18. ASSUME EndWave PROVE InSlotFits'
  BY <1>18 DEF EndWave
<1>19. ASSUME Complete PROVE InSlotFits'
  BY <1>19 DEF Complete
<1>20. ASSUME Pause \/ Resume \/ Cancel \/ UNCHANGED vars PROVE InSlotFits'
  BY <1>20 DEF Pause, Resume, Cancel, vars
<1> QED BY <1>1, <1>2, <1>3, <1>4, <1>5, <1>6, <1>7, <1>8, <1>9, <1>10, <1>11, <1>12, <1>13,
      <1>14, <1>15, <1>16, <1>17, <1>18, <1>19, <1>20
        DEF Next, MainStep, NodeStep, Step

(* A wave is planned from the nodes settled before it.                        *)
LEMMA DueKept == WaveInv /\ WaveIsDue /\ [Next]_vars => WaveIsDue'
<1> SUFFICES ASSUME WaveInv, WaveIsDue, [Next]_vars PROVE WaveIsDue'
  OBVIOUS
<1> USE DEF WaveInv, WaveTypes, WaveIsDue, Deps, Goto, Ends, InBody, Shows, Fail, schedVars,
            stepVars, mainVars, flagVars, restVars, bodyVars, shownVars
<1>1. ASSUME NEW n \in Nodes, PassPause(n) PROVE WaveIsDue'
  BY <1>1 DEF PassPause
<1>2. ASSUME NEW n \in Nodes, Gather(n) PROVE WaveIsDue'
  BY <1>2 DEF Gather
<1>3. ASSUME NEW n \in Nodes, CacheHit(n) PROVE WaveIsDue'
  BY <1>3 DEF CacheHit
<1>4. ASSUME NEW n \in Nodes, CacheMiss(n) PROVE WaveIsDue'
  BY <1>4 DEF CacheMiss
<1>5. ASSUME NEW n \in Nodes, EnterSlot(n) PROVE WaveIsDue'
  BY <1>5 DEF EnterSlot
<1>6. ASSUME NEW n \in Nodes, BeginBody(n) PROVE WaveIsDue'
  BY <1>6 DEF BeginBody
<1>7. ASSUME NEW n \in Nodes, BeginItem(n) PROVE WaveIsDue'
  BY <1>7 DEF BeginItem
<1>8. ASSUME NEW n \in Nodes, EndItem(n) PROVE WaveIsDue'
  BY <1>8 DEF EndItem
<1>9. ASSUME NEW n \in Nodes, Falters(n) PROVE WaveIsDue'
  BY <1>9 DEF Falters
<1>10. ASSUME NEW n \in Nodes, Retry(n) PROVE WaveIsDue'
  BY <1>10 DEF Retry
<1>11. ASSUME NEW n \in Nodes, Progress(n) PROVE WaveIsDue'
  BY <1>11 DEF Progress
<1>12. ASSUME NEW n \in Nodes, EndBody(n) PROVE WaveIsDue'
  BY <1>12 DEF EndBody
<1>13. ASSUME NEW n \in Nodes, LeaveSlot(n) PROVE WaveIsDue'
  BY <1>13 DEF LeaveSlot
<1>14. ASSUME NEW n \in Nodes, Store(n) PROVE WaveIsDue'
  BY <1>14 DEF Store
<1>15. ASSUME NEW n \in Nodes, StartStep(n) PROVE WaveIsDue'
  BY <1>15 DEF StartStep
<1>16. ASSUME NEW n \in Nodes, Collect(n) PROVE WaveIsDue'
  BY <1>16 DEF Collect
<1>17. ASSUME PlanWave PROVE WaveIsDue'
  BY <1>17 DEF PlanWave, NextWave
<1>18. ASSUME EndWave PROVE WaveIsDue'
  BY <1>18 DEF EndWave
<1>19. ASSUME Complete PROVE WaveIsDue'
  BY <1>19 DEF Complete
<1>20. ASSUME Pause \/ Resume \/ Cancel \/ UNCHANGED vars PROVE WaveIsDue'
  BY <1>20 DEF Pause, Resume, Cancel, vars
<1> QED BY <1>1, <1>2, <1>3, <1>4, <1>5, <1>6, <1>7, <1>8, <1>9, <1>10, <1>11, <1>12, <1>13,
      <1>14, <1>15, <1>16, <1>17, <1>18, <1>19, <1>20
        DEF Next, MainStep, NodeStep, Step

(* A future that is over was given a result, and the run that ended a verdict. *)
LEMMA EndsKept == WaveInv /\ EndsKnown /\ [Next]_vars => EndsKnown'
<1> SUFFICES ASSUME WaveInv, EndsKnown, [Next]_vars PROVE EndsKnown'
  OBVIOUS
<1> USE DEF WaveInv, WaveTypes, ResultsFit, Good, EndsKnown, PlanKept, Goto, Ends, InBody, Shows,
            Fail, schedVars, stepVars, mainVars, flagVars, restVars, bodyVars, shownVars
<1>1. ASSUME NEW n \in Nodes, PassPause(n) PROVE EndsKnown'
  BY <1>1 DEF PassPause
<1>2. ASSUME NEW n \in Nodes, Gather(n) PROVE EndsKnown'
  BY <1>2 DEF Gather
<1>3. ASSUME NEW n \in Nodes, CacheHit(n) PROVE EndsKnown'
  BY <1>3 DEF CacheHit
<1>4. ASSUME NEW n \in Nodes, CacheMiss(n) PROVE EndsKnown'
  BY <1>4 DEF CacheMiss
<1>5. ASSUME NEW n \in Nodes, EnterSlot(n) PROVE EndsKnown'
  BY <1>5 DEF EnterSlot
<1>6. ASSUME NEW n \in Nodes, BeginBody(n) PROVE EndsKnown'
  BY <1>6 DEF BeginBody
<1>7. ASSUME NEW n \in Nodes, BeginItem(n) PROVE EndsKnown'
  BY <1>7 DEF BeginItem
<1>8. ASSUME NEW n \in Nodes, EndItem(n) PROVE EndsKnown'
  BY <1>8 DEF EndItem
<1>9. ASSUME NEW n \in Nodes, Falters(n) PROVE EndsKnown'
  BY <1>9 DEF Falters
<1>10. ASSUME NEW n \in Nodes, Retry(n) PROVE EndsKnown'
  BY <1>10 DEF Retry
<1>11. ASSUME NEW n \in Nodes, Progress(n) PROVE EndsKnown'
  BY <1>11 DEF Progress
<1>12. ASSUME NEW n \in Nodes, EndBody(n) PROVE EndsKnown'
  BY <1>12 DEF EndBody
<1>13. ASSUME NEW n \in Nodes, LeaveSlot(n) PROVE EndsKnown'
  BY <1>13 DEF LeaveSlot
<1>14. ASSUME NEW n \in Nodes, Store(n) PROVE EndsKnown'
  BY <1>14 DEF Store
<1>15. ASSUME NEW n \in Nodes, StartStep(n) PROVE EndsKnown'
  BY <1>15 DEF StartStep
<1>16. ASSUME NEW n \in Nodes, Collect(n) PROVE EndsKnown'
  BY <1>16 DEF Collect
<1>17. ASSUME PlanWave PROVE EndsKnown'
  BY <1>17 DEF PlanWave
<1>18. ASSUME EndWave PROVE EndsKnown'
  BY <1>18 DEF EndWave
<1>19. ASSUME Complete PROVE EndsKnown'
  BY <1>19 DEF Complete
<1>20. ASSUME Pause \/ Resume \/ Cancel \/ UNCHANGED vars PROVE EndsKnown'
  BY <1>20 DEF Pause, Resume, Cancel, vars
<1> QED BY <1>1, <1>2, <1>3, <1>4, <1>5, <1>6, <1>7, <1>8, <1>9, <1>10, <1>11, <1>12, <1>13,
      <1>14, <1>15, <1>16, <1>17, <1>18, <1>19, <1>20
        DEF Next, MainStep, NodeStep, Step

LEMMA FlowInit == Init => FlowInv
<1> SUFFICES ASSUME Init PROVE FlowInv
  OBVIOUS
<1>1. edges \in Graphs /\ workers \in Nat \ {0} /\ current \in Nodes \cup {NoNode}
  BY DEF Init
<1>3. items \in [Nodes -> 0..ListLength] /\ attempts \in [Nodes -> 0..RetryLimit]
  BY NodesAssumption DEF Init
<1>4. concurrent \in BOOLEAN /\ pause \in BOOLEAN /\ cancel \in BOOLEAN /\ userCancel \in BOOLEAN
  BY DEF Init
<1>2. InSlotFits /\ WaveIsDue /\ EndsKnown
  BY DEF Init, InSlotFits, WaveIsDue, EndsKnown, InBody
<1> QED BY <1>1, <1>2, <1>3, <1>4 DEF FlowInv, RestTypes

LEMMA FlowHolds == Spec => [](WaveInv /\ SlotsInv /\ FlowInv)
<1>1. WaveInv /\ SlotsInv /\ FlowInv /\ [Next]_vars => FlowInv'
  BY RestTypesKept, InSlotKept, DueKept, EndsKept DEF FlowInv, SlotsInv
<1> QED BY FlowInit, WaveInvariance, <1>1, PTL DEF Spec

(* Every variable of a run keeps its type, whatever the plan. *)
THEOREM RunTypeCorrect == Spec => []TypeOK
<1>1. WaveInv /\ SlotsInv /\ FlowInv /\ ShownInv => TypeOK
  BY DEF WaveInv, WaveTypes, SlotsInv, FlowInv, RestTypes, ShownInv, TypeOK
<1>2. WaveInv /\ ShownInv /\ [Next]_vars => ShownInv'
  BY ShownTypesKept, ShownByPlaceKept, CurrentKept, BlameIsKept DEF ShownInv
<1> QED BY ShownInit, FlowHolds, <1>1, <1>2, PTL DEF Spec

-----------------------------------------------------------------------------
(* Some node of a set comes first in the plan. *)
LEMMA FirstOf ==
    ASSUME NEW S, S # {}, S \subseteq Nodes
    PROVE  \E n \in S : \A k \in S : n <= k
<1>1. S \subseteq Nat
  BY NodesAssumption DEF Nodes
<1>2. PICK n \in S : \A k \in S : ~ (<<k, n>> \in OpToRel(<, Nat))
  BY <1>1, NatLessThanWellFounded, WFMin
<1>3. ASSUME NEW k \in S PROVE n <= k
  <2>1. n \in Nat /\ k \in Nat
    BY <1>1
  <2>2. k < n => <<k, n>> \in OpToRel(<, Nat)
    <3>1. <<k, n>> \in Nat \X Nat /\ <<k, n>>[1] = k /\ <<k, n>>[2] = n
      BY <2>1
    <3> QED BY <3>1, Zenon DEF OpToRel
  <2>3. ~ (k < n)
    BY <1>2, <2>2, Zenon
  <2> QED BY <2>1, <2>3
<1> QED BY <1>3

(* A graph without a cycle has a node that is due as long as one is left.     *)
LEMMA WavesGoOn ==
    ASSUME RestTypes, settled \subseteq Nodes, settled # Nodes
    PROVE  NextWave(settled) # {}
<1>1. Nodes \ settled \in (SUBSET Callers) \ {{}}
  <2>1. \E n \in Nodes : n \notin settled
    OBVIOUS
  <2> QED BY <2>1 DEF Nodes
<1>2. PICK n \in Nodes \ settled : \A s \in (Nodes \ settled) \ {n} : <<s, n>> \notin edges
  BY <1>1, GraphsAssumption DEF RestTypes
<1>3. Deps(n) \subseteq settled
  BY <1>2 DEF Deps
<1> QED BY <1>2, <1>3 DEF NextWave

(* Whoever holds a slot can go on, and a slot that is not free is held.       *)
LEMMA HoldersGoOn ==
    ASSUME WaveInv, SlotsInv, FlowInv, GateOpen, NEW n \in Nodes, slotPc[n] # "outside"
    PROVE  CanGoOn(n)
<1>1. stepPc[n] \in {"atSlot", "leaving"} \cup InBody
  BY DEF WaveInv, SlotsUsed
<1>2. slotPc[n] = "admitted" => freeDevices # <<>>
  <2> SUFFICES ASSUME slotPc[n] = "admitted" PROVE freeDevices # <<>>
    OBVIOUS
  <2>1. Len(freeDevices) > 0
    BY AdmittedHasDevice DEF SlotsInv, Nodes
  <2> QED BY <2>1
<1> QED BY <1>1, <1>2 DEF CanGoOn, FlowInv, InSlotFits, InBody

LEMMA FullSlotIsHeld ==
    ASSUME SlotsInv, NEW n \in Nodes, ~SlotFree(n)
    PROVE  \E m \in Nodes : slotPc[m] # "outside"
<1>1. SlotsTypeOK /\ SlotsAccounted
  BY DEF SlotsInv
<1>2. CASE n \in Heavy
  <2>1. heavySem = 0
    BY <1>1, <1>2, DevicesAssumption DEF SlotFree, SlotsTypeOK
  <2>2. Len(HeavyDevices) \in Nat \ {0}
    BY DevicesAssumption
  <2>3. PastHeavy # {}
    BY <1>1, <2>1, <2>2, FS_EmptySet DEF SlotsAccounted
  <2> QED BY <2>3 DEF PastHeavy, Nodes
<1>3. CASE n \notin Heavy
  <2>1. lightSem = 0 /\ LightCapacity \in Nat \ {0}
    BY <1>1, <1>3, LightAssumption DEF SlotFree, SlotsTypeOK, LightCapacity
  <2>2. OnCpu # {}
    <3>1. lightSem = LightCapacity - Cardinality(OnCpu)
      BY <1>1 DEF SlotsAccounted
    <3>2. Cardinality(OnCpu) # 0
      BY <2>1, <3>1
    <3> QED BY <3>2, FS_EmptySet
  <2> QED BY <2>2 DEF OnCpu, Nodes
<1> QED BY <1>2, <1>3

(* A run that is not left at the pause gate always has a thread that can go   *)
(* on: neither the waves, nor the pool, nor the slots wait for each other.    *)
THEOREM NoDeadlock == Spec => []NeverStuck
<1>1. WaveInv /\ SlotsInv /\ FlowInv => NeverStuck
  <2> SUFFICES ASSUME WaveInv, SlotsInv, FlowInv, outcome = "none", GateOpen
               PROVE  \/ mainPc = "planning" /\ (settled # Nodes => NextWave(settled) # {})
                      \/ mainPc = "inWave" /\ (WaveOver \/ \E n \in Nodes : CanGoOn(n) \/ MayStart(n))
    BY DEF NeverStuck
  <2>1. mainPc \in {"planning", "inWave"}
    BY DEF WaveInv, WaveTypes, FlowInv, EndsKnown
  <2>2. CASE mainPc = "planning"
    BY <2>2, WavesGoOn DEF WaveInv, WaveTypes, FlowInv
  <2>3. CASE mainPc = "inWave"
    <3> SUFFICES ASSUME ~WaveOver PROVE \E n \in Nodes : CanGoOn(n) \/ MayStart(n)
      BY <2>3
    <3>1. PICK m \in wave : stepPc[m] # "collected"
      BY DEF WaveOver
    <3>2. \A n \in wave : stepPc[n] # "waiting"
      BY <2>3 DEF WaveInv, PlanKept
    <3>3. \A n \in Nodes : n \in wave \/ stepPc[n] \in {"waiting", "collected"}
      BY <2>3 DEF WaveInv, PlanKept
    <3>4. CASE \E n \in Nodes : stepPc[n] \in {"raised", "finished"}
      BY <3>4 DEF CanGoOn
    <3>5. CASE Active # {}
      <4>1. PICK n \in Active : TRUE
        BY <3>5
      <4>2. n \in Nodes /\ stepPc[n] \in {"entering", "gathering", "lookup", "atSlot", "leaving",
                                          "storing"} \cup InBody
        BY DEF Active, WaveInv, WaveTypes, StepPcs
      <4>3. CASE slotPc[n] # "outside"
        BY <4>2, <4>3, HoldersGoOn
      <4>4. CASE slotPc[n] = "outside" /\ (stepPc[n] = "atSlot" => SlotFree(n))
        BY <4>2, <4>4 DEF CanGoOn, FlowInv, InSlotFits, InBody
      <4>5. CASE stepPc[n] = "atSlot" /\ ~SlotFree(n)
        BY <4>2, <4>5, FullSlotIsHeld, HoldersGoOn
      <4> QED BY <4>3, <4>4, <4>5
    <3>6. CASE Active = {} /\ ~ \E n \in Nodes : stepPc[n] \in {"raised", "finished"}
      <4>1. \A n \in wave : stepPc[n] \in {"ready", "collected"}
        BY <3>2, <3>6 DEF Active, WaveInv, WaveTypes
      <4>2. Ready # {} /\ Ready \subseteq Nodes
        BY <3>1, <4>1 DEF Ready, WaveInv, WaveTypes
      <4>3. PICK n \in Ready : \A k \in Ready : n <= k
        BY <4>2, FirstOf
      <4>4. Pooled => Cardinality(Active) < workers
        BY <3>6, FS_EmptySet DEF Pooled, FlowInv, RestTypes
      <4>5. ~Pooled => failure = "none"
        BY DEF WaveOver
      <4>6. MayStart(n)
        BY <4>1, <4>3, <4>4, <4>5 DEF MayStart
      <4> QED BY <4>2, <4>6
    <3> QED BY <3>4, <3>5, <3>6
  <2> QED BY <2>1, <2>2, <2>3
<1> QED BY FlowHolds, <1>1, PTL

-----------------------------------------------------------------------------
(* Refinement of PlanRun.  An action of one step changes what became of its   *)
(* node, or nothing.                                                          *)
LEMMA OneMoves ==
    ASSUME WaveInv, NEW n \in Nodes,
           \A m \in Nodes \ {n} : stepPc'[m] = stepPc[m] /\ result'[m] = result[m]
    PROVE  NodeMap' = [NodeMap EXCEPT ![n] = Became(n)']
<1>1. \A m \in Nodes \ {n} : Became(m)' = Became(m)
  BY DEF Became
<1> QED BY <1>1 DEF NodeMap

UnderWay == {"gathering", "lookup", "atSlot", "leaving", "storing"} \cup InBody

(* What a node became, by the place of its step. *)
LEMMA BecameReads ==
    ASSUME WaveInv, FlowInv, NEW n \in Nodes
    PROVE  /\ Became(n) = "todo" <=> stepPc[n] \in {"waiting", "ready", "entering"}
           /\ Became(n) = "doing" <=> stepPc[n] \in UnderWay
           /\ stepPc[n] = "collected" /\ Good(n) => Became(n) = "good"
           /\ stepPc[n] = "collected" /\ result[n] = "failed" => Became(n) = "bad"
           /\ NodeMap[n] = Became(n)
BY DEF Became, NodeMap, UnderWay, InBody, Good, WaveInv, WaveTypes, StepPcs

LEMMA PassRefines ==
    ASSUME WaveInv, FlowInv, NEW n \in Nodes, PassPause(n)
    PROVE  Plan!Begin(n) \/ Plan!Drop(n)
<1>1. /\ stepPc[n] = "entering" /\ n \in wave /\ mainPc = "inWave" /\ outcome = "none"
      /\ Became(n) = "todo"
  BY BecameReads DEF PassPause, WaveInv, WaveTypes, PlanKept, OutcomeFits
<1>2. UNCHANGED <<edges, ~concurrent, userCancel, cancel, outcome>>
  BY DEF PassPause, restVars, mainVars, flagVars
<1>3. \A m \in Nodes \ {n} : stepPc'[m] = stepPc[m] /\ result'[m] = result[m]
  BY DEF PassPause, Goto, Ends, WaveInv, WaveTypes
<1>4. NodeMap' = [NodeMap EXCEPT ![n] = Became(n)']
  BY <1>3, OneMoves
<1>5. CASE cancel
  <2>1. Became(n)' = "dropped"
    BY <1>5 DEF PassPause, Goto, Ends, Became, WaveInv, WaveTypes
  <2> QED BY <1>1, <1>2, <1>4, <1>5, <2>1, BecameReads DEF Plan!Drop
<1>6. CASE ~cancel
  <2>1. Became(n)' = "doing"
    BY <1>6 DEF PassPause, Goto, Became, WaveInv, WaveTypes
  <2>2. \A s \in Plan!Inputs(n) : NodeMap[s] = "good"
    <3> SUFFICES ASSUME NEW s \in Nodes \ {n}, <<s, n>> \in edges PROVE NodeMap[s] = "good"
      BY DEF Plan!Inputs
    <3>1. s \in settled
      BY <1>1 DEF FlowInv, WaveIsDue, Deps
    <3> QED BY <1>1, <3>1, BecameReads DEF WaveInv, PlanKept
  <2>3. ~concurrent => \A m \in Nodes : NodeMap[m] \in {"todo", "good"}
    <3> SUFFICES ASSUME ~concurrent, NEW m \in Nodes PROVE Became(m) \in {"todo", "good"}
      BY BecameReads
    <3>1. ~Pooled
      BY DEF Pooled, WaveInv, SerialInLine
    <3>2. failure = "none"
      BY <1>1, <3>1 DEF WaveInv, OneInLine
    <3>3. CASE m \in settled
      BY <1>1, <3>3, BecameReads DEF WaveInv, PlanKept
    <3>4. CASE m \notin settled /\ m \notin wave
      BY <1>1, <3>4, BecameReads DEF WaveInv, PlanKept
    <3>5. CASE m \in wave
      <4>1. m = n \/ stepPc[m] \in {"ready", "collected"}
        BY <1>1, <3>1, <3>5 DEF WaveInv, OneInLine
      <4>2. stepPc[m] = "collected" => Good(m)
        BY <1>1, <3>2, <3>5 DEF WaveInv, PlanKept
      <4> QED BY <1>1, <4>1, <4>2, BecameReads
    <3> QED BY <3>3, <3>4, <3>5
  <2> QED BY <1>1, <1>2, <1>4, <1>6, <2>1, <2>2, <2>3, BecameReads DEF Plan!Begin
<1> QED BY <1>5, <1>6

LEMMA LeavesRefine ==
    ASSUME WaveInv, SlotsTypeOK, FlowInv, NEW n \in Nodes, LeaveSlot(n) \/ Store(n)
    PROVE  (\E how \in {"good", "bad", "dropped"} : Plan!Finish(n, how)) \/ UNCHANGED Plan!vars
<1>1. Became(n) = "doing"
  BY BecameReads DEF LeaveSlot, Store, UnderWay
<1>2. UNCHANGED <<edges, ~concurrent, userCancel, cancel, outcome>>
  BY DEF LeaveSlot, Store, restVars, mainVars, flagVars
<1>3. \A m \in Nodes \ {n} : stepPc'[m] = stepPc[m] /\ result'[m] = result[m]
  BY DEF LeaveSlot, Store, Goto, Ends, WaveInv, WaveTypes
<1>4. NodeMap' = [NodeMap EXCEPT ![n] = Became(n)']
  BY <1>3, OneMoves
<1>5. \/ Became(n)' = "doing" \/ Became(n)' \in {"good", "bad"}
      \/ (Became(n)' = "dropped" /\ result[n] = "cancelled")
  <2>1. CASE LeaveSlot(n)
    <3>1. /\ result' = result /\ result[n] \in {"ok", "failed", "cancelled"}
          /\ stepPc'[n] \in {"leaving", "storing", "raised"}
          /\ stepPc'[n] = "raised" => result[n] # "ok"
      BY <2>1 DEF LeaveSlot, Goto, WaveInv, WaveTypes, ResultsFit
    <3> QED BY <3>1 DEF Became
  <2>2. CASE Store(n)
    <3>1. /\ result[n] \in {"ok", "cached"}
          /\ \/ stepPc'[n] = "finished" /\ result'[n] = result[n]
             \/ stepPc'[n] = "raised" /\ result'[n] = "failed"
      BY <2>2 DEF Store, Goto, Ends, WaveInv, WaveTypes, ResultsFit
    <3> QED BY <3>1 DEF Became
  <2> QED BY <2>1, <2>2
<1>6. result[n] = "cancelled" => cancel
  BY DEF WaveInv, BlameFits
<1>7. CASE Became(n)' = "doing"
  <2>1. NodeMap' = NodeMap
    BY <1>1, <1>4, <1>7, BecameReads DEF NodeMap
  <2> QED BY <1>2, <2>1 DEF Plan!vars
<1>8. CASE Became(n)' # "doing"
  <2>1. PICK how \in {"good", "bad", "dropped"} : how = Became(n)'
    BY <1>5, <1>8
  <2>2. Plan!Finish(n, how)
    BY <1>1, <1>2, <1>4, <1>5, <1>6, <2>1, BecameReads DEF Plan!Finish
  <2> QED BY <2>2
<1> QED BY <1>7, <1>8

LEMMA InnerSteps ==
    ASSUME WaveInv, NEW n \in Nodes,
           \/ Gather(n) \/ CacheHit(n) \/ CacheMiss(n) \/ EnterSlot(n) \/ BeginBody(n)
           \/ BeginItem(n) \/ EndItem(n) \/ Falters(n) \/ Retry(n) \/ EndBody(n) \/ StartStep(n)
           \/ Progress(n)
    PROVE  UNCHANGED Plan!vars
<1>1. UNCHANGED <<edges, ~concurrent, userCancel, cancel, outcome>>
  BY DEF Gather, CacheHit, CacheMiss, EnterSlot, BeginBody, BeginItem, EndItem, Falters, Retry, EndBody,
         StartStep, Progress, restVars, mainVars, flagVars
<1>2. \A m \in Nodes \ {n} : stepPc'[m] = stepPc[m] /\ result'[m] = result[m]
  BY DEF Gather, CacheHit, CacheMiss, EnterSlot, BeginBody, BeginItem, EndItem, Falters, Retry, EndBody,
         StartStep, Progress, Goto, Ends, stepVars, WaveInv, WaveTypes
<1>3. Became(n)' = Became(n)
  <2>1. CASE StartStep(n)
    BY <2>1 DEF StartStep, Ready, Became, WaveInv, WaveTypes
  <2>2. CASE Progress(n)
    BY <2>2 DEF Progress, Became, stepVars
  <2>3. CASE ~StartStep(n) /\ ~Progress(n)
    <3>1. stepPc[n] \in UnderWay /\ stepPc'[n] \in UnderWay
      BY <2>3 DEF Gather, CacheHit, CacheMiss, EnterSlot, BeginBody, BeginItem, EndItem, Falters, Retry,
                  EndBody, Goto, stepVars, UnderWay, InBody, WaveInv, WaveTypes
    <3> QED BY <3>1 DEF Became, UnderWay, InBody
  <2> QED BY <2>1, <2>2, <2>3
<1>4. NodeMap' = NodeMap
  BY <1>2, <1>3, OneMoves DEF NodeMap
<1> QED BY <1>1, <1>4 DEF Plan!vars

(* The first failure of a pool raises the flag. *)
LEMMA CollectRefines ==
    ASSUME WaveInv, FlowInv, NEW n \in Nodes, Collect(n)
    PROVE  Plan!Halt \/ UNCHANGED Plan!vars
<1>1. UNCHANGED <<edges, ~concurrent, userCancel, outcome>> /\ result' = result
  BY DEF Collect, restVars
<1>2. \A m \in Nodes \ {n} : stepPc'[m] = stepPc[m] /\ result'[m] = result[m]
  BY <1>1 DEF Collect, WaveInv, WaveTypes
<1>3. Became(n)' = Became(n)
  BY <1>1 DEF Collect, Became, WaveInv, WaveTypes
<1>4. NodeMap' = NodeMap
  BY <1>2, <1>3, OneMoves DEF NodeMap
<1>5. CASE cancel' = cancel
  BY <1>1, <1>4, <1>5 DEF Plan!vars
<1>6. CASE cancel' # cancel
  <2>1. stepPc[n] = "raised" /\ Pooled /\ cancel' = TRUE /\ ~cancel
    BY <1>6 DEF Collect, FlowInv, RestTypes
  <2>2. result[n] = "failed"
    BY <2>1 DEF WaveInv, ResultsFit, BlameFits
  <2>3. NodeMap[n] = "bad"
    BY <2>1, <2>2 DEF NodeMap, Became
  <2>4. concurrent
    BY <2>1 DEF Pooled, WaveInv, SerialInLine
  <2> QED BY <1>1, <1>4, <2>1, <2>3, <2>4 DEF Plan!Halt
<1> QED BY <1>5, <1>6

(* The verdict is given when no node is under way, on the first exception.    *)
LEMMA EndRefines ==
    ASSUME WaveInv, FlowInv, EndWave \/ Complete
    PROVE  (\E how \in Plan!Ends : Plan!End(how)) \/ UNCHANGED Plan!vars
<1>1. UNCHANGED <<edges, ~concurrent, userCancel, cancel>> /\ UNCHANGED <<stepPc, result>>
  BY DEF EndWave, Complete, stepVars, flagVars, restVars
<1>2. NodeMap' = NodeMap
  BY <1>1 DEF NodeMap, Became
<1>3. outcome = "none"
  BY DEF EndWave, Complete, WaveInv, OutcomeFits
<1>4. \A n \in Nodes : stepPc[n] \in {"waiting", "ready", "collected"}
  <2>1. CASE Complete
    BY <2>1 DEF Complete, WaveInv, WaveTypes, PlanKept
  <2>2. CASE EndWave
    <3>1. \A n \in wave : stepPc[n] \in {"ready", "collected"}
      BY <2>2 DEF EndWave, WaveInv, OneInLine
    <3> QED BY <2>2, <3>1 DEF EndWave, WaveInv, PlanKept
  <2> QED BY <2>1, <2>2
<1>5. \A n \in Nodes : NodeMap[n] # "doing"
  BY <1>4, BecameReads DEF UnderWay, InBody
<1>6. CASE Complete
  <2>1. \A n \in Nodes : NodeMap[n] = "good"
    BY <1>6, BecameReads DEF Complete, WaveInv, WaveTypes, PlanKept
  <2>2. Plan!End("COMPLETED")
    BY <1>1, <1>2, <1>3, <1>5, <1>6, <2>1 DEF Plan!End, Complete
  <2> QED BY <2>2 DEF Plan!Ends
<1>7. CASE EndWave /\ failure = "none"
  <2>1. UNCHANGED outcome
    BY <1>7 DEF EndWave
  <2> QED BY <1>1, <1>2, <2>1 DEF Plan!vars
<1>8. CASE EndWave /\ failure = "failed"
  <2>1. \E n \in Nodes : NodeMap[n] = "bad"
    BY <1>8, BecameReads DEF WaveInv, BlameFits
  <2>2. outcome' = "FAILED"
    BY <1>8 DEF EndWave, Fail
  <2>3. Plan!End("FAILED")
    BY <1>1, <1>2, <1>3, <1>5, <2>1, <2>2 DEF Plan!End
  <2> QED BY <2>3 DEF Plan!Ends
<1>9. CASE EndWave /\ failure = "cancelled"
  <2>1. userCancel
    BY <1>9 DEF WaveInv, BlameFits
  <2>2. outcome' = "CANCELLED"
    BY <1>9 DEF EndWave, Fail
  <2>3. Plan!End("CANCELLED")
    BY <1>1, <1>2, <1>3, <1>5, <2>1, <2>2 DEF Plan!End
  <2> QED BY <2>3 DEF Plan!Ends
<1> QED BY <1>6, <1>7, <1>8, <1>9 DEF WaveInv, WaveTypes

LEMMA OthersRefine ==
    ASSUME WaveInv, PlanWave \/ Pause \/ Resume \/ Cancel \/ UNCHANGED vars
    PROVE  Plan!Stop \/ UNCHANGED Plan!vars
<1>1. UNCHANGED <<edges, ~concurrent, outcome>> /\ UNCHANGED result
  BY DEF PlanWave, Pause, Resume, Cancel, vars, restVars, stepVars, mainVars
<1>2. NodeMap' = NodeMap
  <2>1. \A n \in Nodes : Became(n)' = Became(n)
    <3>1. CASE PlanWave
      <4>1. \A n \in Nodes : \/ stepPc'[n] = stepPc[n]
                             \/ n \in NextWave(settled) /\ stepPc'[n] = "ready"
        <5>1. PICK w : w = wave'
          OBVIOUS
        <5>2. w = NextWave(settled)
          BY <3>1, <5>1 DEF PlanWave
        <5>3. stepPc' = [n \in Nodes |-> IF n \in w THEN "ready" ELSE stepPc[n]]
          BY <3>1, <5>1 DEF PlanWave
        <5>4. \A n \in Nodes : stepPc'[n] = stepPc[n] \/ (n \in w /\ stepPc'[n] = "ready")
          BY <5>3
        <5> QED BY <5>2, <5>4
      <4>2. \A n \in NextWave(settled) : stepPc[n] = "waiting"
        BY <3>1 DEF PlanWave, NextWave, WaveInv, PlanKept
      <4> QED BY <1>1, <4>1, <4>2 DEF Became
    <3>2. CASE ~PlanWave
      BY <3>2 DEF Pause, Resume, Cancel, vars, stepVars, Became
    <3> QED BY <3>1, <3>2
  <2> QED BY <2>1 DEF NodeMap
<1>3. CASE Cancel
  BY <1>1, <1>2, <1>3 DEF Cancel, Plan!Stop
<1>4. CASE ~Cancel
  BY <1>1, <1>2, <1>4 DEF PlanWave, Pause, Resume, vars, flagVars, Plan!vars
<1> QED BY <1>3, <1>4

(* The waves, the pool, the futures, the flags and the slots run the plan as  *)
(* a user thinks of it: node by node, each once, behind its inputs, none      *)
(* after a Stop, with a verdict that says what happened (_run_steps,          *)
(* _run_step, _execute).                                                      *)
THEOREM PlanRefinement == Spec => ImplementsPlan
<1>1. Init => Plan!Init
  <2> SUFFICES ASSUME Init PROVE Plan!Init
    OBVIOUS
  <2>1. NodeMap = [n \in Nodes |-> "todo"]
    BY DEF Init, NodeMap, Became
  <2>2. (~concurrent) \in BOOLEAN
    OBVIOUS
  <2> QED BY <2>1, <2>2 DEF Init, Plan!Init
<1>2. WaveInv /\ SlotsInv /\ FlowInv /\ [Next]_vars => [Plan!Next]_(Plan!vars)
  <2> SUFFICES ASSUME WaveInv, SlotsTypeOK, FlowInv, [Next]_vars PROVE [Plan!Next]_(Plan!vars)
    BY DEF SlotsInv
  <2>1. ASSUME NEW n \in Nodes, PassPause(n) PROVE Plan!Next
    BY <2>1, PassRefines DEF Plan!Next
  <2>2. ASSUME NEW n \in Nodes, LeaveSlot(n) \/ Store(n) PROVE [Plan!Next]_(Plan!vars)
    BY <2>2, LeavesRefine DEF Plan!Next
  <2>3. ASSUME NEW n \in Nodes, Step(n), ~PassPause(n), ~LeaveSlot(n), ~Store(n)
        PROVE  UNCHANGED Plan!vars
    BY <2>3, InnerSteps DEF Step
  <2>4. ASSUME NEW n \in Nodes, StartStep(n) \/ Progress(n) PROVE UNCHANGED Plan!vars
    BY <2>4, InnerSteps
  <2>5. ASSUME NEW n \in Nodes, Collect(n) PROVE [Plan!Next]_(Plan!vars)
    BY <2>5, CollectRefines DEF Plan!Next
  <2>6. ASSUME EndWave \/ Complete PROVE [Plan!Next]_(Plan!vars)
    BY <2>6, EndRefines DEF Plan!Next
  <2>7. ASSUME PlanWave \/ Pause \/ Resume \/ Cancel \/ UNCHANGED vars
        PROVE  [Plan!Next]_(Plan!vars)
    BY <2>7, OthersRefine DEF Plan!Next
  <2> QED BY <2>1, <2>2, <2>3, <2>4, <2>5, <2>6, <2>7 DEF Next, MainStep, NodeStep
<1> QED BY <1>1, <1>2, FlowHolds, PTL DEF Spec, ImplementsPlan, Plan!Spec
=============================================================================
