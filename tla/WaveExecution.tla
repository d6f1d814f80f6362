--------------------------- MODULE WaveExecution ---------------------------
(* graph/executor.py, RunManager._run_steps and _run_step: one run of a       *)
(* validated plan.  The executing thread plans one dependency wave at a time  *)
(* (graph/scheduler.py, execution_waves, plan_concurrency) and runs it either *)
(* in line or on a thread pool; each step waits while the run is paused,      *)
(* gathers its inputs, looks in the cache, passes DeviceScheduler.slot() and  *)
(* stores what it produced.  Nodes are numbered by their place in the plan.   *)
EXTENDS DeviceScheduler, FiniteSetsExt

CONSTANTS
    Graphs,         \* the edge sets explored: pairs <<source, target>>, acyclic
    Batched,        \* the nodes with a list on an input: they are mapped over it
    ListLength,     \* the length of these lists
    RetryLimit,     \* settings.runtime.node_retry_limit
    NoNode

ASSUME NodesAssumption ==
    /\ Callers \subseteq Nat /\ NoNode \notin Callers /\ Batched \subseteq Callers
    /\ ListLength \in Nat \ {0} /\ RetryLimit \in Nat

(* execution_waves raises DependencyCycle for any other graph.                *)
ASSUME GraphsAssumption ==
    \A g \in Graphs : \A S \in (SUBSET Callers) \ {{}} :
        \E n \in S : \A s \in S \ {n} : <<s, n>> \notin g

Nodes == Callers

VARIABLES
    concurrent, \* concurrency_enabled(): LLUNA_GRAPH_CONCURRENCY is not 0
    edges,      \* the edges between active nodes
    settled,    \* nodes of the waves already run
    wave,       \* nodes of the wave being run
    workers,    \* max_workers of the wave's pool; 1 when it runs in line
    mainPc,     \* the executing thread: planning, inWave, ended
    stepPc,     \* where each node's step is
    result,     \* how each step ended: none, ok, cached, failed, cancelled
    seen,       \* the sources whose output a step gathered
    values,     \* nodes whose output is stored
    items,      \* of a node mapped over a list: its items left, else 0
    attempts,   \* retries of the worker job of the node's present item
    nodeState,  \* snapshot.nodes[n].status
    current,    \* snapshot.current_node_id
    failure,    \* the first exception _run_steps met: none, failed, cancelled
    pause,      \* control.pause
    cancel,     \* control.cancel
    userCancel, \* somebody pressed Stop (the flag may also be set by a failure)
    outcome     \* none, or the run's COMPLETED, FAILED, CANCELLED

stepVars == <<stepPc, result, seen, values>>
mainVars == <<settled, wave, workers, mainPc, failure, outcome>>
flagVars == <<pause, cancel, userCancel>>
bodyVars == <<items, attempts>>
shownVars == <<nodeState, current>>
restVars == <<concurrent, edges, bodyVars, shownVars>>
vars == <<schedVars, restVars, stepVars, mainVars, flagVars>>

(* waiting: in no wave yet; ready: handed to the pool or next in line;        *)
(* entering: taken by a thread, at _wait_if_paused; gathering; lookup;        *)
(* atSlot: blocked in, or in, slot(); running: in _run_node; between: before  *)
(* the next item of a list; retrying: asleep before the next attempt;         *)
(* leaving: out of the body; storing; raised, finished: the future is done;   *)
(* collected.                                                                 *)
InBody == {"running", "between", "retrying"}
StepPcs == {"waiting", "ready", "entering", "gathering", "lookup", "atSlot",
            "leaving", "storing", "raised", "finished", "collected"} \cup InBody
Results == {"none", "ok", "cached", "failed", "cancelled"}

Active == {n \in Nodes : stepPc[n] \notin {"waiting", "ready", "raised", "finished", "collected"}}
Ready == {n \in Nodes : stepPc[n] = "ready"}

(* dependencies(): sources outside the active set and self edges are ignored  *)
Deps(n) == {s \in Nodes : <<s, n>> \in edges /\ s # n}

(* Seeded bug: a node is due once any of its dependencies is settled.         *)
NextWave_AnyDependency(done) ==
    {n \in Nodes \ done : Deps(n) = {} \/ Deps(n) \cap done # {}}

(* One turn of the loop of execution_waves, given the waves settled so far.   *)
NextWave(done) == {n \in Nodes \ done : Deps(n) \subseteq done}

(* plan_concurrency: the light nodes are not capped by the light slots.       *)
PlanConcurrency(w) ==
    Max({1, Min({Cardinality(w),
                 Min({Cardinality(w \cap Heavy), HeavyCapacity}) + Cardinality(w \ Heavy)})})

Pooled == workers > 1 /\ Cardinality(wave) > 1

Init ==
    /\ InitScheduler
    /\ edges \in Graphs /\ concurrent \in BOOLEAN
    /\ settled = {} /\ wave = {} /\ workers = 1
    /\ mainPc = "planning"
    /\ stepPc = [n \in Nodes |-> "waiting"]
    /\ result = [n \in Nodes |-> "none"]
    /\ seen = [n \in Nodes |-> {}]
    /\ values = {}
    /\ items = [n \in Nodes |-> 0] /\ attempts = [n \in Nodes |-> 0]
    /\ nodeState = [n \in Nodes |-> "IDLE"] /\ current = NoNode
    /\ failure = "none" /\ outcome = "none"
    /\ pause = FALSE /\ cancel = FALSE /\ userCancel = FALSE

-----------------------------------------------------------------------------
(* The executing thread *)

(* for wave in waves: ...; the steps are submitted, or walked in plan order   *)
PlanWave ==
    /\ mainPc = "planning"
    /\ settled # Nodes
    /\ wave' = NextWave(settled)
    /\ workers' = IF concurrent THEN PlanConcurrency(wave') ELSE 1
    /\ stepPc' = [n \in Nodes |-> IF n \in wave' THEN "ready" ELSE stepPc[n]]
    /\ mainPc' = "inWave"
    /\ UNCHANGED <<schedVars, restVars, result, seen, values, settled, failure, outcome, flagVars>>

(* A thread takes the first step still to run: any of the pool's, or the      *)
(* executing thread itself once the step before is over.                      *)
StartStep(n) ==
    /\ mainPc = "inWave"
    /\ n \in Ready /\ \A k \in Ready : n <= k
    /\ IF Pooled THEN Cardinality(Active) < workers
                 ELSE failure = "none" /\ \A k \in wave : stepPc[k] \in {"ready", "collected"}
    /\ stepPc' = [stepPc EXCEPT ![n] = "entering"]
    /\ UNCHANGED <<schedVars, restVars, result, seen, values, mainVars, flagVars>>

(* Seeded bug: each exception replaces the one before.                        *)
Collect_LastWins(n) ==
    /\ mainPc = "inWave"
    /\ stepPc[n] \in {"raised", "finished"}
    /\ stepPc' = [stepPc EXCEPT ![n] = "collected"]
    /\ IF stepPc[n] = "raised"
       THEN failure' = result[n] /\ cancel' = (cancel \/ Pooled)
       ELSE UNCHANGED <<failure, cancel>>
    /\ UNCHANGED <<schedVars, restVars, result, seen, values, settled, wave, workers,
                   mainPc, outcome, pause, userCancel>>

(* future.result() for one finished future, in the order they finish: the     *)
(* first exception is kept and raises the cancel flag.  In line, the call     *)
(* returned or raised, and no flag is set.                                    *)
Collect(n) ==
    /\ mainPc = "inWave"
    /\ stepPc[n] \in {"raised", "finished"}
    /\ stepPc' = [stepPc EXCEPT ![n] = "collected"]
    /\ IF stepPc[n] = "raised" /\ failure = "none"
       THEN failure' = result[n] /\ cancel' = (cancel \/ Pooled)
       ELSE UNCHANGED <<failure, cancel>>
    /\ UNCHANGED <<schedVars, restVars, result, seen, values, settled, wave, workers,
                   mainPc, outcome, pause, userCancel>>

(* _execute: the node that changed its state last gets the blame.             *)
Fail ==
    LET ended == IF failure = "cancelled" THEN "CANCELLED" ELSE "FAILED" IN
    /\ outcome' = ended
    /\ nodeState' = [n \in Nodes |-> IF n = current THEN ended ELSE nodeState[n]]
    /\ UNCHANGED current

(* Seeded bug: the pool is not joined once a failure is known.                *)
EndWave_NoJoin ==
    /\ mainPc = "inWave"
    /\ (\A n \in wave : stepPc[n] = "collected") \/ failure # "none"
    /\ settled' = settled \cup wave
    /\ wave' = {}
    /\ IF failure = "none"
       THEN mainPc' = "planning" /\ UNCHANGED <<outcome, shownVars>>
       ELSE mainPc' = "ended" /\ Fail
    /\ UNCHANGED <<schedVars, concurrent, edges, bodyVars, stepVars, workers, failure, flagVars>>

(* The with block of the pool waits for every future; in line an exception    *)
(* leaves the rest of the wave unstarted.                                     *)
EndWave ==
    /\ mainPc = "inWave"
    /\ \/ \A n \in wave : stepPc[n] = "collected"
       \/ ~Pooled /\ failure # "none"
    /\ settled' = settled \cup wave
    /\ wave' = {}
    /\ IF failure = "none"
       THEN mainPc' = "planning" /\ UNCHANGED <<outcome, shownVars>>
       ELSE mainPc' = "ended" /\ Fail
    /\ UNCHANGED <<schedVars, concurrent, edges, bodyVars, stepVars, workers, failure, flagVars>>

(* After the last wave _execute reports COMPLETED.                            *)
Complete ==
    /\ mainPc = "planning"
    /\ settled = Nodes
    /\ mainPc' = "ended"
    /\ outcome' = "COMPLETED"
    /\ UNCHANGED <<schedVars, restVars, stepVars, settled, wave, workers, failure, flagVars>>

-----------------------------------------------------------------------------
(* A step: _run_step *)

Goto(n, pc) == stepPc' = [stepPc EXCEPT ![n] = pc]
Ends(n, r) == result' = [result EXCEPT ![n] = r]

(* Seeded bug: the cancel flag is read in the slot only.                      *)
PassPause_NoCheck(n) ==
    /\ stepPc[n] = "entering"
    /\ ~pause \/ cancel
    /\ Goto(n, "gathering")
    /\ UNCHANGED <<schedVars, restVars, result, seen, values, mainVars, flagVars>>

(* Seeded bug: the wait on the pause gate does not look at the cancel flag.   *)
PassPause_DeafToCancel(n) ==
    /\ stepPc[n] = "entering"
    /\ ~pause
    /\ IF cancel THEN Goto(n, "raised") /\ Ends(n, "cancelled")
                 ELSE Goto(n, "gathering") /\ UNCHANGED result
    /\ UNCHANGED <<schedVars, restVars, seen, values, mainVars, flagVars>>

(* _wait_if_paused returns, then the cancel flag is read.                     *)
PassPause(n) ==
    /\ stepPc[n] = "entering"
    /\ ~pause \/ cancel
    /\ IF cancel THEN Goto(n, "raised") /\ Ends(n, "cancelled")
                 ELSE Goto(n, "gathering") /\ UNCHANGED result
    /\ UNCHANGED <<schedVars, restVars, seen, values, mainVars, flagVars>>

(* Under values_lock: the outputs present are gathered, the absent skipped.   *)
Gather(n) ==
    /\ stepPc[n] = "gathering"
    /\ seen' = [seen EXCEPT ![n] = {s \in Nodes : <<s, n>> \in edges /\ s \in values}]
    /\ Goto(n, "lookup")
    /\ UNCHANGED <<schedVars, restVars, result, values, mainVars, flagVars>>

Shows(n, state) == nodeState' = [nodeState EXCEPT ![n] = state] /\ current' = n

(* A hit whose artifact still exists skips the slot; anything else runs.      *)
CacheHit(n) ==
    /\ stepPc[n] = "lookup"
    /\ Goto(n, "storing") /\ Ends(n, "cached") /\ Shows(n, "CACHED")
    /\ UNCHANGED <<schedVars, concurrent, edges, bodyVars, seen, values, mainVars, flagVars>>

CacheMiss(n) ==
    /\ stepPc[n] = "lookup"
    /\ Goto(n, "atSlot")
    /\ UNCHANGED <<schedVars, restVars, result, seen, values, mainVars, flagVars>>

EnterSlot(n) ==
    /\ stepPc[n] = "atSlot"
    /\ AcquireHeavy(n) \/ TakeDevice(n) \/ AcquireLight(n)
    /\ UNCHANGED <<restVars, stepVars, mainVars, flagVars>>

(* Seeded bug: the node is marked RUNNING without becoming the current one.   *)
BeginBody_NotCurrent(n) ==
    /\ stepPc[n] = "atSlot"
    /\ slotPc[n] \in {"onDevice", "onCpu"}
    /\ IF cancel
       THEN Goto(n, "leaving") /\ Ends(n, "cancelled") /\ UNCHANGED <<bodyVars, shownVars>>
       ELSE /\ IF n \in Batched
               THEN items' = [items EXCEPT ![n] = ListLength] /\ Goto(n, "between")
               ELSE Goto(n, "running") /\ UNCHANGED items
            /\ nodeState' = [nodeState EXCEPT ![n] = "RUNNING"]
            /\ UNCHANGED <<attempts, result, current>>
    /\ UNCHANGED <<schedVars, concurrent, edges, seen, values, mainVars, flagVars>>

(* In the slot the cancel flag is read again; then _run_node, or              *)
(* _run_batch_node when an input is a list.                                   *)
BeginBody(n) ==
    /\ stepPc[n] = "atSlot"
    /\ slotPc[n] \in {"onDevice", "onCpu"}
    /\ IF cancel
       THEN Goto(n, "leaving") /\ Ends(n, "cancelled") /\ UNCHANGED <<bodyVars, shownVars>>
       ELSE /\ IF n \in Batched
               THEN items' = [items EXCEPT ![n] = ListLength] /\ Goto(n, "between")
               ELSE Goto(n, "running") /\ UNCHANGED items
            /\ Shows(n, "RUNNING")
            /\ UNCHANGED <<attempts, result>>
    /\ UNCHANGED <<schedVars, concurrent, edges, seen, values, mainVars, flagVars>>

(* Before each item of a list, in the slot: the pause gate and the flag.      *)
BeginItem(n) ==
    /\ stepPc[n] = "between"
    /\ ~pause \/ cancel
    /\ IF cancel THEN Goto(n, "leaving") /\ Ends(n, "cancelled")
                 ELSE Goto(n, "running") /\ UNCHANGED result
    /\ UNCHANGED <<schedVars, restVars, seen, values, mainVars, flagVars>>

EndItem(n) ==
    /\ stepPc[n] = "running" /\ items[n] > 1
    /\ items' = [items EXCEPT ![n] = @ - 1]
    /\ attempts' = [attempts EXCEPT ![n] = 0]
    /\ Goto(n, "between")
    /\ UNCHANGED <<schedVars, concurrent, edges, shownVars, result, seen, values, mainVars, flagVars>>

(* _invoke_worker: after a crash, a timeout or a refusal of its worker the    *)
(* job is sent again a second later, unless the run was stopped before.       *)
Falters(n) ==
    /\ stepPc[n] = "running" /\ n \in Heavy
    /\ ~cancel /\ attempts[n] < RetryLimit
    /\ attempts' = [attempts EXCEPT ![n] = @ + 1]
    /\ Goto(n, "retrying")
    /\ UNCHANGED <<schedVars, concurrent, edges, items, shownVars, result, seen, values, mainVars,
                   flagVars>>

Retry(n) ==
    /\ stepPc[n] = "retrying"
    /\ Goto(n, "running")
    /\ UNCHANGED <<schedVars, restVars, result, seen, values, mainVars, flagVars>>

(* A report of progress sets the node's state once more.                      *)
Progress(n) ==
    /\ stepPc[n] = "running" /\ current # n
    /\ Shows(n, "RUNNING")
    /\ UNCHANGED <<schedVars, concurrent, edges, bodyVars, stepVars, mainVars, flagVars>>

(* _run_node returns or raises; it gives up as CANCELLED only under the flag. *)
EndBody(n) ==
    /\ stepPc[n] = "running"
    /\ \/ items[n] <= 1 /\ Ends(n, "ok") /\ Shows(n, "SUCCEEDED")
       \/ Ends(n, "failed") /\ UNCHANGED shownVars
       \/ cancel /\ Ends(n, "cancelled") /\ UNCHANGED shownVars
    /\ Goto(n, "leaving")
    /\ UNCHANGED <<schedVars, concurrent, edges, bodyVars, seen, values, mainVars, flagVars>>

LeaveSlot(n) ==
    /\ stepPc[n] = "leaving"
    /\ ReturnDevice(n) \/ ReleaseHeavy(n) \/ ReleaseLight(n)
    /\ Goto(n, IF slotPc'[n] # "outside" THEN "leaving"
               ELSE IF result[n] = "ok" THEN "storing" ELSE "raised")
    /\ UNCHANGED <<restVars, result, seen, values, mainVars, flagVars>>

(* Outputs are stored under values_lock; then the cache is saved, which may   *)
(* raise with the output already visible.                                     *)
Store(n) ==
    /\ stepPc[n] = "storing"
    /\ values' = values \cup {n}
    /\ \/ Goto(n, "finished") /\ UNCHANGED result
       \/ Goto(n, "raised") /\ Ends(n, "failed")
    /\ UNCHANGED <<schedVars, restVars, seen, mainVars, flagVars>>

Step(n) ==
    \/ PassPause(n) \/ Gather(n) \/ CacheHit(n) \/ CacheMiss(n) \/ EnterSlot(n)
    \/ BeginBody(n) \/ BeginItem(n) \/ EndItem(n) \/ Falters(n) \/ Retry(n) \/ EndBody(n)
    \/ LeaveSlot(n) \/ Store(n)

-----------------------------------------------------------------------------
(* The flags, as RunManager.pause, resume and cancel set them *)

Pause ==
    /\ outcome = "none" /\ ~pause
    /\ pause' = TRUE
    /\ UNCHANGED <<schedVars, restVars, stepVars, mainVars, cancel, userCancel>>

Resume ==
    /\ pause
    /\ pause' = FALSE
    /\ UNCHANGED <<schedVars, restVars, stepVars, mainVars, cancel, userCancel>>

Cancel ==
    /\ outcome = "none" /\ ~userCancel
    /\ cancel' = TRUE /\ userCancel' = TRUE
    /\ UNCHANGED <<schedVars, restVars, stepVars, mainVars, pause>>

MainStep == PlanWave \/ (\E n \in Nodes : Collect(n)) \/ EndWave \/ Complete
NodeStep == \E n \in Nodes : StartStep(n) \/ Step(n) \/ Progress(n)
Next == MainStep \/ NodeStep \/ Pause \/ Resume \/ Cancel

Spec == Init /\ [][Next]_vars

(* Threads run; bodies end: a worker job that goes silent is killed by the    *)
(* client's watchdog, the rest is plain computation.  Nobody has to resume.   *)
Fairness ==
    /\ WF_vars(PlanWave) /\ WF_vars(EndWave) /\ WF_vars(Complete)
    /\ \A n \in Nodes : WF_vars(Collect(n)) /\ WF_vars(StartStep(n)) /\ WF_vars(Step(n))

FairSpec == Spec /\ Fairness

-----------------------------------------------------------------------------
(* Properties *)

TypeOK ==
    /\ SlotsTypeOK
    /\ edges \in Graphs
    /\ settled \subseteq Nodes /\ wave \subseteq Nodes /\ workers \in Nat \ {0}
    /\ mainPc \in {"planning", "inWave", "ended"}
    /\ stepPc \in [Nodes -> StepPcs]
    /\ result \in [Nodes -> Results]
    /\ seen \in [Nodes -> SUBSET Nodes]
    /\ values \subseteq Nodes
    /\ failure \in {"none", "failed", "cancelled"}
    /\ outcome \in {"none", "COMPLETED", "FAILED", "CANCELLED"}
    /\ {concurrent, pause, cancel, userCancel} \subseteq BOOLEAN
    /\ items \in [Nodes -> 0..ListLength] /\ attempts \in [Nodes -> 0..RetryLimit]
    /\ nodeState \in [Nodes -> {"IDLE", "RUNNING", "CACHED", "SUCCEEDED", "FAILED", "CANCELLED"}]
    /\ current \in Nodes \cup {NoNode}

(* A step that goes past gathering saw the output of every node it depends    *)
(* on: absent sources are skipped silently by _run_step, so only the waves    *)
(* keep a node from running on part of its inputs.                            *)
InputsComplete ==
    \A n \in Nodes :
        stepPc[n] \in {"lookup", "atSlot", "storing", "finished"} \cup InBody
            => Deps(n) \subseteq seen[n]

(* The run says what happened: COMPLETED only with every output stored,       *)
(* FAILED only after a step failed, and CANCELLED only when somebody asked,   *)
(* although a failure raises the very flag that Stop raises.                  *)
HonestOutcome ==
    /\ outcome = "COMPLETED" => values = Nodes /\ \A n \in Nodes : result[n] \in {"ok", "cached"}
    /\ outcome = "FAILED" => \E n \in Nodes : result[n] = "failed"
    /\ outcome = "CANCELLED" => userCancel

(* Between waves and after the run no step is under way and every slot is     *)
(* back, so heavy_capacity (which counts free devices) is the true capacity   *)
(* whenever plan_concurrency reads it, and a finished run holds no device.    *)
QuietBetweenWaves ==
    mainPc # "inWave" => Active = {} /\ HeavyCapacity = Len(HeavyDevices)

(* LLUNA_GRAPH_CONCURRENCY=0 "restores strictly serial runs": one step at a   *)
(* time, and none after a failure.                                            *)
StrictlySerial ==
    ~concurrent => /\ Cardinality(Active) <= 1
                    /\ failure # "none" => Active = {}

(* A run that failed in line blames the node that failed, no other, and none  *)
(* is left RUNNING, although _execute only knows which node changed its state *)
(* last (two branches at once may be confused); one that is COMPLETED shows   *)
(* every node as done.                                                        *)
BlamesTheRightNode ==
    /\ outcome = "COMPLETED" => \A n \in Nodes : nodeState[n] \in {"SUCCEEDED", "CACHED"}
    /\ outcome # "none" /\ workers = 1 =>
           \A n \in Nodes : /\ nodeState[n] # "RUNNING"
                            /\ nodeState[n] = "FAILED" <=> result[n] = "failed"

(* A step not yet past its gate when the flag is up never runs, fails or      *)
(* serves a cached output, and one between two items starts no other item: it *)
(* stays where it is or ends as cancelled.                                    *)
AtGate == {"waiting", "ready", "entering", "between"}
StopsOthers ==
    [][\A n \in Nodes : cancel /\ stepPc[n] \in AtGate
                            => stepPc'[n] \in AtGate \/ result'[n] = "cancelled"]_vars

(* Unless the run is paused and not stopped, some thread can go on: the waves *)
(* of a graph never run dry, whoever a step waits for at its slot can go on   *)
(* itself, and a failure in one branch releases those at the pause gate.      *)
SlotFree(n) == IF n \in Heavy THEN heavySem > 0 ELSE lightSem > 0
GateOpen == ~pause \/ cancel
CanGoOn(n) ==
    \/ stepPc[n] \in {"gathering", "lookup", "running", "retrying", "storing", "raised", "finished"}
    \/ stepPc[n] \in {"entering", "between"} /\ GateOpen
    \/ stepPc[n] = "atSlot" /\ (slotPc[n] = "outside" => SlotFree(n))
                           /\ (slotPc[n] = "admitted" => freeDevices # <<>>)
    \/ stepPc[n] = "leaving" /\ slotPc[n] \in {"onDevice", "returned", "onCpu"}
MayStart(n) ==
    /\ n \in Ready /\ \A k \in Ready : n <= k
    /\ IF Pooled THEN Cardinality(Active) < workers
                 ELSE failure = "none" /\ \A k \in wave : stepPc[k] \in {"ready", "collected"}
WaveOver == (\A n \in wave : stepPc[n] = "collected") \/ (~Pooled /\ failure # "none")

NeverStuck ==
    outcome = "none" /\ GateOpen =>
        \/ mainPc = "planning" /\ (settled # Nodes => NextWave(settled) # {})
        \/ mainPc = "inWave" /\ (WaveOver \/ \E n \in Nodes : CanGoOn(n) \/ MayStart(n))

(* Refinement of PlanRun: a node is begun when it is past its gate and the    *)
(* flag behind it, and done when its future is.                               *)
Became(n) ==
    IF stepPc[n] \in {"waiting", "ready", "entering"} THEN "todo"
    ELSE IF stepPc[n] \notin {"raised", "finished", "collected"} THEN "doing"
    ELSE IF result[n] = "failed" THEN "bad"
    ELSE IF result[n] = "cancelled" THEN "dropped"
    ELSE "good"

NodeMap == [n \in Nodes |-> Became(n)]

Plan == INSTANCE PlanRun WITH
    Plans <- Graphs,
    plan <- edges,
    strict <- ~concurrent,
    node <- NodeMap,
    asked <- userCancel,
    halted <- cancel,
    over <- outcome

(* The waves, the pool, the flags and the slots together run the plan as it   *)
(* was promised.                                                              *)
ImplementsPlan == Plan!Spec

(* A run that is not left paused ends, and Stop ends it even then: no step    *)
(* waits for ever at a slot, and a failure in one branch releases those that  *)
(* wait on the pause gate.                                                    *)
RunEnds == <>[]~pause \/ <>userCancel => <>(outcome # "none")
=============================================================================
