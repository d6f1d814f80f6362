----------------------------- MODULE RunManager -----------------------------
(* graph/executor.py, class RunManager: the queue of runs, the dispatcher     *)
(* thread that executes one at a time, and the calls of the API on a run      *)
(* (start, pause, resume, cancel, shutdown).  Each lock region is one action, *)
(* so a call that sets a flag and then takes a lock is two.  The steps of the *)
(* active run are walked in line; their pool is the subject of WaveExecution. *)
EXTENDS Integers, FiniteSets

CONSTANTS
    Runs,           \* run identifiers
    HistoryLimit,   \* run_history_limit
    MaxSteps,       \* bound: steps of a plan
    MaxCalls,       \* bound: pause, resume and cancel calls in a behaviour
    NoRun

ASSUME RunsAssumption == IsFiniteSet(Runs) /\ NoRun \notin Runs
ASSUME LimitAssumption == HistoryLimit \in Nat \ {0}
ASSUME StepsAssumption == MaxSteps \in Nat \ {0}
ASSUME CallsAssumption == MaxCalls \in Nat

VARIABLES
    registered,     \* keys of _runs
    status,         \* snapshot.status; "NONE" before start()
    completedAt,    \* snapshot.completed_at; 0 for None
    clock,          \* the last datetime.now() written as a completed_at
    position,       \* snapshot.queue_position; 0 for None
    pause, cancel,  \* the events of each _RunControl
    queue,          \* the heap _queue: <<priority, sequence, run>>
    sequence,       \* _queue_sequence
    active,         \* _active_run_id
    shutdown,       \* _shutdown
    dispatcher,     \* where the dispatcher thread is
    steps,          \* steps the active run still has to walk
    verdict,        \* how the active run's _run_steps ended
    calls,          \* pause, resume and cancel calls so far
    call            \* the API call under way on each run, between two of its locks

stampVars == <<completedAt, clock>>
runVars == <<registered, status, stampVars>>
flagVars == <<pause, cancel>>
queueVars == <<queue, sequence>>
execVars == <<steps, verdict>>
vars == <<runVars, position, flagVars, queueVars, active, shutdown, dispatcher, execVars, calls, call>>

Terminal == {"COMPLETED", "FAILED", "CANCELLED"}
Statuses == Terminal \cup
    {"NONE", "QUEUED", "RUNNING", "PAUSE_REQUESTED", "PAUSED", "CANCEL_REQUESTED"}

(* none: no thread; idle: in the loop of _dispatch_loop; popped: in _execute  *)
(* before the status is set; gate, pausing, held: in _wait_if_paused, at the  *)
(* test, past it, and in the wait; check: reads cancel; working: in a step;   *)
(* ending: leaves _run_steps; closing: in the finally; dying: the same, with  *)
(* an exception that nothing catches.                                         *)
DispatcherPcs == {"none", "idle", "popped", "gate", "pausing", "held", "check",
                  "working", "ending", "closing", "dying"}

Before(a, b) == a[1] < b[1] \/ (a[1] = b[1] /\ a[2] < b[2])

(* The entries that count for positions: still registered, not flagged, and   *)
(* shown as QUEUED.                                                           *)
Pending(q, reg, can, st) == {e \in q : e[3] \in reg /\ ~can[e[3]] /\ st[e[3]] = "QUEUED"}

(* Seeded bug: positions by sequence, without the priority.                   *)
Refresh_BySequence(q, reg, can, st) ==
    LET pending == Pending(q, reg, can, st)
        Rank(r) == Cardinality({o \in pending : \E e \in pending : e[3] = r /\ o[2] <= e[2]})
    IN  position' = [r \in Runs |->
            IF r \in reg /\ st[r] = "QUEUED" THEN Rank(r) ELSE position[r]]

(* _refresh_queue_positions_locked, given the queue, the registry, the flags  *)
(* and the statuses it sees: a QUEUED run gets its rank, 0 when not pending.  *)
Refresh(q, reg, can, st) ==
    LET pending == Pending(q, reg, can, st)
        Rank(r) == Cardinality({o \in pending :
                       \E e \in pending : e[3] = r /\ ~Before(e, o)})
    IN  position' = [r \in Runs |->
            IF r \in reg /\ st[r] = "QUEUED" THEN Rank(r) ELSE position[r]]

(* pause() and resume() end with get(), which refreshes unless the run was    *)
(* pruned meanwhile.                                                          *)
RefreshOnGet(r, st) ==
    IF r \in registered THEN Refresh(queue, registered, cancel, st) ELSE UNCHANGED position

(* completed_at = datetime.now(): later than any before it.  Two calls in the *)
(* same microsecond would be told apart by the run's identifier.              *)
Stamp(r) ==
    /\ clock' = clock + 1
    /\ completedAt' = [completedAt EXCEPT ![r] = clock']

Init ==
    /\ registered = {}
    /\ completedAt = [r \in Runs |-> 0] /\ clock = 0
    /\ status = [r \in Runs |-> "NONE"]
    /\ position = [r \in Runs |-> 0]
    /\ pause = [r \in Runs |-> FALSE]
    /\ cancel = [r \in Runs |-> FALSE]
    /\ queue = {} /\ sequence = 0
    /\ active = NoRun
    /\ shutdown = FALSE
    /\ dispatcher = "none"
    /\ steps = 0 /\ verdict = "NONE"
    /\ calls = 0 /\ call = [r \in Runs |-> "none"]

-----------------------------------------------------------------------------
(* The API *)

(* start(), its plan valid and not empty: registered, queued, positions       *)
(* refreshed and a dispatcher ensured under the queue's lock.  The API is     *)
(* closed once shutdown() was called.                                         *)
Start(r, priority) ==
    /\ status[r] = "NONE"
    /\ ~shutdown
    /\ registered' = registered \cup {r}
    /\ status' = [status EXCEPT ![r] = "QUEUED"]
    /\ sequence' = sequence + 1
    /\ queue' = queue \cup {<<priority, sequence', r>>}
    /\ Refresh(queue', registered', cancel, status')
    /\ dispatcher' = IF dispatcher = "none" THEN "idle" ELSE dispatcher
    /\ UNCHANGED <<stampVars, flagVars, active, shutdown, execVars, call, calls>>

(* A pause, resume or cancel call on r reaches the manager.                   *)
Calls(r) ==
    /\ r \in registered /\ call[r] = "none"
    /\ calls < MaxCalls
    /\ calls' = calls + 1

PauseSet(r) ==
    /\ Calls(r)
    /\ pause' = [pause EXCEPT ![r] = TRUE]
    /\ call' = [call EXCEPT ![r] = "pausing"]
    /\ UNCHANGED <<runVars, position, cancel, queueVars, active, shutdown, dispatcher, execVars>>

PauseWrite(r) ==
    /\ call[r] = "pausing"
    /\ status' = IF status[r] = "RUNNING" THEN [status EXCEPT ![r] = "PAUSE_REQUESTED"] ELSE status
    /\ call' = [call EXCEPT ![r] = "none"]
    /\ RefreshOnGet(r, status')
    /\ UNCHANGED <<registered, stampVars, flagVars, queueVars, active, shutdown, dispatcher, execVars, calls>>

(* Seeded bug: resume() clears both events.                                   *)
ResumeClear_AlsoStop(r) ==
    /\ Calls(r)
    /\ pause' = [pause EXCEPT ![r] = FALSE]
    /\ cancel' = [cancel EXCEPT ![r] = FALSE]
    /\ call' = [call EXCEPT ![r] = "resuming"]
    /\ UNCHANGED <<runVars, position, queueVars, active, shutdown, dispatcher, execVars>>

ResumeClear(r) ==
    /\ Calls(r)
    /\ pause' = [pause EXCEPT ![r] = FALSE]
    /\ call' = [call EXCEPT ![r] = "resuming"]
    /\ UNCHANGED <<runVars, position, cancel, queueVars, active, shutdown, dispatcher, execVars>>

(* Seeded bug: resume() writes RUNNING without reading the status.            *)
ResumeWrite_Always(r) ==
    /\ call[r] = "resuming"
    /\ status' = [status EXCEPT ![r] = "RUNNING"]
    /\ call' = [call EXCEPT ![r] = "none"]
    /\ RefreshOnGet(r, status')
    /\ UNCHANGED <<registered, stampVars, flagVars, queueVars, active, shutdown, dispatcher, execVars, calls>>

ResumeWrite(r) ==
    /\ call[r] = "resuming"
    /\ status' = IF status[r] \in {"PAUSED", "PAUSE_REQUESTED"}
                 THEN [status EXCEPT ![r] = "RUNNING"] ELSE status
    /\ call' = [call EXCEPT ![r] = "none"]
    /\ RefreshOnGet(r, status')
    /\ UNCHANGED <<registered, stampVars, flagVars, queueVars, active, shutdown, dispatcher, execVars, calls>>

(* cancel(): the flag first ...                                               *)
CancelSet(r) ==
    /\ Calls(r)
    /\ cancel' = [cancel EXCEPT ![r] = TRUE]
    /\ call' = [call EXCEPT ![r] = "cancelling"]
    /\ UNCHANGED <<runVars, position, pause, queueVars, active, shutdown, dispatcher, execVars>>

(* ... then the status under control.lock, whatever it is by now ...          *)
CancelWrite(r) ==
    /\ call[r] = "cancelling"
    /\ IF status[r] = "QUEUED"
       THEN /\ status' = [status EXCEPT ![r] = "CANCELLED"]
            /\ Stamp(r)
       ELSE /\ status' = [status EXCEPT ![r] = "CANCEL_REQUESTED"]
            /\ UNCHANGED stampVars
    /\ call' = [call EXCEPT ![r] = "refreshing"]
    /\ UNCHANGED <<registered, position, flagVars, queueVars, active, shutdown, dispatcher, execVars, calls>>

(* ... then the positions under the queue's lock.                             *)
CancelRefresh(r) ==
    /\ call[r] = "refreshing"
    /\ Refresh(queue, registered, cancel, status)
    /\ call' = [call EXCEPT ![r] = "none"]
    /\ UNCHANGED <<runVars, flagVars, queueVars, active, shutdown, dispatcher, execVars, calls>>

(* shutdown(): every run is flagged; queued runs keep their status.           *)
Shutdown ==
    /\ ~shutdown
    /\ shutdown' = TRUE
    /\ cancel' = [r \in Runs |-> cancel[r] \/ r \in registered]
    /\ UNCHANGED <<runVars, position, pause, queueVars, active, dispatcher, execVars, call, calls>>

-----------------------------------------------------------------------------
(* The dispatcher: _dispatch_loop and _execute *)

(* Seeded bug: the oldest entry first, whatever its priority.                 *)
First_Fifo(e) == e \in queue /\ \A o \in queue \ {e} : e[2] < o[2]

First(e) == e \in queue /\ \A o \in queue \ {e} : Before(e, o)

PopSkip ==
    /\ dispatcher = "idle" /\ ~shutdown
    /\ \E e \in queue :
          /\ First(e)
          /\ e[3] \notin registered \/ cancel[e[3]]
          /\ queue' = queue \ {e}
    /\ Refresh(queue', registered, cancel, status)
    /\ UNCHANGED <<runVars, flagVars, sequence, active, shutdown, dispatcher, execVars, call, calls>>

PopRun ==
    /\ dispatcher = "idle" /\ ~shutdown
    /\ \E e \in queue :
          /\ First(e)
          /\ e[3] \in registered /\ ~cancel[e[3]]
          /\ queue' = queue \ {e}
          /\ active' = e[3]
    /\ Refresh(queue', registered, cancel, status)
    /\ dispatcher' = "popped"
    /\ UNCHANGED <<runVars, flagVars, sequence, shutdown, execVars, call, calls>>

DispatcherExits ==
    /\ dispatcher = "idle" /\ shutdown
    /\ dispatcher' = "none"
    /\ UNCHANGED <<runVars, position, flagVars, queueVars, active, shutdown, execVars, call, calls>>

(* _execute compiles again outside its try: a registry that changed meanwhile *)
(* may raise, which ends the thread through the finally of the loop.          *)
CompileRaises ==
    /\ dispatcher = "popped"
    /\ dispatcher' = "dying"
    /\ UNCHANGED <<runVars, position, flagVars, queueVars, active, shutdown, execVars, call, calls>>

(* The status becomes RUNNING whatever it was.  A plan that is no longer      *)
(* valid compiles to no step at all; reading the boundary values may fail.    *)
Begin(n) ==
    /\ dispatcher = "popped"
    /\ status' = [status EXCEPT ![active] = "RUNNING"]
    /\ steps' = n
    /\ \/ n = 0 /\ dispatcher' = "ending" /\ verdict' = "COMPLETED"
       \/ n > 0 /\ dispatcher' = "gate" /\ UNCHANGED verdict
       \/ dispatcher' = "ending" /\ verdict' = "FAILED"
    /\ UNCHANGED <<registered, stampVars, position, flagVars, queueVars, active, shutdown, call, calls>>

Gate ==
    /\ dispatcher = "gate"
    /\ dispatcher' = IF pause[active] THEN "pausing" ELSE "check"
    /\ UNCHANGED <<runVars, position, flagVars, queueVars, active, shutdown, execVars, call, calls>>

WritePaused ==
    /\ dispatcher = "pausing"
    /\ status' = [status EXCEPT ![active] = "PAUSED"]
    /\ dispatcher' = "held"
    /\ UNCHANGED <<registered, stampVars, position, flagVars, queueVars, active, shutdown, execVars, call, calls>>

(* Seeded bugs: the wait does not look at the Stop flag, or only at it.       *)
LeaveHold_DeafToStop ==
    /\ dispatcher = "held" /\ ~pause[active]
    /\ dispatcher' = "check"
    /\ UNCHANGED <<runVars, position, flagVars, queueVars, active, shutdown, execVars, call, calls>>

LeaveHold_OnlyStop ==
    /\ dispatcher = "held" /\ cancel[active]
    /\ dispatcher' = "check"
    /\ UNCHANGED <<runVars, position, flagVars, queueVars, active, shutdown, execVars, call, calls>>

LeaveHold ==
    /\ dispatcher = "held"
    /\ ~pause[active] \/ cancel[active]
    /\ dispatcher' = "check"
    /\ UNCHANGED <<runVars, position, flagVars, queueVars, active, shutdown, execVars, call, calls>>

Check ==
    /\ dispatcher = "check"
    /\ IF cancel[active] THEN dispatcher' = "ending" /\ verdict' = "CANCELLED"
                         ELSE dispatcher' = "working" /\ UNCHANGED verdict
    /\ UNCHANGED <<runVars, position, flagVars, queueVars, active, shutdown, steps, call, calls>>

StepSucceeds ==
    /\ dispatcher = "working"
    /\ steps' = steps - 1
    /\ IF steps' = 0 THEN dispatcher' = "ending" /\ verdict' = "COMPLETED"
                     ELSE dispatcher' = "gate" /\ UNCHANGED verdict
    /\ UNCHANGED <<runVars, position, flagVars, queueVars, active, shutdown, call, calls>>

(* A step raises: a failure, or CANCELLED once the flag is up.                *)
StepRaises ==
    /\ dispatcher = "working"
    /\ \/ verdict' = "FAILED"
       \/ cancel[active] /\ verdict' = "CANCELLED"
    /\ dispatcher' = "ending"
    /\ UNCHANGED <<runVars, position, flagVars, queueVars, active, shutdown, steps, call, calls>>

(* The terminal status and completed_at, under control.lock.                  *)
End ==
    /\ dispatcher = "ending"
    /\ status' = [status EXCEPT ![active] = verdict]
    /\ Stamp(active)
    /\ dispatcher' = "closing"
    /\ verdict' = "NONE" /\ steps' = 0
    /\ UNCHANGED <<registered, position, flagVars, queueVars, active, shutdown, call, calls>>

(* _prune_history_locked: of the runs that are over all but the HistoryLimit  *)
(* youngest go.                                                               *)
History == {r \in registered : status[r] \in Terminal}
Younger(r) == {k \in History : completedAt[r] < completedAt[k]}
(* Seeded bug: terminal[limit:] for terminal[:-limit].                        *)
Pruned_Youngest ==
    {r \in History : Cardinality({k \in History : completedAt[k] < completedAt[r]}) >= HistoryLimit}

Pruned == {r \in History : Cardinality(Younger(r)) >= HistoryLimit}

(* finally: the run is no longer active, whether _execute returned or raised. *)
Close ==
    /\ dispatcher \in {"closing", "dying"}
    /\ active' = NoRun
    /\ registered' = registered \ Pruned
    /\ Refresh(queue, registered', cancel, status)
    /\ dispatcher' = IF dispatcher = "dying" THEN "none" ELSE "idle"
    /\ UNCHANGED <<status, stampVars, flagVars, queueVars, shutdown, execVars, call, calls>>

-----------------------------------------------------------------------------
Dispatch ==
    \/ PopSkip \/ PopRun \/ DispatcherExits \/ CompileRaises
    \/ \E n \in 0..MaxSteps : Begin(n)
    \/ Gate \/ WritePaused \/ LeaveHold \/ Check \/ StepSucceeds \/ StepRaises
    \/ End \/ Close

CallReturns(r) == PauseWrite(r) \/ ResumeWrite(r) \/ CancelWrite(r) \/ CancelRefresh(r)

Next ==
    \/ Dispatch
    \/ Shutdown
    \/ \E r \in Runs :
          \/ \E priority \in {-1, 0} : Start(r, priority)
          \/ PauseSet(r) \/ ResumeClear(r) \/ CancelSet(r)
          \/ CallReturns(r)

Spec == Init /\ [][Next]_vars

(* The dispatcher thread keeps running and steps end (see WaveExecution); a   *)
(* call that began returns.  Nobody is obliged to call anything.              *)
Fairness == WF_vars(Dispatch) /\ \A r \in Runs : WF_vars(CallReturns(r))

FairSpec == Spec /\ Fairness

-----------------------------------------------------------------------------
(* Properties *)

TypeOK ==
    /\ registered \subseteq Runs
    /\ status \in [Runs -> Statuses]
    /\ clock \in Nat /\ completedAt \in [Runs -> 0..clock]
    /\ position \in [Runs -> 0..Cardinality(Runs)]
    /\ pause \in [Runs -> BOOLEAN] /\ cancel \in [Runs -> BOOLEAN]
    /\ queue \subseteq {-1, 0} \X (1..Cardinality(Runs)) \X Runs
    /\ sequence \in 0..Cardinality(Runs)
    /\ active \in Runs \cup {NoRun}
    /\ shutdown \in BOOLEAN
    /\ dispatcher \in DispatcherPcs
    /\ (active = NoRun) <=> dispatcher \in {"none", "idle"}
    /\ steps \in 0..MaxSteps
    /\ verdict \in Terminal \cup {"NONE"}
    /\ calls \in 0..MaxCalls
    /\ call \in [Runs -> {"none", "pausing", "resuming", "cancelling", "refreshing"}]

(* The stored positions are only refreshed at the end of some lock regions,   *)
(* yet at every moment they rank the pending runs: front before fifo, each at *)
(* least 1, none shared.                                                      *)
PositionsOrdered ==
    \A a, b \in Pending(queue, registered, cancel, status) :
        /\ position[a[3]] >= 1
        /\ Before(a, b) => position[a[3]] < position[b[3]]

(* Only the run the dispatcher is executing is ever shown as running, pausing *)
(* or paused: no call that arrives late revives a run that is over.           *)
ShownRunningIsActive ==
    \A r \in Runs : status[r] \in {"RUNNING", "PAUSE_REQUESTED", "PAUSED"} => active = r

(* "front priority before fifo items": the run that becomes active precedes   *)
(* every pending run left in the queue.                                       *)
DispatchOrder ==
    [][\A own \in queue \ queue' :
          active' = own[3] =>
              \A e \in Pending(queue', registered, cancel, status) : Before(own, e)]_vars

(* Pruning drops only runs that are over, the oldest ones, and neither too    *)
(* few of them nor too many: when a run leaves the dispatcher the history is  *)
(* within its limit, and at the limit if anything was dropped.                *)
PruneKeepsYoungest ==
    [][/\ \A r \in registered \ registered' :
             /\ status[r] \in Terminal
             /\ \A k \in History' : completedAt[r] < completedAt[k]
             /\ Cardinality(History') = HistoryLimit
       /\ active # NoRun /\ active' = NoRun => Cardinality(History') <= HistoryLimit]_vars

(* Once the flag is up no further step of the run begins, however pause,      *)
(* resume and Stop are mixed.                                                 *)
Working(r) == active = r /\ dispatcher = "working"
StopSticks == \A r \in Runs : [](cancel[r] /\ ~Working(r) => []~Working(r))

(* Stop frees the queue even when the run is paused or was about to start.    *)
StopFreesQueue == \A r \in Runs : cancel[r] ~> active # r

(* The abstract queue of RunQueue, read off the manager: in the line are the  *)
(* entries of the heap whose run is not flagged.                              *)
Line == {e \in queue : ~cancel[e[3]]}
InLine(r, priority) == \E e \in Line : e[1] = priority /\ e[3] = r
Ahead(r, s) == \E a, b \in Line : a[3] = r /\ b[3] = s /\ Before(a, b)
Place(r) ==
    IF status[r] = "NONE" THEN "out"
    ELSE IF active = r THEN "current"
    ELSE IF InLine(r, -1) THEN "front"
    ELSE IF InLine(r, 0) THEN "back"
    ELSE "over"

RunLine == INSTANCE RunQueue WITH
    place <- [r \in Runs |-> Place(r)],
    ahead <- {p \in Runs \X Runs : Ahead(p[1], p[2])},
    stopped <- {r \in Runs : cancel[r]},
    working <- dispatcher = "working"

(* The heap, the flags, the statuses and the dispatcher together are a line   *)
(* of runs taken one at a time, in order and once, in which Stop is final.    *)
ImplementsRunQueue == RunLine!Spec

(* A queued run gets its turn, unless some run is left paused in front of it, *)
(* the manager is shut down, or the dispatcher thread died of an exception.   *)
InQueue(r) == \E e \in queue : e[3] = r
EveryRunGetsItsTurn ==
    (\A r \in Runs : <>[]~pause[r]) =>
        \A r \in Runs : InQueue(r) ~> (~InQueue(r) \/ shutdown \/ dispatcher = "none")

(* tests/test_graph_execution.py, test_cancelling_queued_run_does_not_        *)
(* execute_it: a run cancelled while queued is in manager.history(), and      *)
(* nothing but pruning takes it out again.                                    *)
CancelledStaysInHistory ==
    [][\A r \in Runs : status[r] = "CANCELLED" /\ active # r /\ r \in registered'
          => status'[r] \in Terminal]_vars
=============================================================================
