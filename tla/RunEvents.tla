----------------------------- MODULE RunEvents -----------------------------
(* How the window learns what its run does: the events RunManager publishes   *)
(* (graph/executor.py) through EventBroker (api/events.py) and a WebSocket    *)
(* (api/app.py, src/api/client.js), and the answers of its own calls, as the  *)
(* frontend's run store (src/state/runStore.js) applies them.  The two come   *)
(* over separate connections in no order relative to each other.              *)
(*                                                                            *)
(* Of the manager: each status and the event its writer publishes afterwards, *)
(* outside the lock; RunManager has the flags and locks in full.  Left out:   *)
(* node events, the queue and history panels, other windows.                  *)
EXTENDS Integers, Sequences, FiniteSets, SequencesExt

CONSTANTS
    Runs,
    NoRun,
    Outcomes,      \* how a run may end: "completed", "failed", "cancelled"
    Capacity,      \* of a subscriber's queue (1000 in the code)
    MaxTurns       \* bound: clicks on Pause, Resume, Stop and New workflow,
                   \* and times the socket closes, taken together; the
                   \* Resume of a run that is held is not counted

ASSUME EventsAssumption ==
    /\ NoRun \notin Runs
    /\ Outcomes \subseteq {"completed", "failed", "cancelled"}
    /\ Capacity \in Nat \ {0}
    /\ MaxTurns \in Nat

VARIABLES
    status,     \* snapshot.status of each run, "none" before start()
    pause,      \* control.pause
    cancel,     \* control.cancel
    queue,      \* runs the dispatcher has not popped
    active,     \* the run it is executing
    at,         \* where in it: "idle", "popped", "working" or "held"
    saying,     \* the type of the event it publishes next, or "none"
    ended,      \* the terminal statuses each run has had
    count,      \* events published so far
    connected,  \* the window has a subscription
    buffer,     \* the asyncio.Queue of the subscription
    delivered,  \* number of the last event the window handled
    call,       \* the window's call of each kind, and its answer
    run, shown, \* runStore's run: its id and its status
    turns,
    freshest    \* how many events the newest thing the window applied knew of;
                \* Muddled once it applied an older one later, or missed one

managerVars == <<status, pause, cancel, queue, active, at, saying, ended>>
brokerVars == <<count, connected, buffer, delivered>>
windowVars == <<call, run, shown, turns>>
vars == <<managerVars, brokerVars, windowVars, freshest>>

Muddled == -1

Terminal == {"COMPLETED", "FAILED", "CANCELLED"}
Kinds == {"start", "pause", "resume", "cancel"}

(* runStatuses and toUpperCase of handleEvent.                                *)
ShownAs == [queued |-> "QUEUED", started |-> "RUNNING", resumed |-> "RUNNING",
            pause_requested |-> "PAUSE_REQUESTED", paused |-> "PAUSED",
            cancel_requested |-> "CANCEL_REQUESTED", completed |-> "COMPLETED",
            failed |-> "FAILED", cancelled |-> "CANCELLED"]
Types == DOMAIN ShownAs
Statuses == {"none"} \cup {ShownAs[type] : type \in Types}

(* A call: its run, the event to publish, then the snapshot it answers with,  *)
(* which knows the first knows events; mine: is the answer for the window?    *)
NoCall == [stage |-> "none", run |-> NoRun, type |-> "none", snapshot |-> "none",
           knows |-> 0, mine |-> FALSE]
Asked(r, type, mine) ==
    [NoCall EXCEPT !.stage = "saying", !.run = r, !.type = type, !.mine = mine]

Init ==
    /\ status = [r \in Runs |-> "none"]
    /\ pause = [r \in Runs |-> FALSE] /\ cancel = [r \in Runs |-> FALSE]
    /\ queue = <<>> /\ active = NoRun /\ at = "idle" /\ saying = "none"
    /\ ended = [r \in Runs |-> {}]
    /\ count = 0 /\ connected = TRUE /\ buffer = <<>>
    /\ delivered = 0
    /\ call = [k \in Kinds |-> NoCall]
    /\ run = NoRun /\ shown = "none" /\ turns = 0
    /\ freshest = 0

Turn == turns < MaxTurns /\ turns' = turns + 1

-----------------------------------------------------------------------------
(* The broker *)

(* Seeded bug: a full queue gives up its youngest event.                      *)
Put_DropsYoungest(event) ==
    IF Len(buffer) >= Capacity
    THEN buffer' = Append(Front(buffer), event) /\ freshest' = Muddled
    ELSE buffer' = Append(buffer, event) /\ UNCHANGED freshest

(* _put: a full queue gives up its oldest event.                              *)
Put(event) ==
    IF Len(buffer) >= Capacity
    THEN buffer' = Append(Tail(buffer), event) /\ freshest' = Muddled
    ELSE buffer' = Append(buffer, event) /\ UNCHANGED freshest

(* publish(): the event goes to those subscribed at this moment; the event    *)
(* loop runs the _puts in the order of the calls.                             *)
Publish(r, type) ==
    /\ count' = count + 1
    /\ IF connected THEN Put([number |-> count', run |-> r, type |-> type])
                    ELSE freshest' = Muddled /\ UNCHANGED buffer
    /\ UNCHANGED <<connected, delivered>>

(* The socket closes: what is on its way is gone with the subscription.       *)
Close ==
    /\ connected /\ Turn
    /\ connected' = FALSE
    /\ freshest' = IF buffer # <<>> THEN Muddled ELSE freshest
    /\ buffer' = <<>>
    /\ UNCHANGED <<managerVars, count, delivered, call, run, shown>>

(* The client connects again and subscribes; nothing is replayed or reloaded. *)
Connect ==
    /\ ~connected
    /\ connected' = TRUE
    /\ UNCHANGED <<managerVars, count, buffer, delivered, windowVars, freshest>>

-----------------------------------------------------------------------------
(* The manager's dispatcher: it publishes what it wrote before it goes on *)

DispatcherSays ==
    /\ saying # "none"
    /\ Publish(active, saying)
    /\ saying' = "none"
    /\ active' = IF at = "idle" THEN NoRun ELSE active
    /\ UNCHANGED <<status, pause, cancel, queue, at, ended, windowVars>>

Pop ==
    /\ at = "idle" /\ saying = "none" /\ queue # <<>>
    /\ queue' = Tail(queue)
    /\ IF cancel[Head(queue)] THEN UNCHANGED <<active, at>>
                              ELSE active' = Head(queue) /\ at' = "popped"
    /\ UNCHANGED <<status, pause, cancel, saying, ended, brokerVars, windowVars, freshest>>

Begin ==
    /\ at = "popped"
    /\ status' = [status EXCEPT ![active] = "RUNNING"]
    /\ at' = "working" /\ saying' = "started"
    /\ UNCHANGED <<pause, cancel, queue, active, ended, brokerVars, windowVars, freshest>>

Hold ==
    /\ at = "working" /\ saying = "none" /\ pause[active]
    /\ status' = [status EXCEPT ![active] = "PAUSED"]
    /\ at' = "held" /\ saying' = "paused"
    /\ UNCHANGED <<pause, cancel, queue, active, ended, brokerVars, windowVars, freshest>>

Unhold ==
    /\ at = "held" /\ saying = "none"
    /\ ~pause[active] \/ cancel[active]
    /\ at' = "working"
    /\ UNCHANGED <<status, pause, cancel, queue, active, saying, ended, brokerVars, windowVars, freshest>>

End(type) ==
    /\ at = "working" /\ saying = "none"
    /\ type = "cancelled" => cancel[active]
    /\ status' = [status EXCEPT ![active] = ShownAs[type]]
    /\ ended' = [ended EXCEPT ![active] = @ \cup {ShownAs[type]}]
    /\ at' = "idle" /\ saying' = type
    /\ UNCHANGED <<pause, cancel, queue, active, brokerVars, windowVars, freshest>>

-----------------------------------------------------------------------------
(* The window's calls: the manager writes the status, publishes, and answers *)

Call(k, r, type, mine) ==
    /\ call[k] = NoCall
    /\ call' = [call EXCEPT ![k] = Asked(r, type, mine)]
    /\ UNCHANGED <<run, shown, freshest>>

(* start(): not while one is in flight.                                       *)
Start(r) ==
    /\ status[r] = "none"
    /\ Call("start", r, "queued", TRUE)
    /\ status' = [status EXCEPT ![r] = "QUEUED"]
    /\ queue' = Append(queue, r)
    /\ UNCHANGED <<pause, cancel, active, at, saying, ended, brokerVars, turns>>

Pause ==
    /\ run # NoRun /\ Turn
    /\ Call("pause", run, "pause_requested", TRUE)
    /\ pause' = [pause EXCEPT ![run] = TRUE]
    /\ status' = IF status[run] = "RUNNING" THEN [status EXCEPT ![run] = "PAUSE_REQUESTED"] ELSE status
    /\ UNCHANGED <<cancel, queue, active, at, saying, ended, brokerVars>>

Resume ==
    /\ run # NoRun
    /\ IF run = active /\ at = "held" /\ pause[run] THEN UNCHANGED turns ELSE Turn
    /\ Call("resume", run, "resumed", TRUE)
    /\ pause' = [pause EXCEPT ![run] = FALSE]
    /\ status' = IF status[run] \in {"PAUSED", "PAUSE_REQUESTED"}
                 THEN [status EXCEPT ![run] = "RUNNING"] ELSE status
    /\ UNCHANGED <<cancel, queue, active, at, saying, ended, brokerVars>>

(* Stop in the toolbar, or a run's own in the queue panel.                    *)
Cancel(r) ==
    /\ status[r] # "none" /\ Turn
    /\ cancel' = [cancel EXCEPT ![r] = TRUE]
    /\ IF status[r] = "QUEUED"
       THEN /\ Call("cancel", r, "cancelled", run = r)
            /\ status' = [status EXCEPT ![r] = "CANCELLED"]
            /\ ended' = [ended EXCEPT ![r] = @ \cup {"CANCELLED"}]
       ELSE /\ Call("cancel", r, "cancel_requested", run = r)
            /\ status' = [status EXCEPT ![r] = "CANCEL_REQUESTED"]
            /\ UNCHANGED ended
    /\ UNCHANGED <<pause, queue, active, at, saying, brokerVars>>

CallSays(k) ==
    /\ call[k].stage = "saying"
    /\ Publish(call[k].run, call[k].type)
    /\ call' = [call EXCEPT ![k].stage = "answering"]
    /\ UNCHANGED <<managerVars, run, shown, turns>>

(* Seeded bug: the snapshot is taken before the event is published.           *)
CallAnswers_Early(k) ==
    /\ \/ call[k].stage = "saying" /\ call[k].snapshot = "none"
       \/ call[k].stage = "answering"
    /\ call' = [call EXCEPT
                    ![k].stage = IF @ = "answering" THEN "answered" ELSE @,
                    ![k].snapshot = IF @ = "none" THEN status[call[k].run] ELSE @,
                    ![k].knows = IF call[k].snapshot = "none" THEN count ELSE @]
    /\ UNCHANGED <<managerVars, brokerVars, run, shown, turns, freshest>>

(* The copy of the snapshot, or get(), after the event is published.          *)
CallAnswers(k) ==
    /\ call[k].stage = "answering"
    /\ call' = [call EXCEPT ![k].stage = "answered",
                            ![k].snapshot = status[call[k].run],
                            ![k].knows = count]
    /\ UNCHANGED <<managerVars, brokerVars, run, shown, turns, freshest>>

-----------------------------------------------------------------------------
(* The run store *)

Knowing(n, behind) == freshest' = IF freshest = Muddled \/ behind THEN Muddled ELSE n

(* An event says less than an answer that knows it; an answer says less than  *)
(* what came after it, and nothing when the store does not take it though it  *)
(* shows the run by now.                                                      *)
AppliesEvent(number) == Knowing(number, number <= freshest)
AppliesAnswer(c) == Knowing(c.knows, c.knows < freshest \/ (~c.mine /\ c.run = run))

(* start, pause and resume take the answer as it is, cancel only when it      *)
(* concerns the run shown at the click.                                       *)
Arrive(k) ==
    /\ call[k].stage = "answered"
    /\ call' = [call EXCEPT ![k] = NoCall]
    /\ IF call[k].mine THEN run' = call[k].run /\ shown' = call[k].snapshot
                       ELSE UNCHANGED <<run, shown>>
    /\ AppliesAnswer(call[k])
    /\ UNCHANGED <<managerVars, brokerVars, turns>>

(* Seeded bug: whose event it is does not matter.                             *)
Handle_AnyRun ==
    /\ buffer # <<>>
    /\ buffer' = Tail(buffer)
    /\ delivered' = Head(buffer).number
    /\ shown' = IF run # NoRun THEN ShownAs[Head(buffer).type] ELSE shown
    /\ AppliesEvent(Head(buffer).number)
    /\ UNCHANGED <<managerVars, count, connected, call, run, turns>>

(* The WebSocket sends the head of the queue; handleEvent ignores another     *)
(* run's events, and all while no run is shown.                               *)
Handle ==
    /\ buffer # <<>>
    /\ buffer' = Tail(buffer)
    /\ delivered' = Head(buffer).number
    /\ shown' = IF Head(buffer).run = run THEN ShownAs[Head(buffer).type] ELSE shown
    /\ AppliesEvent(Head(buffer).number)
    /\ UNCHANGED <<managerVars, count, connected, call, run, turns>>

(* clearResults and hydrateResults: a new or opened workflow shows no run.    *)
Clear ==
    /\ run # NoRun /\ Turn
    /\ run' = NoRun /\ shown' = "none"
    /\ UNCHANGED <<managerVars, brokerVars, call, freshest>>

-----------------------------------------------------------------------------
Dispatch == DispatcherSays \/ Pop \/ Begin \/ Hold \/ Unhold
                \/ \E type \in Outcomes : End(type)
Server(k) == CallSays(k) \/ CallAnswers(k)
Next ==
    \/ Close \/ Connect \/ Handle \/ Clear
    \/ Dispatch
    \/ Pause \/ Resume
    \/ \E r \in Runs : Start(r) \/ Cancel(r)
    \/ \E k \in Kinds : Server(k) \/ Arrive(k)

Spec == Init /\ [][Next]_vars

-----------------------------------------------------------------------------
(* Properties *)

Event == [number : Nat, run : Runs, type : Types]
CallRecord == [stage : {"none", "saying", "answering", "answered"},
               run : Runs \cup {NoRun}, type : Types \cup {"none"},
               snapshot : Statuses, knows : Nat, mine : BOOLEAN]

TypeOK ==
    /\ status \in [Runs -> Statuses] /\ ended \in [Runs -> SUBSET Terminal]
    /\ pause \in [Runs -> BOOLEAN] /\ cancel \in [Runs -> BOOLEAN]
    /\ queue \in Seq(Runs) /\ active \in Runs \cup {NoRun}
    /\ at \in {"idle", "popped", "working", "held"} /\ saying \in Types \cup {"none"}
    /\ count \in Nat /\ delivered \in 0..count /\ freshest \in (0..count) \cup {Muddled}
    /\ connected \in BOOLEAN
    /\ buffer \in Seq(Event) /\ Len(buffer) <= Capacity
    /\ call \in [Kinds -> CallRecord]
    /\ run \in Runs \cup {NoRun} /\ shown \in Statuses /\ turns \in 0..MaxTurns

(* What is on its way to a subscriber is an unbroken run of the newest        *)
(* events, all newer than what it has handled: the loss of the oldest, a new  *)
(* subscription and several publishing threads reorder and repeat nothing.    *)
NewestKept ==
    \A i \in DOMAIN buffer :
        /\ buffer[i].number = count - Len(buffer) + i
        /\ buffer[i].number > delivered

(* The window calls a run over only as the manager ended it, whatever events  *)
(* of other runs, late answers and dropped events it has met.                 *)
TruthfulEnd == run # NoRun /\ shown \in Terminal => shown \in ended[run]

(* When nothing is under way, a run the dispatcher is not executing is shown  *)
(* as what it is, unless an event was lost or an answer and an event crossed: *)
(* that statuses are written before they are published, by several threads,   *)
(* and that run.queued may follow run.completed, is set right by the answer.  *)
(* A cancel() that rewrites a terminal status may leave the older one shown.  *)
AtRest ==
    /\ buffer = <<>> /\ saying = "none"
    /\ \A k \in Kinds : call[k] = NoCall
RightAtRest ==
    AtRest /\ run \notin {NoRun, active} /\ freshest # Muddled =>
        shown = status[run] \/ (status[run] = "CANCEL_REQUESTED" /\ shown \in ended[run])
=============================================================================
