-------------------------- MODULE RunEventsProofs --------------------------
(* Theorems about RunEvents, for any number of runs, any capacity of a        *)
(* subscriber's queue and any number of clicks.                               *)
EXTENDS RunEvents, TLAPS

ManagerTypes ==
    /\ status \in [Runs -> Statuses]
    /\ queue \in Seq(Runs)
    /\ active \in Runs \cup {NoRun}
    /\ at \in {"idle", "popped", "working", "held"}
    /\ saying \in Types \cup {"none"}
    /\ ended \in [Runs -> SUBSET Terminal]
    /\ at # "idle" \/ saying # "none" => active \in Runs
BrokerTypes ==
    /\ count \in Nat /\ delivered \in Nat
    /\ connected \in BOOLEAN
    /\ buffer \in Seq(Event)
WindowTypes ==
    /\ call \in [Kinds -> CallRecord]
    /\ \A k \in Kinds : call[k].stage # "none" => call[k].run \in Runs
    /\ \A k \in Kinds : call[k].stage = "saying" => call[k].type \in Types
    /\ run \in Runs \cup {NoRun}
    /\ shown \in Statuses

(* The window handled nothing that was not published, and nothing waits for   *)
(* it while it has no subscription.                                           *)
DeliveredIsOld ==
    /\ delivered <= count
    /\ ~connected => buffer = <<>>

(* Wherever the end of a run is recorded, on its way or shown, the manager    *)
(* has ended the run so.                                                      *)
TrueOf(r, s) == s \in Terminal => s \in ended[r]
TrueTold ==
    /\ \A r \in Runs : TrueOf(r, status[r])
    /\ saying \in Types => TrueOf(active, ShownAs[saying])
    /\ \A i \in DOMAIN buffer : TrueOf(buffer[i].run, ShownAs[buffer[i].type])
    /\ \A k \in Kinds :
          /\ call[k].stage = "saying" => TrueOf(call[k].run, ShownAs[call[k].type])
          /\ call[k].stage # "none" => TrueOf(call[k].run, call[k].snapshot)

IInv ==
    /\ ManagerTypes /\ BrokerTypes /\ WindowTypes
    /\ NewestKept /\ DeliveredIsOld
    /\ TrueTold /\ TruthfulEnd

-----------------------------------------------------------------------------
(* The types of events and what the store shows for them.                     *)
LEMMA TypesAre ==
    /\ Types = {"queued", "started", "resumed", "pause_requested", "paused",
                "cancel_requested", "completed", "failed", "cancelled"}
    /\ "none" \notin Types
    /\ \A type \in Types : ShownAs[type] \in Statuses
    /\ "none" \in Statuses
    /\ {"QUEUED", "RUNNING", "PAUSE_REQUESTED", "PAUSED", "CANCEL_REQUESTED"} \subseteq Statuses
    /\ Terminal \subseteq Statuses
    /\ "none" \notin Terminal
    /\ ShownAs["completed"] = "COMPLETED" /\ ShownAs["failed"] = "FAILED"
    /\ ShownAs["cancelled"] = "CANCELLED" /\ ShownAs["queued"] = "QUEUED"
    /\ ShownAs["started"] = "RUNNING" /\ ShownAs["resumed"] = "RUNNING"
    /\ ShownAs["pause_requested"] = "PAUSE_REQUESTED" /\ ShownAs["paused"] = "PAUSED"
    /\ ShownAs["cancel_requested"] = "CANCEL_REQUESTED"
<1>1. /\ Types = {"queued", "started", "resumed", "pause_requested", "paused",
                  "cancel_requested", "completed", "failed", "cancelled"}
      /\ "none" \notin Types
  BY DEF Types, ShownAs
<1>2. /\ ShownAs["completed"] = "COMPLETED" /\ ShownAs["failed"] = "FAILED"
      /\ ShownAs["cancelled"] = "CANCELLED" /\ ShownAs["queued"] = "QUEUED"
      /\ ShownAs["started"] = "RUNNING" /\ ShownAs["resumed"] = "RUNNING"
      /\ ShownAs["pause_requested"] = "PAUSE_REQUESTED" /\ ShownAs["paused"] = "PAUSED"
      /\ ShownAs["cancel_requested"] = "CANCEL_REQUESTED"
  BY DEF ShownAs
<1>3. \A type \in Types : ShownAs[type] \in Statuses
  BY DEF Statuses
<1>4. {"QUEUED", "RUNNING", "PAUSE_REQUESTED", "PAUSED", "CANCEL_REQUESTED"} \subseteq Statuses
  BY <1>1, <1>2, <1>3
<1>5. Terminal \subseteq Statuses
  BY <1>1, <1>2, <1>3 DEF Terminal
<1> QED BY <1>1, <1>2, <1>3, <1>4, <1>5 DEF Statuses, Terminal

(* An event is appended to a sequence of events, the oldest one given up.     *)
LEMMA AppendEvent ==
    ASSUME NEW b \in Seq(Event), NEW e \in Event
    PROVE  LET c == Append(b, e) IN
           /\ c \in Seq(Event) /\ Len(c) = Len(b) + 1 /\ c[Len(c)] = e
           /\ \A i \in 1..Len(b) : c[i] = b[i]
  OBVIOUS

LEMMA TailOfEvents ==
    ASSUME NEW b \in Seq(Event), b # <<>>
    PROVE  /\ Tail(b) \in Seq(Event) /\ Len(Tail(b)) = Len(b) - 1
           /\ \A i \in 1..Len(Tail(b)) : Tail(b)[i] = b[i + 1]
           /\ Head(b) \in Event /\ Head(b) = b[1] /\ Len(b) >= 1
  OBVIOUS

(* Publishing an event keeps the queue of the subscriber an unbroken run of   *)
(* the newest events, and puts nothing but this event into it.                *)
LEMMA PublishKeeps ==
    ASSUME BrokerTypes, NewestKept, DeliveredIsOld,
           NEW r \in Runs, NEW type \in Types, Publish(r, type)
    PROVE  /\ BrokerTypes' /\ NewestKept' /\ DeliveredIsOld'
           /\ \A i \in DOMAIN buffer' :
                 \/ \E j \in DOMAIN buffer : buffer'[i] = buffer[j]
                 \/ buffer'[i].run = r /\ buffer'[i].type = type
<1> DEFINE e == [number |-> count + 1, run |-> r, type |-> type]
<1>1. /\ count \in Nat /\ delivered \in Nat /\ buffer \in Seq(Event) /\ connected \in BOOLEAN
      /\ delivered <= count /\ e \in Event /\ (~connected => buffer = <<>>)
  BY DEF BrokerTypes, DeliveredIsOld, Event
<1>2. count' = count + 1 /\ connected' = connected /\ delivered' = delivered
  BY DEF Publish
<1>3. \A i \in 1..Len(buffer) : buffer[i].number = count - Len(buffer) + i /\ buffer[i].number > delivered
  BY <1>1 DEF NewestKept
<1>4. CASE connected /\ Len(buffer) < Capacity
  <2>1. buffer' = Append(buffer, e)
    BY <1>1, <1>2, <1>4, EventsAssumption DEF Publish, Put
  <2>2. /\ buffer' \in Seq(Event) /\ Len(buffer') = Len(buffer) + 1
        /\ buffer'[Len(buffer')] = e
        /\ \A i \in 1..Len(buffer) : buffer'[i] = buffer[i]
    BY <1>1, <2>1, AppendEvent
  <2> HIDE DEF e
  <2>3. \A i \in DOMAIN buffer' : buffer'[i] = e \/ (i \in DOMAIN buffer /\ buffer'[i] = buffer[i])
    BY <1>1, <2>2
  <2>4. \A i \in 1..Len(buffer') : buffer'[i].number = count' - Len(buffer') + i /\ buffer'[i].number > delivered'
    <3> SUFFICES ASSUME NEW i \in 1..Len(buffer')
                 PROVE  buffer'[i].number = count' - Len(buffer') + i /\ buffer'[i].number > delivered'
      OBVIOUS
    <3>1. CASE i = Len(buffer')
      BY <1>1, <1>2, <2>2, <3>1 DEF e
    <3>2. CASE i # Len(buffer')
      BY <1>1, <1>2, <1>3, <2>2, <3>2
    <3> QED BY <3>1, <3>2
  <2>5. BrokerTypes' /\ NewestKept' /\ DeliveredIsOld'
    BY <1>1, <1>2, <1>4, <2>2, <2>4 DEF BrokerTypes, NewestKept, DeliveredIsOld
  <2> QED BY <2>3, <2>5 DEF e
<1>5. CASE connected /\ Len(buffer) >= Capacity
  <2>1. buffer' = Append(Tail(buffer), e) /\ buffer # <<>>
    BY <1>1, <1>2, <1>5, EventsAssumption DEF Publish, Put
  <2>2. /\ Tail(buffer) \in Seq(Event) /\ Len(Tail(buffer)) = Len(buffer) - 1 /\ Len(buffer) >= 1
        /\ \A i \in 1..Len(Tail(buffer)) : Tail(buffer)[i] = buffer[i + 1]
    BY <1>1, <2>1, TailOfEvents
  <2>3. /\ buffer' \in Seq(Event) /\ Len(buffer') = Len(buffer)
        /\ buffer'[Len(buffer')] = e
        /\ \A i \in 1..(Len(buffer) - 1) : buffer'[i] = buffer[i + 1]
    BY <1>1, <2>1, <2>2, AppendEvent
  <2> HIDE DEF e
  <2>4. \A i \in DOMAIN buffer' : buffer'[i] = e \/ (i + 1 \in DOMAIN buffer /\ buffer'[i] = buffer[i + 1])
    BY <1>1, <2>2, <2>3
  <2>5. \A i \in 1..Len(buffer') : buffer'[i].number = count' - Len(buffer') + i /\ buffer'[i].number > delivered'
    <3> SUFFICES ASSUME NEW i \in 1..Len(buffer')
                 PROVE  buffer'[i].number = count' - Len(buffer') + i /\ buffer'[i].number > delivered'
      OBVIOUS
    <3>1. CASE i = Len(buffer')
      BY <1>1, <1>2, <2>3, <3>1 DEF e
    <3>2. CASE i # Len(buffer')
      <4>1. i + 1 \in 1..Len(buffer) /\ buffer'[i] = buffer[i + 1]
        BY <2>2, <2>3, <3>2
      <4>2. buffer[i + 1].number = count - Len(buffer) + (i + 1) /\ buffer[i + 1].number > delivered
        BY <1>3, <4>1
      <4> QED BY <1>1, <1>2, <2>3, <4>1, <4>2
    <3> QED BY <3>1, <3>2
  <2>6. BrokerTypes' /\ NewestKept' /\ DeliveredIsOld'
    BY <1>1, <1>2, <1>5, <2>3, <2>5 DEF BrokerTypes, NewestKept, DeliveredIsOld
  <2> QED BY <2>4, <2>6 DEF e
<1>6. CASE ~connected
  <2>1. buffer' = buffer /\ buffer = <<>>
    BY <1>1, <1>6 DEF Publish
  <2>2. NewestKept'
    BY <2>1 DEF NewestKept
  <2> QED BY <1>1, <1>2, <2>1, <2>2 DEF BrokerTypes, DeliveredIsOld
<1> QED BY <1>1, <1>4, <1>5, <1>6, EventsAssumption

-----------------------------------------------------------------------------
(* The broker: what every step makes of the queue of the subscription.        *)
LEMMA BrokerStep ==
    ASSUME IInv, [Next]_vars
    PROVE  BrokerTypes' /\ NewestKept' /\ DeliveredIsOld'
<1> USE DEF IInv
<1>1. CASE Close
  <2>1. buffer' = <<>> /\ UNCHANGED <<count, delivered>> /\ connected' = FALSE
    BY <1>1 DEF Close
  <2>2. NewestKept'
    BY <2>1 DEF NewestKept
  <2>3. buffer' \in Seq(Event)
    BY <2>1
  <2> QED BY <2>1, <2>2, <2>3 DEF BrokerTypes, DeliveredIsOld
<1>2. CASE Connect
  <2>1. buffer = <<>> /\ UNCHANGED <<count, buffer, delivered>> /\ connected' = TRUE
    BY <1>2 DEF Connect, DeliveredIsOld
  <2> QED BY <2>1 DEF BrokerTypes, NewestKept, DeliveredIsOld
<1>3. CASE Handle
  <2>1. /\ buffer \in Seq(Event) /\ buffer # <<>> /\ count \in Nat /\ connected
        /\ buffer' = Tail(buffer) /\ delivered' = Head(buffer).number
        /\ count' = count /\ connected' = connected
    BY <1>3 DEF Handle, BrokerTypes, DeliveredIsOld
  <2>2. /\ Tail(buffer) \in Seq(Event) /\ Len(Tail(buffer)) = Len(buffer) - 1
        /\ \A i \in 1..Len(Tail(buffer)) : Tail(buffer)[i] = buffer[i + 1]
        /\ Head(buffer) \in Event /\ Head(buffer) = buffer[1] /\ Len(buffer) >= 1
        /\ Len(buffer) \in Nat
    BY <2>1, TailOfEvents
  <2>3. \A i \in 1..Len(buffer) : buffer[i].number = count - Len(buffer) + i
    BY <2>1 DEF NewestKept
  <2>4. delivered' = count - Len(buffer) + 1 /\ delivered' \in Nat
    BY <2>1, <2>2, <2>3 DEF Event
  <2>5. \A i \in 1..Len(buffer') : buffer'[i].number = count - Len(buffer') + i
    <3> SUFFICES ASSUME NEW i \in 1..Len(buffer')
                 PROVE  buffer'[i].number = count - Len(buffer') + i
      OBVIOUS
    <3>1. i + 1 \in 1..Len(buffer) /\ buffer'[i] = buffer[i + 1]
      BY <2>1, <2>2
    <3>2. buffer[i + 1].number = count - Len(buffer) + (i + 1)
      BY <2>3, <3>1
    <3> QED BY <2>1, <2>2, <3>1, <3>2
  <2>6. \A i \in 1..Len(buffer') : buffer'[i].number > delivered'
    <3> SUFFICES ASSUME NEW i \in 1..Len(buffer')
                 PROVE  buffer'[i].number > delivered'
      OBVIOUS
    <3>1. /\ Len(buffer) \in Nat /\ count \in Nat /\ i \in Nat /\ i >= 1
          /\ Len(buffer') = Len(buffer) - 1
      BY <2>1, <2>2
    <3>2. buffer'[i].number = count - Len(buffer) + 1 + i
      BY <2>5, <3>1
    <3> QED BY <2>4, <3>1, <3>2
  <2>7. NewestKept'
    BY <2>1, <2>2, <2>5, <2>6 DEF NewestKept
  <2> QED BY <2>1, <2>2, <2>4, <2>7 DEF BrokerTypes, DeliveredIsOld
<1>4. CASE DispatcherSays
  <2>1. active \in Runs /\ saying \in Types /\ Publish(active, saying)
    BY <1>4 DEF DispatcherSays, ManagerTypes
  <2> QED BY <2>1, PublishKeeps
<1>5. ASSUME NEW k \in Kinds, CallSays(k)
      PROVE  BrokerTypes' /\ NewestKept' /\ DeliveredIsOld'
  <2>1. call[k].run \in Runs /\ call[k].type \in Types /\ Publish(call[k].run, call[k].type)
    BY <1>5 DEF CallSays, WindowTypes
  <2> QED BY <2>1, PublishKeeps
<1>6. CASE UNCHANGED brokerVars
  BY <1>6 DEF brokerVars, BrokerTypes, NewestKept, DeliveredIsOld
<1>7. Pop \/ Begin \/ Hold \/ Unhold \/ (\E type \in Outcomes : End(type)) => UNCHANGED brokerVars
  BY DEF Pop, Begin, Hold, Unhold, End
<1>8. Pause \/ Resume \/ Clear \/ (\E r \in Runs : Start(r) \/ Cancel(r)) => UNCHANGED brokerVars
  BY DEF Pause, Resume, Clear, Start, Cancel
<1>9. (\E k \in Kinds : CallAnswers(k) \/ Arrive(k)) => UNCHANGED brokerVars
  BY DEF CallAnswers, Arrive
<1>10. UNCHANGED vars => UNCHANGED brokerVars
  BY DEF vars
<1> HIDE DEF IInv
<1> QED BY <1>1, <1>2, <1>3, <1>4, <1>5, <1>6, <1>7, <1>8, <1>9, <1>10 DEF Next, Dispatch, Server

-----------------------------------------------------------------------------
(* The manager: the types of its variables, and what a step may add to the    *)
(* ways a run has ended.                                                      *)
LEMMA ManagerStep ==
    ASSUME IInv, [Next]_vars
    PROVE  ManagerTypes' /\ \A r \in Runs : ended[r] \subseteq ended'[r]
<1> USE DEF IInv
<1> DEFINE Goal == ManagerTypes' /\ \A r \in Runs : ended[r] \subseteq ended'[r]
<1>1. CASE DispatcherSays
  BY <1>1 DEF DispatcherSays, ManagerTypes
<1>2. CASE Pop
  <2>1. queue # <<>> /\ queue \in Seq(Runs) /\ queue' = Tail(queue)
    BY <1>2 DEF Pop, ManagerTypes
  <2>2. Head(queue) \in Runs /\ queue' \in Seq(Runs)
    BY <2>1
  <2>3. UNCHANGED <<status, saying, ended>> /\ at = "idle" /\ saying = "none"
    BY <1>2 DEF Pop
  <2>4. \/ active' = active /\ at' = at
        \/ active' = Head(queue) /\ at' = "popped"
    BY <1>2 DEF Pop
  <2> QED BY <2>2, <2>3, <2>4 DEF ManagerTypes
<1>3. CASE Begin
  BY <1>3, TypesAre DEF Begin, ManagerTypes
<1>4. CASE Hold
  BY <1>4, TypesAre DEF Hold, ManagerTypes
<1>5. CASE Unhold
  BY <1>5 DEF Unhold, ManagerTypes
<1>6. ASSUME NEW type \in Outcomes, End(type)
      PROVE  Goal
  <2>1. type \in Types /\ ShownAs[type] \in Terminal /\ active \in Runs
    BY <1>6, TypesAre, EventsAssumption DEF End, Terminal, ManagerTypes
  <2>2. /\ status' = [status EXCEPT ![active] = ShownAs[type]]
        /\ ended' = [ended EXCEPT ![active] = @ \cup {ShownAs[type]}]
        /\ at' = "idle" /\ saying' = type /\ UNCHANGED <<queue, active>>
    BY <1>6 DEF End
  <2>3. status' \in [Runs -> Statuses]
    BY <2>1, <2>2, TypesAre DEF ManagerTypes
  <2>4. ended' \in [Runs -> SUBSET Terminal] /\ \A r \in Runs : ended[r] \subseteq ended'[r]
    BY <2>1, <2>2 DEF ManagerTypes
  <2> QED BY <2>1, <2>2, <2>3, <2>4 DEF ManagerTypes
<1>7. CASE Pause
  <2>1. run \in Runs
    BY <1>7 DEF Pause, WindowTypes
  <2>2. status' \in [Runs -> Statuses] /\ UNCHANGED <<queue, active, at, saying, ended>>
    BY <1>7, <2>1, TypesAre DEF Pause, ManagerTypes
  <2> QED BY <2>2 DEF ManagerTypes
<1>8. CASE Resume
  <2>1. run \in Runs
    BY <1>8 DEF Resume, WindowTypes
  <2>2. status' \in [Runs -> Statuses] /\ UNCHANGED <<queue, active, at, saying, ended>>
    BY <1>8, <2>1, TypesAre DEF Resume, ManagerTypes
  <2> QED BY <2>2 DEF ManagerTypes
<1>9. ASSUME NEW r \in Runs, Start(r)
      PROVE  Goal
  <2>1. status' \in [Runs -> Statuses] /\ UNCHANGED <<active, at, saying, ended>>
    BY <1>9, TypesAre DEF Start, ManagerTypes
  <2>2. queue' \in Seq(Runs)
    BY <1>9 DEF Start, ManagerTypes
  <2> QED BY <2>1, <2>2 DEF ManagerTypes
<1>10. ASSUME NEW r \in Runs, Cancel(r)
       PROVE  Goal
  <2>1. UNCHANGED <<queue, active, at, saying>> /\ "CANCELLED" \in Terminal
    BY <1>10 DEF Cancel, Terminal
  <2>2. CASE status[r] = "QUEUED"
    <3>1. /\ status' = [status EXCEPT ![r] = "CANCELLED"]
          /\ ended' = [ended EXCEPT ![r] = @ \cup {"CANCELLED"}]
      BY <1>10, <2>2 DEF Cancel
    <3>2. status' \in [Runs -> Statuses]
      BY <2>1, <3>1, TypesAre DEF ManagerTypes
    <3>3. ended' \in [Runs -> SUBSET Terminal] /\ \A s \in Runs : ended[s] \subseteq ended'[s]
      BY <2>1, <3>1 DEF ManagerTypes
    <3> QED BY <2>1, <3>2, <3>3 DEF ManagerTypes
  <2>3. CASE status[r] # "QUEUED"
    <3>1. status' = [status EXCEPT ![r] = "CANCEL_REQUESTED"] /\ ended' = ended
      BY <1>10, <2>3 DEF Cancel
    <3> QED BY <2>1, <3>1, TypesAre DEF ManagerTypes
  <2> QED BY <2>2, <2>3
<1>11. CASE UNCHANGED managerVars
  BY <1>11 DEF managerVars, ManagerTypes
<1>12. Close \/ Connect \/ Handle \/ Clear => UNCHANGED managerVars
  BY DEF Close, Connect, Handle, Clear
<1>13. (\E k \in Kinds : CallSays(k) \/ CallAnswers(k) \/ Arrive(k)) => UNCHANGED managerVars
  BY DEF CallSays, CallAnswers, Arrive
<1>14. UNCHANGED vars => UNCHANGED managerVars
  BY DEF vars
<1> HIDE DEF IInv
<1> QED BY <1>1, <1>2, <1>3, <1>4, <1>5, <1>6, <1>7, <1>8, <1>9, <1>10, <1>11, <1>12, <1>13, <1>14
        DEF Next, Dispatch, Server

-----------------------------------------------------------------------------
(* A call that is made has its run, its event and an empty snapshot.          *)
LEMMA AskedIs ==
    ASSUME NEW r \in Runs, NEW type \in Types, NEW mine \in BOOLEAN
    PROVE  /\ Asked(r, type, mine) \in CallRecord
           /\ Asked(r, type, mine).run = r /\ Asked(r, type, mine).type = type
           /\ Asked(r, type, mine).stage = "saying"
           /\ Asked(r, type, mine).snapshot = "none"
  BY TypesAre DEF Asked, NoCall, CallRecord

LEMMA NoCallIs ==
    NoCall \in CallRecord /\ NoCall.stage = "none" /\ NoCall.snapshot = "none"
  BY TypesAre DEF NoCall, CallRecord

LEMMA CallKeeps ==
    ASSUME WindowTypes, NEW k \in Kinds, NEW r \in Runs, NEW type \in Types,
           NEW mine \in BOOLEAN, Call(k, r, type, mine)
    PROVE  WindowTypes' /\ call' = [call EXCEPT ![k] = Asked(r, type, mine)]
           /\ run' = run /\ shown' = shown
<1>1. call' = [call EXCEPT ![k] = Asked(r, type, mine)] /\ run' = run /\ shown' = shown
  BY DEF Call
<1>2. call \in [Kinds -> CallRecord]
  BY DEF WindowTypes
<1>3. call' \in [Kinds -> CallRecord]
  BY <1>1, <1>2, AskedIs
<1>4. \A h \in Kinds : call'[h] = IF h = k THEN Asked(r, type, mine) ELSE call[h]
  BY <1>1, <1>2
<1>5. \A h \in Kinds : /\ call'[h].stage # "none" => call'[h].run \in Runs
                       /\ call'[h].stage = "saying" => call'[h].type \in Types
  BY <1>4, AskedIs DEF WindowTypes
<1> QED BY <1>1, <1>3, <1>5 DEF WindowTypes

(* What each of the window's steps asks for.                                  *)
LEMMA ClicksAsk ==
    ASSUME IInv
    PROVE  /\ Pause => run \in Runs /\ Call("pause", run, "pause_requested", TRUE)
           /\ Resume => run \in Runs /\ Call("resume", run, "resumed", TRUE)
           /\ \A r \in Runs : Start(r) => Call("start", r, "queued", TRUE)
           /\ \A r \in Runs : Cancel(r) =>
                  \/ Call("cancel", r, "cancel_requested", run = r)
                  \/ Call("cancel", r, "cancelled", run = r) /\ "CANCELLED" \in ended'[r]
           /\ {"start", "pause", "resume", "cancel"} = Kinds
<1>1. Pause => run \in Runs /\ Call("pause", run, "pause_requested", TRUE)
  BY DEF Pause, IInv, WindowTypes
<1>2. Resume => run \in Runs /\ Call("resume", run, "resumed", TRUE)
  BY DEF Resume, IInv, WindowTypes
<1>3. \A r \in Runs : Start(r) => Call("start", r, "queued", TRUE)
  BY DEF Start
<1>4. ASSUME NEW r \in Runs, Cancel(r)
      PROVE  \/ Call("cancel", r, "cancel_requested", run = r)
             \/ Call("cancel", r, "cancelled", run = r) /\ "CANCELLED" \in ended'[r]
  <2>1. status[r] = "QUEUED" => ended' = [ended EXCEPT ![r] = @ \cup {"CANCELLED"}]
    BY <1>4 DEF Cancel
  <2>2. status[r] = "QUEUED" => "CANCELLED" \in ended'[r]
    BY <2>1 DEF IInv, ManagerTypes
  <2>3. IF status[r] = "QUEUED" THEN Call("cancel", r, "cancelled", run = r)
                                ELSE Call("cancel", r, "cancel_requested", run = r)
    BY <1>4 DEF Cancel
  <2> QED BY <2>2, <2>3
<1> QED BY <1>1, <1>2, <1>3, <1>4 DEF Kinds

-----------------------------------------------------------------------------
(* The window: the types of its calls and of what it shows.                   *)
LEMMA WindowStep ==
    ASSUME IInv, [Next]_vars
    PROVE  WindowTypes'
<1> USE DEF IInv
<1>1. CASE Pause \/ Resume \/ \E r \in Runs : Start(r) \/ Cancel(r)
  <2>1. {"queued", "pause_requested", "resumed", "cancel_requested", "cancelled"} \subseteq Types
    BY TypesAre
  <2>2. PICK k \in Kinds, r \in Runs, type \in Types, mine \in BOOLEAN : Call(k, r, type, mine)
    BY <1>1, <2>1, ClicksAsk
  <2> QED BY <2>2, CallKeeps
<1>2. ASSUME NEW k \in Kinds, CallSays(k)
      PROVE  WindowTypes'
  <2>1. /\ call \in [Kinds -> CallRecord] /\ call[k].run \in Runs
        /\ call' = [call EXCEPT ![k].stage = "answering"]
        /\ run' = run /\ shown' = shown
    BY <1>2 DEF CallSays, WindowTypes
  <2>2. \A h \in Kinds : IF h = k THEN /\ call'[h] \in CallRecord /\ call'[h].run \in Runs
                                       /\ call'[h].stage = "answering"
                                  ELSE call'[h] = call[h]
    <3>1. call'[k] = [call[k] EXCEPT !.stage = "answering"] /\ \A h \in Kinds \ {k} : call'[h] = call[h]
      BY <2>1
    <3>2. call[k] \in CallRecord
      BY <2>1
    <3>3. call'[k] \in CallRecord /\ call'[k].run = call[k].run /\ call'[k].stage = "answering"
      BY <3>1, <3>2 DEF CallRecord
    <3> QED BY <2>1, <3>1, <3>3
  <2>3. call' \in [Kinds -> CallRecord]
    BY <2>1, <2>2
  <2> QED BY <2>1, <2>2, <2>3 DEF WindowTypes
<1>3. ASSUME NEW k \in Kinds, CallAnswers(k)
      PROVE  WindowTypes'
  <2>1. /\ call \in [Kinds -> CallRecord] /\ call[k].run \in Runs
        /\ status[call[k].run] \in Statuses /\ count \in Nat
        /\ call' = [call EXCEPT ![k].stage = "answered", ![k].snapshot = status[call[k].run],
                                ![k].knows = count]
        /\ run' = run /\ shown' = shown
    BY <1>3 DEF CallAnswers, WindowTypes, ManagerTypes, BrokerTypes
  <2>2. \A h \in Kinds : IF h = k THEN /\ call'[h] \in CallRecord /\ call'[h].run \in Runs
                                       /\ call'[h].stage = "answered"
                                  ELSE call'[h] = call[h]
    BY <2>1 DEF CallRecord
  <2>3. call' \in [Kinds -> CallRecord]
    BY <2>1, <2>2
  <2> QED BY <2>1, <2>2, <2>3 DEF WindowTypes
<1>4. ASSUME NEW k \in Kinds, Arrive(k)
      PROVE  WindowTypes'
  <2>1. /\ call \in [Kinds -> CallRecord] /\ call[k].run \in Runs /\ call[k].snapshot \in Statuses
        /\ call' = [call EXCEPT ![k] = NoCall]
        /\ \/ run' = run /\ shown' = shown
           \/ run' = call[k].run /\ shown' = call[k].snapshot
    BY <1>4 DEF Arrive, WindowTypes, CallRecord
  <2>2. \A h \in Kinds : call'[h] = IF h = k THEN NoCall ELSE call[h]
    BY <2>1
  <2>3. call' \in [Kinds -> CallRecord]
    BY <2>1, NoCallIs
  <2> QED BY <2>1, <2>2, <2>3, NoCallIs DEF WindowTypes
<1>5. CASE Handle
  <2>1. Head(buffer) \in Event
    BY <1>5, TailOfEvents DEF Handle, BrokerTypes
  <2>2. shown' = shown \/ shown' = ShownAs[Head(buffer).type]
    BY <1>5 DEF Handle
  <2>3. shown' \in Statuses
    BY <2>1, <2>2, TypesAre DEF Event, WindowTypes
  <2> QED BY <1>5, <2>3 DEF Handle, WindowTypes
<1>6. CASE Clear
  BY <1>6, TypesAre DEF Clear, WindowTypes
<1>7. CASE UNCHANGED <<call, run, shown>>
  BY <1>7 DEF WindowTypes
<1>8. Close \/ Connect \/ DispatcherSays => UNCHANGED <<call, run, shown>>
  BY DEF Close, Connect, DispatcherSays, windowVars
<1>9. Pop \/ Begin \/ Hold \/ Unhold \/ (\E type \in Outcomes : End(type)) => UNCHANGED <<call, run, shown>>
  BY DEF Pop, Begin, Hold, Unhold, End, windowVars
<1>10. UNCHANGED vars => UNCHANGED <<call, run, shown>>
  BY DEF vars, windowVars
<1> HIDE DEF IInv
<1> QED BY <1>1, <1>2, <1>3, <1>4, <1>5, <1>6, <1>7, <1>8, <1>9, <1>10 DEF Next, Dispatch, Server

-----------------------------------------------------------------------------
(* The ends that are recorded, said, on their way or answered stay true.      *)
StatusTrue == \A r \in Runs : TrueOf(r, status[r])
SayingTrue == saying \in Types => TrueOf(active, ShownAs[saying])
BufferTrue == \A i \in DOMAIN buffer : TrueOf(buffer[i].run, ShownAs[buffer[i].type])
CallsTrue ==
    \A k \in Kinds :
        /\ call[k].stage = "saying" => TrueOf(call[k].run, ShownAs[call[k].type])
        /\ call[k].stage # "none" => TrueOf(call[k].run, call[k].snapshot)

LEMMA StatusStep ==
    ASSUME IInv, [Next]_vars
    PROVE  StatusTrue'
<1>1. /\ status \in [Runs -> Statuses] /\ ended \in [Runs -> SUBSET Terminal] /\ StatusTrue
      /\ \A r \in Runs : ended[r] \subseteq ended'[r]
  BY ManagerStep DEF IInv, ManagerTypes, TrueTold, StatusTrue
<1>2. SUFFICES ASSUME NEW r \in Runs, status'[r] # status[r], status'[r] \in Terminal
               PROVE  status'[r] \in ended'[r]
  BY <1>1 DEF StatusTrue, TrueOf
<1>3. {"RUNNING", "PAUSED", "PAUSE_REQUESTED", "QUEUED", "CANCEL_REQUESTED"} \cap Terminal = {}
  BY DEF Terminal
<1>4. ~ (UNCHANGED status)
  BY <1>2
<1>5. CASE Begin \/ Hold \/ Pause \/ Resume \/ \E s \in Runs : Start(s)
  <2>1. status'[r] \in {"RUNNING", "PAUSED", "PAUSE_REQUESTED", "QUEUED"}
    BY <1>1, <1>2, <1>5 DEF Begin, Hold, Pause, Resume, Start
  <2> QED BY <1>2, <1>3, <2>1
<1>6. ASSUME NEW type \in Outcomes, End(type)
      PROVE  status'[r] \in ended'[r]
  <2>1. active = r /\ status'[r] = ShownAs[type]
    BY <1>1, <1>2, <1>6 DEF End
  <2>2. ended'[r] = ended[r] \cup {ShownAs[type]}
    BY <1>1, <1>6, <2>1 DEF End
  <2> QED BY <2>1, <2>2
<1>7. ASSUME NEW s \in Runs, Cancel(s)
      PROVE  status'[r] \in ended'[r]
  <2>1. CASE status[s] = "QUEUED"
    <3>1. s = r /\ status'[r] = "CANCELLED"
      BY <1>1, <1>2, <1>7, <2>1 DEF Cancel
    <3>2. ended'[r] = ended[r] \cup {"CANCELLED"}
      BY <1>1, <1>7, <2>1, <3>1 DEF Cancel
    <3> QED BY <3>1, <3>2
  <2>2. CASE status[s] # "QUEUED"
    BY <1>1, <1>2, <1>3, <1>7, <2>2 DEF Cancel
  <2> QED BY <2>1, <2>2
<1>8. Close \/ Connect \/ Handle \/ Clear \/ DispatcherSays \/ Pop \/ Unhold => UNCHANGED status
  BY DEF Close, Connect, Handle, Clear, DispatcherSays, Pop, Unhold, managerVars
<1>9. (\E k \in Kinds : CallSays(k) \/ CallAnswers(k) \/ Arrive(k)) => UNCHANGED status
  BY DEF CallSays, CallAnswers, Arrive, managerVars
<1>10. UNCHANGED vars => UNCHANGED status
  BY DEF vars, managerVars
<1> QED BY <1>4, <1>5, <1>6, <1>7, <1>8, <1>9, <1>10 DEF Next, Dispatch, Server

LEMMA SayingStep ==
    ASSUME IInv, [Next]_vars
    PROVE  SayingTrue'
<1>1. /\ ended \in [Runs -> SUBSET Terminal] /\ SayingTrue /\ active \in Runs \cup {NoRun}
      /\ \A r \in Runs : ended[r] \subseteq ended'[r]
      /\ saying # "none" => active \in Runs
  BY ManagerStep DEF IInv, ManagerTypes, TrueTold, SayingTrue
<1>2. CASE UNCHANGED <<saying, active>>
  BY <1>1, <1>2, TypesAre DEF SayingTrue, TrueOf
<1>3. CASE saying' = "none"
  BY <1>3, TypesAre DEF SayingTrue
<1>4. CASE Begin \/ Hold
  <2>1. saying' \in {"started", "paused"}
    BY <1>4 DEF Begin, Hold
  <2>2. ShownAs["started"] \notin Terminal /\ ShownAs["paused"] \notin Terminal
    BY TypesAre DEF Terminal
  <2> QED BY <2>1, <2>2 DEF SayingTrue, TrueOf
<1>5. ASSUME NEW type \in Outcomes, End(type)
      PROVE  SayingTrue'
  <2>1. active \in Runs /\ active' = active /\ saying' = type
    BY <1>5 DEF End, IInv, ManagerTypes
  <2>2. ended'[active] = ended[active] \cup {ShownAs[type]}
    BY <1>1, <1>5, <2>1 DEF End
  <2> QED BY <2>1, <2>2 DEF SayingTrue, TrueOf
<1>6. DispatcherSays \/ Pop => saying' = "none"
  BY DEF DispatcherSays, Pop
<1>7. Close \/ Connect \/ Handle \/ Clear \/ Unhold \/ Pause \/ Resume => UNCHANGED <<saying, active>>
  BY DEF Close, Connect, Handle, Clear, Unhold, Pause, Resume, managerVars
<1>8. (\E r \in Runs : Start(r) \/ Cancel(r)) => UNCHANGED <<saying, active>>
  BY DEF Start, Cancel
<1>9. (\E k \in Kinds : CallSays(k) \/ CallAnswers(k) \/ Arrive(k)) => UNCHANGED <<saying, active>>
  BY DEF CallSays, CallAnswers, Arrive, managerVars
<1>10. UNCHANGED vars => UNCHANGED <<saying, active>>
  BY DEF vars, managerVars
<1> QED BY <1>2, <1>3, <1>4, <1>5, <1>6, <1>7, <1>8, <1>9, <1>10 DEF Next, Dispatch, Server

LEMMA BufferStep ==
    ASSUME IInv, [Next]_vars
    PROVE  BufferTrue'
<1>1. /\ buffer \in Seq(Event) /\ BufferTrue
      /\ \A r \in Runs : ended[r] \subseteq ended'[r]
      /\ \A i \in DOMAIN buffer : buffer[i].run \in Runs
  <2>1. buffer \in Seq(Event) /\ BufferTrue
    BY DEF IInv, BrokerTypes, TrueTold, BufferTrue
  <2>2. \A i \in DOMAIN buffer : buffer[i] \in Event
    BY <2>1
  <2> QED BY <2>1, <2>2, ManagerStep DEF Event
<1>2. CASE \A i \in DOMAIN buffer' : \E j \in DOMAIN buffer : buffer'[i] = buffer[j]
  BY <1>1, <1>2 DEF BufferTrue, TrueOf
<1>3. ASSUME NEW r \in Runs, NEW type \in Types, Publish(r, type), TrueOf(r, ShownAs[type])
      PROVE  BufferTrue'
  <2>1. \A i \in DOMAIN buffer' : \/ \E j \in DOMAIN buffer : buffer'[i] = buffer[j]
                                  \/ buffer'[i].run = r /\ buffer'[i].type = type
    BY <1>3, PublishKeeps DEF IInv
  <2> QED BY <1>1, <1>3, <2>1 DEF BufferTrue, TrueOf
<1>4. CASE DispatcherSays
  <2>1. active \in Runs /\ saying \in Types /\ Publish(active, saying)
    BY <1>4 DEF DispatcherSays, IInv, ManagerTypes
  <2>2. TrueOf(active, ShownAs[saying])
    BY <2>1 DEF IInv, TrueTold
  <2> QED BY <1>3, <2>1, <2>2
<1>5. ASSUME NEW k \in Kinds, CallSays(k)
      PROVE  BufferTrue'
  <2>1. call[k].run \in Runs /\ call[k].type \in Types /\ Publish(call[k].run, call[k].type)
    BY <1>5 DEF CallSays, IInv, WindowTypes
  <2>2. TrueOf(call[k].run, ShownAs[call[k].type])
    BY <1>5 DEF CallSays, IInv, TrueTold
  <2> QED BY <1>3, <2>1, <2>2
<1>6. Handle => \A i \in DOMAIN buffer' : \E j \in DOMAIN buffer : buffer'[i] = buffer[j]
  <2> SUFFICES ASSUME Handle, NEW i \in DOMAIN buffer'
               PROVE  \E j \in DOMAIN buffer : buffer'[i] = buffer[j]
    OBVIOUS
  <2>1. buffer # <<>> /\ buffer' = Tail(buffer)
    BY DEF Handle
  <2>2. i + 1 \in DOMAIN buffer /\ buffer'[i] = buffer[i + 1]
    BY <1>1, <2>1
  <2> QED BY <2>2
<1>7. Close => buffer' = <<>>
  BY DEF Close
<1>8. Connect \/ Clear \/ Pop \/ Begin \/ Hold \/ Unhold \/ Pause \/ Resume => buffer' = buffer
  BY DEF Connect, Clear, Pop, Begin, Hold, Unhold, Pause, Resume, brokerVars
<1>9. (\E type \in Outcomes : End(type)) \/ (\E r \in Runs : Start(r) \/ Cancel(r)) => buffer' = buffer
  BY DEF End, Start, Cancel, brokerVars
<1>10. (\E k \in Kinds : CallAnswers(k) \/ Arrive(k)) \/ UNCHANGED vars => buffer' = buffer
  BY DEF CallAnswers, Arrive, vars, brokerVars
<1>11. buffer' = buffer \/ buffer' = <<>> => \A i \in DOMAIN buffer' : \E j \in DOMAIN buffer : buffer'[i] = buffer[j]
  OBVIOUS
<1> QED BY <1>2, <1>4, <1>5, <1>6, <1>7, <1>8, <1>9, <1>10, <1>11 DEF Next, Dispatch, Server

LEMMA CallsStep ==
    ASSUME IInv, [Next]_vars
    PROVE  CallsTrue'
<1>1. /\ call \in [Kinds -> CallRecord] /\ CallsTrue
      /\ \A r \in Runs : ended[r] \subseteq ended'[r]
      /\ \A k \in Kinds : call[k].stage # "none" => call[k].run \in Runs
  BY ManagerStep DEF IInv, WindowTypes, TrueTold, CallsTrue
<1>2. CASE UNCHANGED call
  BY <1>1, <1>2, Zenon DEF CallsTrue, TrueOf
<1>3. ASSUME NEW k \in Kinds, NEW r \in Runs, NEW type \in Types, NEW mine \in BOOLEAN,
             Call(k, r, type, mine), ShownAs[type] \in Terminal => ShownAs[type] \in ended'[r]
      PROVE  CallsTrue'
  <2>1. \A h \in Kinds : call'[h] = IF h = k THEN Asked(r, type, mine) ELSE call[h]
    BY <1>1, <1>3 DEF Call
  <2>2. "none" \notin Terminal
    BY TypesAre
  <2> QED BY <1>1, <1>3, <2>1, <2>2, AskedIs DEF CallsTrue, TrueOf
<1>4. CASE Pause \/ Resume \/ \E r \in Runs : Start(r) \/ Cancel(r)
  <2>1. /\ {"queued", "pause_requested", "resumed", "cancel_requested", "cancelled"} \subseteq Types
        /\ \A type \in {"queued", "pause_requested", "resumed", "cancel_requested"} : ShownAs[type] \notin Terminal
        /\ ShownAs["cancelled"] = "CANCELLED"
    BY TypesAre DEF Terminal
  <2>2. {"start", "pause", "resume", "cancel"} \subseteq Kinds /\ TRUE \in BOOLEAN
    BY ClicksAsk
  <2>3. CASE Pause
    BY <1>3, <2>1, <2>2, <2>3, ClicksAsk
  <2>4. CASE Resume
    BY <1>3, <2>1, <2>2, <2>4, ClicksAsk
  <2>5. ASSUME NEW r \in Runs, Start(r)
        PROVE  CallsTrue'
    BY <1>3, <2>1, <2>2, <2>5, ClicksAsk
  <2>6. ASSUME NEW r \in Runs, Cancel(r)
        PROVE  CallsTrue'
    <3>1. \/ Call("cancel", r, "cancel_requested", run = r)
          \/ Call("cancel", r, "cancelled", run = r) /\ "CANCELLED" \in ended'[r]
      BY <2>6, ClicksAsk
    <3>2. (run = r) \in BOOLEAN
      OBVIOUS
    <3>3. CASE Call("cancel", r, "cancel_requested", run = r)
      BY <1>3, <2>1, <2>2, <3>2, <3>3
    <3>4. CASE Call("cancel", r, "cancelled", run = r) /\ "CANCELLED" \in ended'[r]
      BY <1>3, <2>1, <2>2, <3>2, <3>4
    <3> QED BY <3>1, <3>3, <3>4
  <2> QED BY <1>4, <2>3, <2>4, <2>5, <2>6
<1>5. ASSUME NEW k \in Kinds, CallSays(k)
      PROVE  CallsTrue'
  <2>1. \A h \in Kinds : IF h = k THEN /\ call'[h].run = call[h].run /\ call'[h].snapshot = call[h].snapshot
                                       /\ call'[h].stage = "answering" /\ call[h].stage # "none"
                                  ELSE call'[h] = call[h]
    BY <1>1, <1>5 DEF CallSays, CallRecord
  <2> QED BY <1>1, <2>1 DEF CallsTrue, TrueOf
<1>6. ASSUME NEW k \in Kinds, CallAnswers(k)
      PROVE  CallsTrue'
  <2>1. call[k].run \in Runs
    BY <1>1, <1>6 DEF CallAnswers
  <2>2. TrueOf(call[k].run, status[call[k].run])
    BY <2>1 DEF IInv, TrueTold
  <2>3. \A h \in Kinds : IF h = k THEN /\ call'[h].run = call[h].run /\ call'[h].snapshot = status[call[h].run]
                                       /\ call'[h].stage = "answered"
                                  ELSE call'[h] = call[h]
    BY <1>1, <1>6 DEF CallAnswers, CallRecord
  <2> QED BY <1>1, <2>1, <2>2, <2>3 DEF CallsTrue, TrueOf
<1>7. ASSUME NEW k \in Kinds, Arrive(k)
      PROVE  CallsTrue'
  <2>1. \A h \in Kinds : call'[h] = IF h = k THEN NoCall ELSE call[h]
    BY <1>1, <1>7 DEF Arrive
  <2> QED BY <1>1, <2>1, NoCallIs DEF CallsTrue, TrueOf
<1>8. Close \/ Connect \/ Handle \/ Clear \/ DispatcherSays => UNCHANGED call
  BY DEF Close, Connect, Handle, Clear, DispatcherSays, windowVars
<1>9. Pop \/ Begin \/ Hold \/ Unhold \/ (\E type \in Outcomes : End(type)) => UNCHANGED call
  BY DEF Pop, Begin, Hold, Unhold, End, windowVars
<1>10. UNCHANGED vars => UNCHANGED call
  BY DEF vars, windowVars
<1> QED BY <1>2, <1>4, <1>5, <1>6, <1>7, <1>8, <1>9, <1>10 DEF Next, Dispatch, Server

(* What the window shows is an event it handled or an answer it took.         *)
LEMMA ShownStep ==
    ASSUME IInv, [Next]_vars
    PROVE  TruthfulEnd'
<1>1. /\ run \in Runs \cup {NoRun} /\ TruthfulEnd
      /\ \A r \in Runs : ended[r] \subseteq ended'[r]
  BY ManagerStep DEF IInv, WindowTypes
<1>2. CASE UNCHANGED <<run, shown>>
  BY <1>1, <1>2 DEF TruthfulEnd
<1>3. ASSUME NEW k \in Kinds, Arrive(k)
      PROVE  TruthfulEnd'
  <2>1. \/ UNCHANGED <<run, shown>>
        \/ run' = call[k].run /\ shown' = call[k].snapshot
    BY <1>3 DEF Arrive
  <2>2. call[k].run \in Runs /\ (call[k].snapshot \in Terminal => call[k].snapshot \in ended[call[k].run])
    BY <1>3 DEF Arrive, IInv, WindowTypes, TrueTold, TrueOf
  <2> QED BY <1>1, <1>2, <2>1, <2>2 DEF TruthfulEnd
<1>4. CASE Handle
  <2>1. buffer \in Seq(Event) /\ buffer # <<>> /\ run' = run
    BY <1>4 DEF Handle, IInv, BrokerTypes
  <2>2. Head(buffer) \in Event /\ Head(buffer) = buffer[1] /\ 1 \in DOMAIN buffer
    BY <2>1
  <2>3. ShownAs[Head(buffer).type] \in Terminal => ShownAs[Head(buffer).type] \in ended[Head(buffer).run]
    BY <2>2 DEF IInv, TrueTold, TrueOf
  <2>4. Head(buffer).run \in Runs
    BY <2>2 DEF Event
  <2>5. shown' = IF Head(buffer).run = run THEN ShownAs[Head(buffer).type] ELSE shown
    BY <1>4 DEF Handle
  <2> QED BY <1>1, <2>1, <2>3, <2>4, <2>5 DEF TruthfulEnd
<1>5. Clear => run' = NoRun
  BY DEF Clear
<1>6. Close \/ Connect \/ DispatcherSays => UNCHANGED <<run, shown>>
  BY DEF Close, Connect, DispatcherSays, windowVars
<1>7. Pop \/ Begin \/ Hold \/ Unhold \/ (\E type \in Outcomes : End(type)) => UNCHANGED <<run, shown>>
  BY DEF Pop, Begin, Hold, Unhold, End, windowVars
<1>8. Pause \/ Resume \/ (\E r \in Runs : Start(r) \/ Cancel(r)) => UNCHANGED <<run, shown>>
  BY DEF Pause, Resume, Start, Cancel, Call
<1>9. (\E k \in Kinds : CallSays(k) \/ CallAnswers(k)) \/ UNCHANGED vars => UNCHANGED <<run, shown>>
  BY DEF CallSays, CallAnswers, vars, windowVars
<1>10. CASE run' = NoRun
  BY <1>10 DEF TruthfulEnd
<1> QED BY <1>2, <1>3, <1>4, <1>5, <1>6, <1>7, <1>8, <1>9, <1>10 DEF Next, Dispatch, Server

-----------------------------------------------------------------------------
LEMMA IInvInit == Init => IInv
<1> SUFFICES ASSUME Init PROVE IInv
  OBVIOUS
<1>1. ManagerTypes
  BY TypesAre DEF Init, ManagerTypes
<1>2. BrokerTypes /\ NewestKept /\ DeliveredIsOld
  BY DEF Init, BrokerTypes, NewestKept, DeliveredIsOld
<1>3. WindowTypes
  BY TypesAre, NoCallIs DEF Init, WindowTypes
<1>4. TrueTold
  BY TypesAre, NoCallIs DEF Init, TrueTold, TrueOf
<1>5. TruthfulEnd
  BY DEF Init, TruthfulEnd
<1> QED BY <1>1, <1>2, <1>3, <1>4, <1>5 DEF IInv

LEMMA IInvStep == IInv /\ [Next]_vars => IInv'
<1> SUFFICES ASSUME IInv, [Next]_vars PROVE IInv'
  OBVIOUS
<1>1. ManagerTypes' /\ BrokerTypes' /\ WindowTypes' /\ NewestKept' /\ DeliveredIsOld'
  BY ManagerStep, BrokerStep, WindowStep
<1>2. StatusTrue' /\ SayingTrue' /\ BufferTrue' /\ CallsTrue'
  BY StatusStep, SayingStep, BufferStep, CallsStep
<1>3. TrueTold'
  BY <1>2, Zenon DEF TrueTold, StatusTrue, SayingTrue, BufferTrue, CallsTrue
<1> QED BY <1>1, <1>3, ShownStep DEF IInv

LEMMA Inductive == Spec => []IInv
  BY IInvInit, IInvStep, PTL DEF Spec

(* Events reach a window in the order in which they were published, without   *)
(* repetition, and those that are lost are older than all that wait: for any  *)
(* capacity of the queue, any number of publishing threads, and any number of *)
(* times the connection is lost (EventBroker._put, publish, subscribe).       *)
THEOREM EventsInOrder == Spec => []NewestKept
<1>1. IInv => NewestKept
  BY DEF IInv
<1> QED BY <1>1, Inductive, PTL

(* The window never shows an end that the manager did not give the run: not   *)
(* of another run, not from an answer that comes late, not from an event left *)
(* over from a run before (handleEvent, startRun, cancel, clearResults).      *)
THEOREM NoFalseEnd == Spec => []TruthfulEnd
<1>1. IInv => TruthfulEnd
  BY DEF IInv
<1> QED BY <1>1, Inductive, PTL

-----------------------------------------------------------------------------
(* What is shown at rest                                                      *)

(* Nothing was lost, and no answer that is still to come is older than what   *)
(* the window handled.  Otherwise rest is only reached muddled.               *)
InOrder ==
    /\ freshest = delivered
    /\ \A k \in Kinds : call[k].stage = "answered" => call[k].knows >= delivered

(* As long as the window is not muddled, the queue of its subscription holds  *)
(* all it has not handled.                                                    *)
Counted ==
    /\ freshest \in Nat \cup {Muddled}
    /\ freshest # Muddled => /\ delivered = count - Len(buffer)
                             /\ delivered <= freshest /\ freshest <= count
    /\ \A k \in Kinds : call[k].stage = "answered" => call[k].knows <= count

(* Before the end of a run is published, only a Stop rewrites its status.     *)
EndSaid ==
    /\ at = "idle" /\ saying = "none" => active = NoRun
    /\ at = "idle" /\ saying # "none" =>
          /\ ShownAs[saying] \in ended[active]
          /\ status[active] \in {ShownAs[saying], "CANCEL_REQUESTED"}

(* An answer, an event or what is shown is out of date only if something      *)
(* newer about the run is still to come.                                      *)
Right(r, s) == s = status[r] \/ (status[r] = "CANCEL_REQUESTED" /\ s \in ended[r])
Says(k, r) == call[k].run = r /\ call[k].stage = "saying"
Unanswered(k, r) == call[k].run = r /\ call[k].stage \in {"saying", "answering"}
Answered(k, r) == call[k].run = r /\ call[k].stage = "answered"
Dispatching(r) == saying # "none" /\ active = r
LastOfRun(i) == \A j \in DOMAIN buffer : j > i => buffer[j].run # buffer[i].run

AnswersUpToDate ==
    \A k \in Kinds : call[k].stage = "answered" =>
        \/ call[k].snapshot = status[call[k].run]
        \/ \E i \in DOMAIN buffer : buffer[i].run = call[k].run /\ buffer[i].number > call[k].knows
        \/ \E h \in Kinds : Says(h, call[k].run)
        \/ Dispatching(call[k].run)
EventsUpToDate ==
    \A i \in DOMAIN buffer : buffer[i].run # active /\ LastOfRun(i) =>
        \/ Right(buffer[i].run, ShownAs[buffer[i].type])
        \/ \E k \in Kinds : Unanswered(k, buffer[i].run)
        \/ \E k \in Kinds : Answered(k, buffer[i].run) /\ call[k].knows >= buffer[i].number
ShownUpToDate ==
    run \notin {NoRun, active} /\ (\A i \in DOMAIN buffer : buffer[i].run # run) =>
        \/ Right(run, shown)
        \/ \E k \in Kinds : Unanswered(k, run) \/ Answered(k, run)

RestInv ==
    /\ IInv /\ Counted /\ EndSaid
    /\ InOrder => AnswersUpToDate /\ EventsUpToDate /\ ShownUpToDate

(* The kinds of steps that leave the window in order.                         *)
Spoken(r, type) == [number |-> count + 1, run |-> r, type |-> type]
Publishes(r, type) ==
    /\ count' = count + 1 /\ delivered' = delivered /\ freshest' = freshest
    /\ buffer' = Append(buffer, Spoken(r, type))
    /\ UNCHANGED <<status, ended, run, shown>>
DispatcherPublishes ==
    /\ saying # "none" /\ Publishes(active, saying)
    /\ saying' = "none" /\ active' = IF at = "idle" THEN NoRun ELSE active
    /\ call' = call
CallPublishes(k) ==
    /\ call[k].stage = "saying" /\ Publishes(call[k].run, call[k].type)
    /\ \A h \in Kinds : IF h = k THEN /\ call'[h].run = call[h].run
                                      /\ call'[h].stage = "answering"
                                 ELSE call'[h] = call[h]
    /\ UNCHANGED <<saying, active>>
Writes ==
    /\ UNCHANGED <<count, buffer, delivered, freshest>>
    /\ run' = NoRun \/ UNCHANGED <<run, shown>>
    /\ active' = active \/ active = NoRun
    /\ saying # "none" => saying' # "none" /\ active' = active
    /\ \A k \in Kinds : \/ call'[k] = call[k]
                        \/ call[k].stage = "none" /\ call'[k].stage = "saying"
    /\ \A r \in Runs : \/ status'[r] = status[r] /\ ended'[r] = ended[r]
                       \/ Dispatching(r)'
                       \/ \E k \in Kinds : Says(k, r)'

-----------------------------------------------------------------------------
(* A published event joins the queue, or the window is muddled.               *)
LEMMA PublishIs ==
    ASSUME IInv, NEW r \in Runs, NEW type \in Types, Publish(r, type)
    PROVE  /\ count' = count + 1 /\ delivered' = delivered
           /\ \/ freshest' = Muddled
              \/ freshest' = freshest /\ buffer' = Append(buffer, Spoken(r, type))
  BY DEF Publish, Put, Spoken

LEMMA CountsAre ==
    ASSUME IInv
    PROVE  /\ count \in Nat /\ delivered \in Nat /\ buffer \in Seq(Event) /\ Len(buffer) \in Nat
           /\ \A k \in Kinds : call[k].knows \in Nat
           /\ \A i \in DOMAIN buffer : /\ i \in Nat /\ buffer[i].number \in Nat
                                       /\ buffer[i].run \in Runs /\ buffer[i].type \in Types
           /\ Muddled < 0 /\ Muddled \in Int
<1>1. count \in Nat /\ delivered \in Nat /\ buffer \in Seq(Event) /\ Len(buffer) \in Nat
  BY DEF IInv, BrokerTypes
<1>2. \A k \in Kinds : call[k].knows \in Nat
  BY DEF IInv, WindowTypes, CallRecord
<1>3. \A i \in DOMAIN buffer : i \in Nat /\ buffer[i] \in Event
  BY <1>1
<1> QED BY <1>1, <1>2, <1>3 DEF Event, Muddled

LEMMA CountedStep ==
    ASSUME IInv, Counted, [Next]_vars
    PROVE  Counted'
<1>0. /\ count \in Nat /\ delivered \in Nat /\ buffer \in Seq(Event) /\ Len(buffer) \in Nat
      /\ \A k \in Kinds : call[k].knows \in Nat
      /\ Muddled \notin Nat /\ Muddled < 0 /\ Muddled \in Int
  BY CountsAre
<1> DEFINE Early == \A k \in Kinds : call[k].stage = "answered" => call[k].knows <= count
           Fresh == /\ freshest \in Nat \cup {Muddled}
                    /\ freshest # Muddled => /\ delivered = count - Len(buffer)
                                             /\ delivered <= freshest /\ freshest <= count
<1>a. Early /\ Fresh
  BY DEF Counted
<1>1. ASSUME NEW r \in Runs, NEW type \in Types, Publish(r, type)
      PROVE  Fresh'
  <2>1. CASE freshest' = Muddled
    BY <1>0, <2>1
  <2>2. CASE freshest' = freshest /\ buffer' = Append(buffer, Spoken(r, type))
    <3>1. Len(buffer') = Len(buffer) + 1
      BY <1>0, <2>2
    <3>2. count' = count + 1 /\ delivered' = delivered
      BY <1>1, PublishIs
    <3> QED BY <1>0, <1>a, <2>2, <3>1, <3>2
  <2> QED BY <1>1, <2>1, <2>2, PublishIs
<1>2. CASE DispatcherSays
  <2>1. active \in Runs /\ saying \in Types /\ Publish(active, saying) /\ call' = call
    BY <1>2 DEF DispatcherSays, windowVars, IInv, ManagerTypes
  <2>2. count' = count + 1
    BY <2>1, PublishIs
  <2>3. Early'
    BY <1>0, <1>a, <2>1, <2>2
  <2> QED BY <1>1, <2>1, <2>3 DEF Counted
<1>3. ASSUME NEW k \in Kinds, CallSays(k)
      PROVE  Counted'
  <2>1. /\ call[k].run \in Runs /\ call[k].type \in Types /\ Publish(call[k].run, call[k].type)
        /\ call \in [Kinds -> CallRecord]
        /\ call' = [call EXCEPT ![k].stage = "answering"]
    BY <1>3 DEF CallSays, IInv, WindowTypes
  <2>2. \A h \in Kinds : IF h = k THEN call'[h].stage = "answering" ELSE call'[h] = call[h]
    BY <2>1 DEF CallRecord
  <2>3. count' = count + 1
    BY <2>1, PublishIs
  <2>4. Early'
    BY <1>0, <1>a, <2>2, <2>3
  <2> QED BY <1>1, <2>1, <2>4 DEF Counted
<1>4. ASSUME NEW k \in Kinds, CallAnswers(k)
      PROVE  Counted'
  <2>1. \A h \in Kinds : IF h = k THEN call'[h].knows = count ELSE call'[h] = call[h]
    BY <1>4 DEF CallAnswers, IInv, WindowTypes, CallRecord
  <2>2. UNCHANGED <<count, delivered, buffer, freshest>>
    BY <1>4 DEF CallAnswers, brokerVars
  <2> QED BY <1>0, <1>a, <2>1, <2>2 DEF Counted
<1>5. ASSUME NEW k \in Kinds, Arrive(k)
      PROVE  Counted'
  <2>1. \A h \in Kinds : call'[h] = IF h = k THEN NoCall ELSE call[h]
    BY <1>5 DEF Arrive, IInv, WindowTypes
  <2>2. UNCHANGED <<count, delivered, buffer>> /\ call[k].knows <= count
    BY <1>5, <1>a DEF Arrive, brokerVars
  <2>3. freshest' = Muddled \/ (freshest # Muddled /\ freshest' = call[k].knows /\ ~(call[k].knows < freshest))
    BY <1>5 DEF Arrive, AppliesAnswer, Knowing
  <2>4. Early'
    BY <1>a, <2>1, <2>2, NoCallIs
  <2>5. Fresh'
    BY <1>0, <1>a, <2>2, <2>3
  <2> QED BY <2>4, <2>5 DEF Counted
<1>6. CASE Handle
  <2>1. /\ buffer # <<>> /\ buffer' = Tail(buffer) /\ delivered' = Head(buffer).number
        /\ UNCHANGED <<count, call>>
    BY <1>6 DEF Handle
  <2>2. Len(buffer') = Len(buffer) - 1 /\ Len(buffer) >= 1 /\ Head(buffer) = buffer[1]
    BY <1>0, <2>1, TailOfEvents
  <2>3. delivered' = count - Len(buffer) + 1
    BY <1>0, <2>1, <2>2 DEF IInv, NewestKept
  <2>4. freshest' = Muddled \/ (freshest # Muddled /\ freshest' = delivered')
    BY <1>6, <2>1 DEF Handle, AppliesEvent, Knowing
  <2>5. delivered' \in Nat
    BY <1>0, <2>1, <2>2, CountsAre
  <2>6. Fresh'
    BY <1>0, <1>a, <2>1, <2>2, <2>3, <2>4, <2>5
  <2>7. Early'
    BY <1>a, <2>1
  <2> QED BY <2>6, <2>7 DEF Counted
<1>7. CASE Close
  <2>1. UNCHANGED <<count, delivered, call>> /\ buffer' = <<>>
        /\ freshest' = IF buffer # <<>> THEN Muddled ELSE freshest
    BY <1>7 DEF Close
  <2>2. CASE buffer # <<>>
    BY <1>0, <1>a, <2>1, <2>2 DEF Counted
  <2>3. CASE buffer = <<>>
    BY <1>a, <2>1, <2>3 DEF Counted
  <2> QED BY <2>2, <2>3
<1>8. ASSUME UNCHANGED <<count, delivered, buffer, freshest>>,
             \A k \in Kinds : call'[k] = call[k] \/ call'[k].stage = "saying"
      PROVE  Counted'
  <2>1. Early'
    BY <1>a, <1>8
  <2>2. Fresh'
    BY <1>a, <1>8
  <2> QED BY <2>1, <2>2 DEF Counted
<1>9. ASSUME Connect \/ Clear \/ Pop \/ Begin \/ Hold \/ Unhold \/ (\E type \in Outcomes : End(type)) \/ UNCHANGED vars
      PROVE  UNCHANGED <<count, delivered, buffer, freshest, call>>
  BY <1>9 DEF Connect, Clear, Pop, Begin, Hold, Unhold, End, vars, brokerVars, windowVars
<1>10. ASSUME Pause \/ Resume \/ \E r \in Runs : Start(r) \/ Cancel(r)
       PROVE  /\ UNCHANGED <<count, delivered, buffer, freshest>>
              /\ \A k \in Kinds : call'[k] = call[k] \/ call'[k].stage = "saying"
  <2>1. PICK k \in Kinds, r \in Runs, type \in Types, mine \in BOOLEAN : Call(k, r, type, mine)
    BY <1>10, ClicksAsk, TypesAre
  <2>2. call' = [call EXCEPT ![k] = Asked(r, type, mine)] /\ freshest' = freshest
    BY <2>1 DEF Call
  <2>3. \A h \in Kinds : call'[h] = call[h] \/ call'[h].stage = "saying"
    BY <2>2, AskedIs DEF IInv, WindowTypes
  <2>4. UNCHANGED <<count, delivered, buffer>>
    BY <1>10 DEF Pause, Resume, Start, Cancel, brokerVars
  <2> QED BY <2>2, <2>3, <2>4
<1> QED BY <1>2, <1>3, <1>4, <1>5, <1>6, <1>7, <1>8, <1>9, <1>10 DEF Next, Dispatch, Server

LEMMA EndSaidStep ==
    ASSUME IInv, EndSaid, [Next]_vars
    PROVE  EndSaid'
<1>0. /\ status \in [Runs -> Statuses] /\ active \in Runs \cup {NoRun}
      /\ ended \in [Runs -> SUBSET Terminal]
      /\ (at # "idle" \/ saying # "none" => active \in Runs)
      /\ \A r \in Runs : ended[r] \subseteq ended'[r]
      /\ run \in Runs \cup {NoRun}
  BY ManagerStep DEF IInv, ManagerTypes, WindowTypes
<1>1. CASE DispatcherSays
  BY <1>1 DEF DispatcherSays, EndSaid
<1>2. CASE Pop
  BY <1>2 DEF Pop, EndSaid
<1>3. CASE Begin \/ Hold \/ Unhold
  BY <1>3 DEF Begin, Hold, Unhold, EndSaid
<1>4. ASSUME NEW type \in Outcomes, End(type)
      PROVE  EndSaid'
  <2>1. active \in Runs /\ active' = active /\ saying' = type /\ saying' # "none"
    BY <1>4, <1>0, EventsAssumption DEF End
  <2>2. status'[active] = ShownAs[type] /\ ended'[active] = ended[active] \cup {ShownAs[type]}
    BY <1>4, <1>0, <2>1 DEF End
  <2> QED BY <2>1, <2>2 DEF EndSaid
<1>5. CASE UNCHANGED <<status, ended, active, at, saying>>
  BY <1>5 DEF EndSaid
<1>6. ASSUME UNCHANGED <<active, at, saying>>,
             \A r \in Runs : status[r] \in Terminal \cup {"CANCEL_REQUESTED"} =>
                                status'[r] \in {status[r], "CANCEL_REQUESTED"}
      PROVE  EndSaid'
  <2>1. CASE at = "idle" /\ saying # "none"
    <3>1. /\ active \in Runs /\ ShownAs[saying] \in ended[active] /\ ended[active] \subseteq Terminal
          /\ status[active] \in {ShownAs[saying], "CANCEL_REQUESTED"}
      BY <1>0, <2>1 DEF EndSaid
    <3>2. status'[active] \in {ShownAs[saying], "CANCEL_REQUESTED"} /\ ShownAs[saying] \in ended'[active]
      BY <1>0, <1>6, <3>1
    <3> QED BY <1>6, <2>1, <3>2 DEF EndSaid
  <2>2. CASE ~(at = "idle" /\ saying # "none")
    BY <1>6, <2>2 DEF EndSaid
  <2> QED BY <2>1, <2>2
<1>7. CASE Pause \/ Resume
  BY <1>0, <1>6, <1>7 DEF Pause, Resume, Terminal
<1>8. ASSUME NEW r \in Runs, Start(r) \/ Cancel(r)
      PROVE  EndSaid'
  BY <1>0, <1>6, <1>8 DEF Start, Cancel, Terminal
<1>9. Close \/ Connect \/ Handle \/ Clear => UNCHANGED <<status, ended, active, at, saying>>
  BY DEF Close, Connect, Handle, Clear, managerVars
<1>10. (\E k \in Kinds : CallSays(k) \/ CallAnswers(k) \/ Arrive(k)) => UNCHANGED <<status, ended, active, at, saying>>
  BY DEF CallSays, CallAnswers, Arrive, managerVars
<1>11. UNCHANGED vars => UNCHANGED <<status, ended, active, at, saying>>
  BY DEF vars, managerVars
<1> QED BY <1>1, <1>2, <1>3, <1>4, <1>5, <1>7, <1>8, <1>9, <1>10, <1>11 DEF Next, Dispatch, Server

(* A window in order was in order before, and the step is one of these.       *)
LEMMA StepKinds ==
    ASSUME IInv, Counted, EndSaid, [Next]_vars, InOrder'
    PROVE  /\ InOrder
           /\ \/ Writes \/ DispatcherPublishes \/ Handle
              \/ \E k \in Kinds : CallPublishes(k) \/ CallAnswers(k) \/ Arrive(k)
<1>0. /\ count \in Nat /\ delivered \in Nat /\ buffer \in Seq(Event) /\ Len(buffer) \in Nat
      /\ \A k \in Kinds : call[k].knows \in Nat
      /\ Muddled \notin Nat /\ Muddled < 0 /\ Muddled \in Int
  BY CountsAre
<1>1. /\ freshest' = delivered' /\ freshest' # Muddled
      /\ \A k \in Kinds : call'[k].stage = "answered" => call'[k].knows >= delivered'
  <2>1. delivered' \in Nat
    BY BrokerStep DEF BrokerTypes
  <2> QED BY <1>0, <2>1 DEF InOrder
<1>2. freshest \in Nat \cup {Muddled}
      /\ (freshest # Muddled => delivered = count - Len(buffer) /\ delivered <= freshest /\ freshest <= count)
  BY DEF Counted
<1>3. ASSUME delivered' = delivered, freshest' = freshest,
             \A k \in Kinds : call[k].stage = "answered" => call'[k] = call[k]
      PROVE  InOrder
  BY <1>1, <1>3 DEF InOrder
<1> DEFINE Goal ==
              /\ InOrder
              /\ \/ Writes \/ DispatcherPublishes \/ Handle
                 \/ \E k \in Kinds : CallPublishes(k) \/ CallAnswers(k) \/ Arrive(k)
<1>4. CASE DispatcherSays
  <2>1. active \in Runs /\ saying \in Types /\ Publish(active, saying)
    BY <1>4 DEF DispatcherSays, IInv, ManagerTypes
  <2>2. /\ UNCHANGED <<call, run, shown, status, ended>> /\ saying # "none" /\ saying' = "none"
        /\ active' = IF at = "idle" THEN NoRun ELSE active
    BY <1>4 DEF DispatcherSays, windowVars
  <2>3. Publishes(active, saying) /\ freshest' = freshest
    BY <1>1, <2>1, <2>2, PublishIs DEF Publishes
  <2>4. DispatcherPublishes
    BY <2>2, <2>3 DEF DispatcherPublishes
  <2> QED BY <1>3, <2>2, <2>3, <2>4 DEF Publishes
<1>5. ASSUME NEW k \in Kinds, CallSays(k)
      PROVE  Goal
  <2>1. /\ call[k].run \in Runs /\ call[k].type \in Types /\ Publish(call[k].run, call[k].type)
        /\ call \in [Kinds -> CallRecord] /\ call[k].stage = "saying"
        /\ call' = [call EXCEPT ![k].stage = "answering"]
        /\ UNCHANGED <<run, shown, status, ended, saying, active>>
    BY <1>5 DEF CallSays, IInv, WindowTypes, managerVars
  <2>2. \A h \in Kinds : IF h = k THEN call'[h].stage = "answering" /\ call'[h].run = call[h].run
                                  ELSE call'[h] = call[h]
    BY <2>1 DEF CallRecord
  <2>3. Publishes(call[k].run, call[k].type)
    BY <1>1, <2>1, PublishIs DEF Publishes
  <2>4. CallPublishes(k)
    BY <2>1, <2>2, <2>3 DEF CallPublishes
  <2>5. \A h \in Kinds : call[h].stage = "answered" => call'[h] = call[h]
    BY <2>1, <2>2
  <2>6. InOrder
    BY <1>3, <2>3, <2>5 DEF Publishes
  <2> QED BY <2>4, <2>6
<1>6. ASSUME NEW k \in Kinds, CallAnswers(k)
      PROVE  Goal
  <2>1. \A h \in Kinds : h # k => call'[h] = call[h]
    BY <1>6 DEF CallAnswers, IInv, WindowTypes
  <2>2. call[k].stage = "answering" /\ UNCHANGED <<delivered, freshest>>
    BY <1>6 DEF CallAnswers, brokerVars
  <2>3. \A h \in Kinds : call[h].stage = "answered" => call'[h] = call[h]
    BY <2>1, <2>2
  <2> QED BY <1>3, <1>6, <2>2, <2>3
<1>7. ASSUME NEW k \in Kinds, Arrive(k)
      PROVE  Goal
  <2>1. \A h \in Kinds : call'[h] = IF h = k THEN NoCall ELSE call[h]
    BY <1>7 DEF Arrive, IInv, WindowTypes
  <2>2. delivered' = delivered
    BY <1>7 DEF Arrive, brokerVars
  <2>3. freshest # Muddled /\ freshest' = call[k].knows /\ ~(call[k].knows < freshest)
    BY <1>1, <1>7 DEF Arrive, AppliesAnswer, Knowing
  <2>4. freshest = delivered /\ call[k].knows >= delivered
    BY <1>0, <1>1, <1>2, <2>2, <2>3
  <2>5. InOrder
    BY <1>1, <2>1, <2>2, <2>4 DEF InOrder
  <2> QED BY <1>7, <2>5
<1>8. CASE Handle
  <2>1. /\ buffer # <<>> /\ delivered' = Head(buffer).number /\ call' = call
    BY <1>8 DEF Handle
  <2>2. Len(buffer) >= 1 /\ Head(buffer) = buffer[1]
    BY <1>0, <2>1, TailOfEvents
  <2>3. delivered' = count - Len(buffer) + 1
    BY <1>0, <2>1, <2>2 DEF IInv, NewestKept
  <2>4. freshest # Muddled /\ freshest' = delivered' /\ ~(delivered' <= freshest)
    BY <1>1, <1>8, <2>1 DEF Handle, AppliesEvent, Knowing
  <2>5. freshest = delivered /\ delivered' = delivered + 1
    BY <1>0, <1>2, <2>3, <2>4
  <2>6. InOrder
    BY <1>0, <1>1, <2>1, <2>5 DEF InOrder
  <2> QED BY <1>8, <2>6
<1>9. ASSUME Writes
      PROVE  Goal
  <2>1. \A k \in Kinds : call[k].stage = "answered" => call'[k] = call[k]
    BY <1>9 DEF Writes
  <2> QED BY <1>3, <1>9, <2>1 DEF Writes
<1>10. CASE Close
  <2>1. /\ freshest' = IF buffer # <<>> THEN Muddled ELSE freshest
        /\ buffer' = <<>>
        /\ UNCHANGED <<managerVars, count, delivered, call, run, shown>>
    BY <1>10 DEF Close
  <2>2. buffer = <<>>
    BY <1>1, <2>1
  <2>3. Writes
    BY <2>1, <2>2 DEF Writes, managerVars
  <2> QED BY <1>9, <2>3
<1>11. CASE Connect \/ Clear \/ Unhold \/ UNCHANGED vars
  <2>1. /\ UNCHANGED <<count, buffer, delivered, freshest, status, ended, saying, active, call>>
        /\ run' = NoRun \/ UNCHANGED <<run, shown>>
    BY <1>11 DEF Connect, Clear, Unhold, vars, brokerVars, managerVars, windowVars
  <2>2. Writes
    BY <2>1 DEF Writes
  <2> QED BY <1>9, <2>2
<1>12. CASE Pop
  <2>1. UNCHANGED <<count, buffer, delivered, freshest, status, ended, call, run, shown>>
        /\ saying = "none" /\ active = NoRun
    BY <1>12 DEF Pop, brokerVars, windowVars, EndSaid
  <2>2. Writes
    BY <2>1 DEF Writes
  <2> QED BY <1>9, <2>2
<1>13. CASE Begin \/ Hold \/ \E type \in Outcomes : End(type)
  <2>1. /\ UNCHANGED <<count, buffer, delivered, freshest, call, run, shown, active>>
        /\ saying' # "none" /\ active \in Runs
        /\ \A r \in Runs \ {active} : status'[r] = status[r] /\ ended'[r] = ended[r]
    BY <1>13, EventsAssumption DEF Begin, Hold, End, brokerVars, windowVars, IInv, ManagerTypes
  <2>2. \A r \in Runs : (status'[r] = status[r] /\ ended'[r] = ended[r]) \/ Dispatching(r)'
    BY <2>1 DEF Dispatching
  <2>3. Writes
    BY <2>1, <2>2 DEF Writes
  <2> QED BY <1>9, <2>3
<1>14. ASSUME NEW k \in Kinds, NEW r \in Runs, NEW type \in Types, NEW mine \in BOOLEAN,
              Call(k, r, type, mine), UNCHANGED <<count, buffer, delivered, saying, active>>,
              \A s \in Runs \ {r} : status'[s] = status[s] /\ ended'[s] = ended[s]
       PROVE  Goal
  <2>1. /\ call[k].stage = "none" /\ UNCHANGED <<run, shown, freshest>>
        /\ call' = [call EXCEPT ![k] = Asked(r, type, mine)]
    BY <1>14, NoCallIs DEF Call
  <2>2. \A h \in Kinds : call'[h] = IF h = k THEN Asked(r, type, mine) ELSE call[h]
    BY <2>1 DEF IInv, WindowTypes
  <2>3. call'[k].run = r /\ call'[k].stage = "saying"
    BY <2>2, AskedIs
  <2>4. \A s \in Runs : (status'[s] = status[s] /\ ended'[s] = ended[s]) \/ \E h \in Kinds : Says(h, s)'
    BY <1>14, <2>3 DEF Says
  <2>5. Writes
    BY <1>14, <2>1, <2>2, <2>3, <2>4 DEF Writes
  <2> QED BY <1>9, <2>5
<1>15. ASSUME Pause \/ Resume
       PROVE  Goal
  <2>1. /\ UNCHANGED <<count, buffer, delivered, saying, active>>
        /\ \A s \in Runs \ {run} : status'[s] = status[s] /\ ended'[s] = ended[s]
    BY <1>15 DEF Pause, Resume, brokerVars, IInv, ManagerTypes
  <2>2. {"pause_requested", "resumed"} \subseteq Types /\ {"pause", "resume"} \subseteq Kinds
    BY TypesAre DEF Kinds
  <2>3. run \in Runs /\ (Call("pause", run, "pause_requested", TRUE) \/ Call("resume", run, "resumed", TRUE))
    BY <1>15, ClicksAsk
  <2>4. CASE Call("pause", run, "pause_requested", TRUE)
    BY <1>14, <2>1, <2>2, <2>3, <2>4
  <2>5. CASE Call("resume", run, "resumed", TRUE)
    BY <1>14, <2>1, <2>2, <2>3, <2>5
  <2> QED BY <2>3, <2>4, <2>5
<1>16. ASSUME NEW r \in Runs, Start(r) \/ Cancel(r)
       PROVE  Goal
  <2>1. /\ UNCHANGED <<count, buffer, delivered, saying, active>>
        /\ \A s \in Runs \ {r} : status'[s] = status[s] /\ ended'[s] = ended[s]
    BY <1>16 DEF Start, Cancel, brokerVars, IInv, ManagerTypes
  <2>2. {"queued", "cancel_requested", "cancelled"} \subseteq Types /\ {"start", "cancel"} \subseteq Kinds
    BY TypesAre DEF Kinds
  <2>3. PICK k \in {"start", "cancel"}, type \in {"queued", "cancel_requested", "cancelled"}, mine \in BOOLEAN :
            Call(k, r, type, mine)
    BY <1>16, ClicksAsk
  <2> QED BY <1>14, <2>1, <2>2, <2>3
<1> QED BY <1>4, <1>5, <1>6, <1>7, <1>8, <1>10, <1>11, <1>12, <1>13, <1>15, <1>16 DEF Next, Dispatch, Server

-----------------------------------------------------------------------------
(* What the kinds of steps do to the queue and to the calls.                  *)
LEMMA PublishesIs ==
    ASSUME IInv, NEW r \in Runs, NEW type \in Types, Publishes(r, type)
    PROVE  /\ DOMAIN buffer' = 1..(Len(buffer) + 1) /\ DOMAIN buffer = 1..Len(buffer)
           /\ Len(buffer) \in Nat
           /\ \A i \in DOMAIN buffer : i \in DOMAIN buffer' /\ buffer'[i] = buffer[i]
           /\ LET e == buffer'[Len(buffer) + 1] IN e.number = count + 1 /\ e.run = r /\ e.type = type
           /\ UNCHANGED <<delivered, status, ended, run, shown>>
<1>1. buffer \in Seq(Event) /\ count \in Nat /\ Spoken(r, type) \in Event
  BY CountsAre DEF Spoken, Event
<1>2. buffer' = Append(buffer, Spoken(r, type))
  BY DEF Publishes
<1>3. /\ buffer' \in Seq(Event) /\ Len(buffer') = Len(buffer) + 1
      /\ buffer'[Len(buffer) + 1] = Spoken(r, type)
      /\ \A i \in 1..Len(buffer) : buffer'[i] = buffer[i]
  BY <1>1, <1>2, AppendEvent
<1>4. /\ Spoken(r, type).number = count + 1 /\ Spoken(r, type).run = r /\ Spoken(r, type).type = type
  BY DEF Spoken
<1>5. /\ DOMAIN buffer' = 1..(Len(buffer) + 1) /\ DOMAIN buffer = 1..Len(buffer) /\ Len(buffer) \in Nat
  BY <1>1, <1>3
<1> QED BY <1>3, <1>4, <1>5 DEF Publishes

LEMMA HandleIs ==
    ASSUME IInv, Handle
    PROVE  /\ DOMAIN buffer = 1..Len(buffer) /\ Len(buffer) \in Nat /\ Len(buffer) >= 1
           /\ DOMAIN buffer' = 1..(Len(buffer) - 1)
           /\ \A i \in DOMAIN buffer' : i + 1 \in DOMAIN buffer /\ buffer'[i] = buffer[i + 1]
           /\ \A i \in DOMAIN buffer : i # 1 => i - 1 \in DOMAIN buffer' /\ buffer'[i - 1] = buffer[i]
           /\ delivered' = buffer[1].number
           /\ \A i \in DOMAIN buffer : i > 1 => buffer[i].number > delivered'
           /\ shown' = IF buffer[1].run = run THEN ShownAs[buffer[1].type] ELSE shown
           /\ UNCHANGED <<call, run, status, ended, active, saying>>
<1>1. buffer \in Seq(Event) /\ buffer # <<>> /\ count \in Nat
  BY CountsAre DEF Handle
<1>2. /\ buffer' = Tail(buffer) /\ delivered' = Head(buffer).number
      /\ shown' = IF Head(buffer).run = run THEN ShownAs[Head(buffer).type] ELSE shown
      /\ UNCHANGED <<call, run, status, ended, active, saying>>
  BY DEF Handle, managerVars
<1>3. /\ buffer' \in Seq(Event) /\ Len(buffer') = Len(buffer) - 1 /\ Len(buffer) >= 1
      /\ \A i \in 1..Len(buffer') : buffer'[i] = buffer[i + 1]
      /\ Head(buffer) = buffer[1]
  BY <1>1, <1>2, TailOfEvents
<1>4. DOMAIN buffer = 1..Len(buffer) /\ Len(buffer) \in Nat /\ DOMAIN buffer' = 1..(Len(buffer) - 1)
  BY <1>1, <1>3
<1>5. \A i \in DOMAIN buffer' : i + 1 \in DOMAIN buffer /\ buffer'[i] = buffer[i + 1]
  BY <1>3, <1>4
<1>6. \A i \in DOMAIN buffer : i # 1 => i - 1 \in DOMAIN buffer' /\ buffer'[i - 1] = buffer[i]
  <2> SUFFICES ASSUME NEW i \in DOMAIN buffer, i # 1
               PROVE  i - 1 \in DOMAIN buffer' /\ buffer'[i - 1] = buffer[i]
    OBVIOUS
  <2>1. i \in Nat /\ i - 1 \in DOMAIN buffer' /\ (i - 1) + 1 = i
    BY <1>4
  <2> QED BY <1>5, <2>1
<1>7. \A i \in DOMAIN buffer : i > 1 => buffer[i].number > delivered'
  <2>1. \A i \in DOMAIN buffer : buffer[i].number = count - Len(buffer) + i
    BY DEF IInv, NewestKept
  <2>2. 1 \in DOMAIN buffer /\ delivered' = buffer[1].number
    BY <1>2, <1>3, <1>4
  <2> QED BY <1>1, <1>4, <2>1, <2>2
<1> QED BY <1>2, <1>3, <1>4, <1>5, <1>6, <1>7

LEMMA CallsAre ==
    ASSUME IInv
    PROVE  /\ \A k \in Kinds : call[k].stage # "none" => call[k].run \in Runs
           /\ \A k \in Kinds : call[k].stage = "saying" => call[k].type \in Types
           /\ \A k \in Kinds : CallAnswers(k) =>
                 /\ call[k].stage = "answering" /\ call'[k].stage = "answered"
                 /\ call'[k].run = call[k].run /\ call'[k].snapshot = status[call[k].run]
                 /\ call'[k].knows = count
                 /\ \A h \in Kinds \ {k} : call'[h] = call[h]
                 /\ UNCHANGED <<buffer, count, delivered, status, ended, active, saying, run, shown>>
           /\ \A k \in Kinds : Arrive(k) =>
                 /\ call[k].stage = "answered" /\ call'[k] = NoCall
                 /\ \A h \in Kinds \ {k} : call'[h] = call[h]
                 /\ UNCHANGED <<buffer, count, delivered, status, ended, active, saying>>
<1>1. call \in [Kinds -> CallRecord]
  BY DEF IInv, WindowTypes
<1>2. ASSUME NEW k \in Kinds, CallAnswers(k)
      PROVE  /\ call[k].stage = "answering" /\ call'[k].stage = "answered"
             /\ call'[k].run = call[k].run /\ call'[k].snapshot = status[call[k].run]
             /\ call'[k].knows = count
             /\ \A h \in Kinds \ {k} : call'[h] = call[h]
             /\ UNCHANGED <<buffer, count, delivered, status, ended, active, saying, run, shown>>
  BY <1>1, <1>2 DEF CallAnswers, CallRecord, managerVars, brokerVars
<1>3. ASSUME NEW k \in Kinds, Arrive(k)
      PROVE  /\ call[k].stage = "answered" /\ call'[k] = NoCall
             /\ \A h \in Kinds \ {k} : call'[h] = call[h]
             /\ UNCHANGED <<buffer, count, delivered, status, ended, active, saying>>
  BY <1>1, <1>3 DEF Arrive, managerVars, brokerVars
<1> QED BY <1>2, <1>3 DEF IInv, WindowTypes

(* The status an answer carries is out of date only if its writer has still   *)
(* to speak, or has spoken since.                                             *)
LEMMA AnswersStep ==
    ASSUME RestInv, [Next]_vars, InOrder'
    PROVE  AnswersUpToDate'
<1>0. IInv /\ Counted /\ EndSaid /\ InOrder /\ AnswersUpToDate
  BY StepKinds DEF RestInv
<1> SUFFICES ASSUME NEW k \in Kinds, call'[k].stage = "answered"
             PROVE  \/ call'[k].snapshot = status'[call'[k].run]
                    \/ \E i \in DOMAIN buffer' : buffer'[i].run = call'[k].run /\ buffer'[i].number > call'[k].knows
                    \/ \E h \in Kinds : call'[h].run = call'[k].run /\ call'[h].stage = "saying"
                    \/ saying' # "none" /\ active' = call'[k].run
  BY DEF AnswersUpToDate, Says, Dispatching
<1> PICK r : r = call'[k].run
  OBVIOUS
<1> DEFINE Goal == \/ call'[k].snapshot = status'[r]
                   \/ \E i \in DOMAIN buffer' : buffer'[i].run = r /\ buffer'[i].number > call'[k].knows
                   \/ \E h \in Kinds : Says(h, r)'
                   \/ Dispatching(r)'
<1>a. SUFFICES Goal
  BY DEF Says, Dispatching
<1>1. /\ \A h \in Kinds : call[h].stage # "none" => call[h].run \in Runs
      /\ \A h \in Kinds : call[h].stage = "saying" => call[h].type \in Types
      /\ call[k].knows \in Nat /\ count \in Nat
      /\ \A i \in DOMAIN buffer : i \in Nat /\ buffer[i].number \in Nat
  BY <1>0, CallsAre, CountsAre
<1>2. CASE call'[k] = call[k] /\ call[k].stage = "answered"
  <2>1. r \in Runs /\ call[k].run = r /\ call[k].knows <= count
    BY <1>0, <1>1, <1>2 DEF Counted
  <2>2. \/ call[k].snapshot = status[r]
        \/ \E i \in DOMAIN buffer : buffer[i].run = r /\ buffer[i].number > call[k].knows
        \/ \E h \in Kinds : Says(h, r)
        \/ Dispatching(r)
    BY <1>0, <1>2, <2>1 DEF AnswersUpToDate
  <2>3. CASE Writes
    <3>1. /\ buffer' = buffer
          /\ (status'[r] = status[r] \/ Dispatching(r)' \/ \E h \in Kinds : Says(h, r)')
      BY <2>1, <2>3 DEF Writes
    <3>2. (\E h \in Kinds : Says(h, r)) => \E h \in Kinds : Says(h, r)'
      BY <2>3 DEF Writes, Says
    <3>3. Dispatching(r) => Dispatching(r)'
      BY <2>3 DEF Writes, Dispatching
    <3>4. Goal
      BY <1>2, <2>2, <3>1, <3>2, <3>3
    <3> QED BY <2>1, <3>4
  <2>4. CASE DispatcherPublishes
    <3>1. active \in Runs /\ saying \in Types /\ Publishes(active, saying) /\ call' = call
      BY <1>0, <2>4 DEF DispatcherPublishes, IInv, ManagerTypes
    <3>2. (\E h \in Kinds : Says(h, r)) => \E h \in Kinds : Says(h, r)'
      BY <3>1 DEF Says
    <3>3. CASE Dispatching(r)
      <4>1. Len(buffer) + 1 \in DOMAIN buffer' /\ buffer'[Len(buffer) + 1].run = r
            /\ buffer'[Len(buffer) + 1].number = count + 1
        BY <1>0, <3>1, <3>3, PublishesIs DEF Dispatching
      <4> QED BY <1>1, <1>2, <2>1, <4>1
    <3>4. Goal
      BY <1>0, <1>2, <2>2, <3>1, <3>2, <3>3, PublishesIs
    <3> QED BY <2>1, <3>4
  <2>5. ASSUME NEW c \in Kinds, CallPublishes(c)
        PROVE  Goal
    <3>1. call[c].run \in Runs /\ call[c].type \in Types /\ Publishes(call[c].run, call[c].type)
          /\ UNCHANGED <<saying, active>> /\ \A h \in Kinds \ {c} : call'[h] = call[h]
      BY <1>1, <2>5 DEF CallPublishes
    <3>2. CASE \E h \in Kinds \ {c} : Says(h, r)
      <4>1. \E h \in Kinds : Says(h, r)'
        BY <3>1, <3>2 DEF Says
      <4> QED BY <4>1
    <3>3. CASE Says(c, r)
      <4>1. Len(buffer) + 1 \in DOMAIN buffer' /\ buffer'[Len(buffer) + 1].run = r
            /\ buffer'[Len(buffer) + 1].number = count + 1
        BY <1>0, <3>1, <3>3, PublishesIs DEF Says
      <4> QED BY <1>1, <1>2, <2>1, <4>1
    <3>4. Dispatching(r) => Dispatching(r)'
      BY <3>1 DEF Dispatching
    <3> QED BY <1>0, <1>2, <2>2, <3>1, <3>2, <3>3, <3>4, PublishesIs
  <2>6. ASSUME NEW c \in Kinds, CallAnswers(c) \/ Arrive(c)
        PROVE  Goal
    <3>1. UNCHANGED <<buffer, status, active, saying>>
          /\ call[c].stage # "saying" /\ \A h \in Kinds \ {c} : call'[h] = call[h]
      BY <1>0, <2>6, CallsAre
    <3>2. (\E h \in Kinds : Says(h, r)) => \E h \in Kinds : Says(h, r)'
      BY <3>1 DEF Says
    <3>3. Dispatching(r) => Dispatching(r)'
      BY <3>1 DEF Dispatching
    <3> QED BY <1>2, <2>2, <3>1, <3>2, <3>3
  <2>7. CASE Handle
    <3>1. UNCHANGED <<call, status, active, saying>>
      BY <1>0, <2>7, HandleIs
    <3>2. ASSUME NEW i \in DOMAIN buffer, buffer[i].run = r, buffer[i].number > call[k].knows
          PROVE  \E j \in DOMAIN buffer' : buffer'[j].run = r /\ buffer'[j].number > call'[k].knows
      <4>1. i # 1
        <5>1. call[k].knows >= delivered' /\ delivered' = buffer[1].number
          BY <1>0, <1>2, <2>7, HandleIs DEF InOrder
        <5> QED BY <1>1, <3>2, <5>1
      <4> QED BY <1>0, <1>2, <2>7, <3>2, <4>1, HandleIs
    <3>3. (\E h \in Kinds : Says(h, r)) => \E h \in Kinds : Says(h, r)'
      BY <3>1 DEF Says
    <3>4. Dispatching(r) => Dispatching(r)'
      BY <3>1 DEF Dispatching
    <3>5. Goal
      BY <1>2, <2>2, <3>1, <3>2, <3>3, <3>4
    <3> QED BY <2>1, <3>5
  <2>8. Goal
    BY <1>0, <2>1, <2>3, <2>4, <2>5, <2>6, <2>7, StepKinds
  <2> QED BY <2>1, <2>8
<1>3. CASE CallAnswers(k)
  BY <1>0, <1>3, CallsAre
<1>4. CallAnswers(k) \/ (call'[k] = call[k] /\ call[k].stage = "answered")
  <2>1. Writes => call'[k] = call[k]
    BY DEF Writes
  <2>2. DispatcherPublishes \/ Handle => call'[k] = call[k]
    BY <1>0, HandleIs DEF DispatcherPublishes
  <2>3. \A c \in Kinds : CallPublishes(c) => call'[k] = call[k]
    BY DEF CallPublishes
  <2>4. \A c \in Kinds : CallAnswers(c) /\ c # k => call'[k] = call[k]
    BY <1>0, CallsAre
  <2>5. \A c \in Kinds : Arrive(c) => call'[k] = call[k]
    BY <1>0, CallsAre, NoCallIs
  <2> QED BY <1>0, <2>1, <2>2, <2>3, <2>4, <2>5, StepKinds
<1> QED BY <1>2, <1>3, <1>4

(* What an arrival tells when the window stays in order: the answer is about  *)
(* the very event the window handled last, and is taken unless it concerns    *)
(* another run than the one shown.                                            *)
LEMMA ArriveInOrder ==
    ASSUME RestInv, [Next]_vars, InOrder', NEW c \in Kinds, Arrive(c)
    PROVE  /\ call[c].knows = delivered
           /\ \/ run' = call[c].run /\ shown' = call[c].snapshot
              \/ run' = run /\ shown' = shown /\ call[c].run # run
<1>1. freshest' = Muddled \/ freshest' = call[c].knows
  BY DEF Arrive, AppliesAnswer, Knowing
<1>2. freshest' # Muddled
  <2>1. freshest' = delivered' /\ delivered' \in Nat
    BY BrokerStep DEF InOrder, RestInv, BrokerTypes
  <2> QED BY <2>1 DEF Muddled
<1>3. freshest' = delivered
  BY DEF InOrder, Arrive, brokerVars
<1>4. \/ run' = call[c].run /\ shown' = call[c].snapshot
      \/ run' = run /\ shown' = shown /\ call[c].run # run
  BY <1>2 DEF Arrive, AppliesAnswer, Knowing
<1> QED BY <1>1, <1>2, <1>3, <1>4

(* The last event of a run is out of date only if the call that published it, *)
(* or a later one, has still to answer.                                       *)
LEMMA EventsStep ==
    ASSUME RestInv, [Next]_vars, InOrder'
    PROVE  EventsUpToDate'
<1>0. IInv /\ Counted /\ EndSaid /\ InOrder /\ EventsUpToDate
  BY StepKinds DEF RestInv
<1>1. /\ \A h \in Kinds : call[h].stage # "none" => call[h].run \in Runs
      /\ \A h \in Kinds : call[h].stage = "saying" => call[h].type \in Types
      /\ count \in Nat /\ delivered \in Nat /\ Len(buffer) \in Nat
      /\ \A i \in DOMAIN buffer : /\ i \in Nat /\ buffer[i].number \in Nat
                                  /\ buffer[i].run \in Runs /\ buffer[i].number <= count
                                  /\ buffer[i].number > delivered
  <2>1. \A i \in DOMAIN buffer : /\ buffer[i].number = count - Len(buffer) + i
                                 /\ buffer[i].number > delivered
    BY <1>0 DEF IInv, NewestKept
  <2>2. count \in Nat /\ Len(buffer) \in Nat /\ DOMAIN buffer = 1..Len(buffer)
    BY <1>0, CountsAre
  <2>3. \A i \in DOMAIN buffer : count - Len(buffer) + i <= count
    BY <2>2
  <2> QED BY <1>0, <2>1, <2>2, <2>3, CallsAre, CountsAre
<1>2. NoRun \notin Runs
  BY EventsAssumption
<1> SUFFICES ASSUME NEW i \in DOMAIN buffer', buffer'[i].run # active',
                    \A j \in DOMAIN buffer' : j > i => buffer'[j].run # buffer'[i].run
             PROVE  \/ \/ ShownAs[buffer'[i].type] = status'[buffer'[i].run]
                       \/ /\ status'[buffer'[i].run] = "CANCEL_REQUESTED"
                          /\ ShownAs[buffer'[i].type] \in ended'[buffer'[i].run]
                    \/ \E k \in Kinds : /\ call'[k].run = buffer'[i].run
                                        /\ call'[k].stage \in {"saying", "answering"}
                    \/ \E k \in Kinds : /\ call'[k].run = buffer'[i].run /\ call'[k].stage = "answered"
                                        /\ call'[k].knows >= buffer'[i].number
  BY DEF EventsUpToDate, LastOfRun, Right, Unanswered, Answered
<1> PICK r, s, n : r = buffer'[i].run /\ s = ShownAs[buffer'[i].type] /\ n = buffer'[i].number
  OBVIOUS
<1> DEFINE Goal == \/ Right(r, s)'
                   \/ \E k \in Kinds : Unanswered(k, r)'
                   \/ \E k \in Kinds : Answered(k, r)' /\ call'[k].knows >= n
           Before(j) == /\ j \in DOMAIN buffer /\ r # active /\ LastOfRun(j)
                        /\ r = buffer[j].run /\ s = ShownAs[buffer[j].type] /\ n = buffer[j].number
<1>3. SUFFICES Goal
  BY DEF Right, Unanswered, Answered
<1>4. ASSUME NEW j, Before(j)
      PROVE  /\ r \in Runs /\ n \in Nat /\ n <= count /\ n > delivered
             /\ \/ Right(r, s)
                \/ \E k \in Kinds : Unanswered(k, r)
                \/ \E k \in Kinds : Answered(k, r) /\ call[k].knows >= n
  BY <1>0, <1>1, <1>4 DEF EventsUpToDate
<1>5. CASE Writes
  <2>1. buffer' = buffer /\ (active' = active \/ active = NoRun)
    BY <1>5 DEF Writes
  <2>2. Before(i)
    BY <1>1, <1>2, <2>1 DEF LastOfRun
  <2>3. /\ \A k \in Kinds : call[k].stage # "none" => call'[k] = call[k]
        /\ \/ status'[r] = status[r] /\ ended'[r] = ended[r]
           \/ Dispatching(r)'
           \/ \E k \in Kinds : Says(k, r)'
    BY <1>4, <1>5, <2>2 DEF Writes
  <2>4. Right(r, s) => Right(r, s)' \/ \E k \in Kinds : Unanswered(k, r)'
    BY <2>3 DEF Right, Dispatching, Says, Unanswered
  <2>5. (\E k \in Kinds : Unanswered(k, r)) => \E k \in Kinds : Unanswered(k, r)'
    BY <2>3 DEF Unanswered
  <2>6. (\E k \in Kinds : Answered(k, r) /\ call[k].knows >= n) =>
            \E k \in Kinds : Answered(k, r)' /\ call'[k].knows >= n
    BY <2>3 DEF Answered
  <2> QED BY <1>4, <2>2, <2>4, <2>5, <2>6
<1>6. ASSUME UNCHANGED <<status, ended>>, NEW j, Before(j),
             \A k \in Kinds : Unanswered(k, r) \/ (Answered(k, r) /\ call[k].knows >= n) => call'[k] = call[k]
      PROVE  Goal
  <2>1. Right(r, s) => Right(r, s)'
    BY <1>6 DEF Right
  <2>2. (\E k \in Kinds : Unanswered(k, r)) => \E k \in Kinds : Unanswered(k, r)'
    BY <1>6 DEF Unanswered
  <2>3. (\E k \in Kinds : Answered(k, r) /\ call[k].knows >= n) =>
            \E k \in Kinds : Answered(k, r)' /\ call'[k].knows >= n
    BY <1>6 DEF Answered
  <2> QED BY <1>4, <1>6, <2>1, <2>2, <2>3
<1>7. ASSUME NEW q \in Runs, NEW type \in Types, Publishes(q, type)
      PROVE  /\ i = Len(buffer) + 1 => r = q /\ s = ShownAs[type]
             /\ i # Len(buffer) + 1 => /\ i \in DOMAIN buffer /\ r # q /\ LastOfRun(i)
                                       /\ r = buffer[i].run /\ s = ShownAs[buffer[i].type]
                                       /\ n = buffer[i].number
  <2>1. /\ DOMAIN buffer' = 1..(Len(buffer) + 1) /\ DOMAIN buffer = 1..Len(buffer)
        /\ \A j \in DOMAIN buffer : j \in DOMAIN buffer' /\ buffer'[j] = buffer[j]
        /\ buffer'[Len(buffer) + 1].run = q /\ buffer'[Len(buffer) + 1].type = type
    BY <1>0, <1>7, PublishesIs
  <2>2. CASE i # Len(buffer) + 1
    <3>1. i \in DOMAIN buffer /\ Len(buffer) + 1 \in DOMAIN buffer' /\ Len(buffer) + 1 > i
      BY <1>1, <2>1, <2>2
    <3>2. r # q
      BY <2>1, <3>1
    <3>3. LastOfRun(i)
      BY <2>1, <3>1 DEF LastOfRun
    <3> QED BY <2>1, <2>2, <3>1, <3>2, <3>3
  <2> QED BY <2>1, <2>2
<1>8. CASE DispatcherPublishes
  <2>1. /\ active \in Runs /\ saying \in Types /\ saying # "none" /\ Publishes(active, saying) /\ call' = call
        /\ active' = IF at = "idle" THEN NoRun ELSE active
    BY <1>0, <1>8 DEF DispatcherPublishes, IInv, ManagerTypes
  <2>2. UNCHANGED <<status, ended>>
    BY <2>1 DEF Publishes
  <2>3. CASE i = Len(buffer) + 1
    <3>1. r = active /\ s = ShownAs[saying] /\ at = "idle"
      BY <1>7, <2>1, <2>3
    <3>2. s \in ended[r] /\ status[r] \in {s, "CANCEL_REQUESTED"}
      BY <1>0, <2>1, <3>1 DEF EndSaid
    <3>3. Right(r, s)'
      BY <2>2, <3>2 DEF Right
    <3> QED BY <3>3
  <2>4. CASE i # Len(buffer) + 1
    BY <1>6, <1>7, <2>1, <2>2, <2>4
  <2> QED BY <2>3, <2>4
<1>9. ASSUME NEW c \in Kinds, CallPublishes(c)
      PROVE  Goal
  <2>1. /\ call[c].run \in Runs /\ call[c].type \in Types /\ Publishes(call[c].run, call[c].type)
        /\ call'[c].run = call[c].run /\ call'[c].stage = "answering"
        /\ \A h \in Kinds \ {c} : call'[h] = call[h]
        /\ active' = active
    BY <1>1, <1>9 DEF CallPublishes
  <2>2. UNCHANGED <<status, ended>>
    BY <2>1 DEF Publishes
  <2>3. CASE i = Len(buffer) + 1
    <3>1. r = call[c].run
      BY <1>7, <2>1, <2>3
    <3>2. Unanswered(c, r)'
      BY <2>1, <3>1 DEF Unanswered
    <3> QED BY <3>2
  <2>4. CASE i # Len(buffer) + 1
    <3>1. Before(i) /\ call[c].run # r
      BY <1>7, <2>1, <2>4
    <3>2. \A k \in Kinds : Unanswered(k, r) \/ (Answered(k, r) /\ call[k].knows >= n) => call'[k] = call[k]
      BY <2>1, <3>1 DEF Unanswered, Answered
    <3> QED BY <1>6, <2>2, <3>1, <3>2
  <2> QED BY <2>3, <2>4
<1>10. ASSUME NEW c \in Kinds, CallAnswers(c)
       PROVE  Goal
  <2>1. /\ call[c].stage = "answering" /\ call'[c].stage = "answered" /\ call'[c].run = call[c].run
        /\ call'[c].knows = count /\ \A h \in Kinds \ {c} : call'[h] = call[h]
        /\ UNCHANGED <<buffer, status, ended, active>>
    BY <1>0, <1>10, CallsAre
  <2>2. Before(i)
    BY <2>1 DEF LastOfRun
  <2>3. CASE Unanswered(c, r)
    <3>1. Answered(c, r)' /\ call'[c].knows >= n
      BY <1>1, <1>4, <2>1, <2>2, <2>3 DEF Unanswered, Answered
    <3> QED BY <3>1
  <2>4. CASE ~Unanswered(c, r)
    <3>1. \A k \in Kinds : Unanswered(k, r) \/ (Answered(k, r) /\ call[k].knows >= n) => call'[k] = call[k]
      BY <2>1, <2>4 DEF Answered
    <3> QED BY <1>6, <2>1, <2>2, <3>1
  <2> QED BY <2>3, <2>4
<1>11. ASSUME NEW c \in Kinds, Arrive(c)
       PROVE  Goal
  <2>1. /\ call[c].stage = "answered" /\ \A h \in Kinds \ {c} : call'[h] = call[h]
        /\ UNCHANGED <<buffer, status, ended, active>>
    BY <1>0, <1>11, CallsAre
  <2>2. call[c].knows = delivered
    BY <1>11, ArriveInOrder
  <2>3. Before(i)
    BY <2>1 DEF LastOfRun
  <2>4. ~(call[c].knows >= n)
    BY <1>1, <1>4, <2>2, <2>3
  <2>5. \A k \in Kinds : Unanswered(k, r) \/ (Answered(k, r) /\ call[k].knows >= n) => call'[k] = call[k]
    BY <2>1, <2>4 DEF Unanswered
  <2> QED BY <1>6, <2>1, <2>3, <2>5
<1>12. CASE Handle
  <2>1. /\ i + 1 \in DOMAIN buffer /\ buffer'[i] = buffer[i + 1] /\ i \in Nat
        /\ UNCHANGED <<call, status, ended, active>>
        /\ \A j \in DOMAIN buffer : j \in Nat /\ (j # 1 => j - 1 \in DOMAIN buffer' /\ buffer'[j - 1] = buffer[j])
    BY <1>0, <1>1, <1>12, HandleIs
  <2>2. ASSUME NEW j \in DOMAIN buffer, j > i + 1
        PROVE  buffer[j].run # r
    <3>1. j # 1 /\ j - 1 > i
      BY <2>1, <2>2
    <3> QED BY <2>1, <3>1
  <2>3. LastOfRun(i + 1)
    BY <2>1, <2>2 DEF LastOfRun
  <2>4. Before(i + 1)
    BY <2>1, <2>3
  <2> QED BY <1>6, <2>1, <2>4
<1> QED BY <1>0, <1>5, <1>8, <1>9, <1>10, <1>11, <1>12, StepKinds

(* What the window shows is out of date only if an event or an answer about   *)
(* the run is still to come.                                                  *)
LEMMA ShownRunStep ==
    ASSUME RestInv, [Next]_vars, InOrder'
    PROVE  ShownUpToDate'
<1>0. IInv /\ Counted /\ EndSaid /\ InOrder /\ AnswersUpToDate /\ EventsUpToDate /\ ShownUpToDate
  BY StepKinds DEF RestInv
<1>1. /\ \A h \in Kinds : call[h].stage # "none" => call[h].run \in Runs
      /\ \A h \in Kinds : call[h].stage = "saying" => call[h].type \in Types
      /\ run \in Runs \cup {NoRun}
  BY <1>0, CallsAre DEF IInv, WindowTypes
<1> SUFFICES ASSUME run' # NoRun, run' # active', \A i \in DOMAIN buffer' : buffer'[i].run # run'
             PROVE  \/ \/ shown' = status'[run']
                       \/ status'[run'] = "CANCEL_REQUESTED" /\ shown' \in ended'[run']
                    \/ \E k \in Kinds : /\ call'[k].run = run'
                                        /\ call'[k].stage \in {"saying", "answering", "answered"}
  BY DEF ShownUpToDate, Right, Unanswered, Answered
<1> PICK r, s : r = run' /\ s = shown'
  OBVIOUS
<1> DEFINE Open(k) == Unanswered(k, r) \/ Answered(k, r)
           Goal == Right(r, s)' \/ \E k \in Kinds : Open(k)'
<1>2. SUFFICES Goal
  BY DEF Right, Unanswered, Answered
<1>3. ASSUME run' = run, shown' = shown, r # active, \A i \in DOMAIN buffer : buffer[i].run # r
      PROVE  r \in Runs /\ (Right(r, s) \/ \E k \in Kinds : Open(k))
  BY <1>0, <1>1, <1>3 DEF ShownUpToDate
<1>4. CASE Writes
  <2>1. buffer' = buffer /\ (active' = active \/ active = NoRun) /\ UNCHANGED <<run, shown>>
    BY <1>4 DEF Writes
  <2>2. r \in Runs /\ (Right(r, s) \/ \E k \in Kinds : Open(k))
    BY <1>3, <2>1
  <2>3. /\ \A k \in Kinds : call[k].stage # "none" => call'[k] = call[k]
        /\ \/ status'[r] = status[r] /\ ended'[r] = ended[r]
           \/ Dispatching(r)'
           \/ \E k \in Kinds : Says(k, r)'
    BY <1>4, <2>2 DEF Writes
  <2>4. Right(r, s) => Right(r, s)' \/ \E k \in Kinds : Open(k)'
    BY <2>3 DEF Right, Dispatching, Says, Unanswered
  <2>5. (\E k \in Kinds : Open(k)) => \E k \in Kinds : Open(k)'
    BY <2>3 DEF Unanswered, Answered
  <2> QED BY <2>2, <2>4, <2>5
<1>5. ASSUME UNCHANGED <<status, ended, run, shown>>, r # active,
             \A i \in DOMAIN buffer : buffer[i].run # r,
             \A k \in Kinds : Open(k) => Open(k)'
      PROVE  Goal
  <2>1. Right(r, s) => Right(r, s)'
    BY <1>5 DEF Right
  <2> QED BY <1>3, <1>5, <2>1
<1>6. ASSUME NEW q \in Runs, NEW type \in Types, Publishes(q, type)
      PROVE  /\ UNCHANGED <<status, ended, run, shown>> /\ q # r
             /\ \A i \in DOMAIN buffer : buffer[i].run # r
  <2>1. /\ DOMAIN buffer' = 1..(Len(buffer) + 1) /\ Len(buffer) \in Nat
        /\ \A j \in DOMAIN buffer : j \in DOMAIN buffer' /\ buffer'[j] = buffer[j]
        /\ buffer'[Len(buffer) + 1].run = q
        /\ UNCHANGED <<status, ended, run, shown>>
    BY <1>0, <1>6, PublishesIs
  <2> QED BY <2>1
<1>7. CASE DispatcherPublishes
  <2>1. /\ active \in Runs /\ saying \in Types /\ Publishes(active, saying) /\ call' = call
    BY <1>0, <1>7 DEF DispatcherPublishes, IInv, ManagerTypes
  <2>2. \A k \in Kinds : Open(k) => Open(k)'
    BY <2>1 DEF Unanswered, Answered
  <2> QED BY <1>5, <1>6, <2>1, <2>2
<1>8. ASSUME NEW c \in Kinds, CallPublishes(c)
      PROVE  Goal
  <2>1. /\ call[c].run \in Runs /\ call[c].type \in Types /\ Publishes(call[c].run, call[c].type)
        /\ \A h \in Kinds \ {c} : call'[h] = call[h]
        /\ active' = active
    BY <1>1, <1>8 DEF CallPublishes
  <2>2. call[c].run # r
    BY <1>6, <2>1
  <2>3. \A k \in Kinds : Open(k) => Open(k)'
    BY <2>1, <2>2 DEF Unanswered, Answered
  <2> QED BY <1>5, <1>6, <2>1, <2>3
<1>9. ASSUME NEW c \in Kinds, CallAnswers(c)
      PROVE  Goal
  <2>1. /\ call'[c].stage = "answered" /\ call'[c].run = call[c].run
        /\ \A h \in Kinds \ {c} : call'[h] = call[h]
        /\ UNCHANGED <<buffer, status, ended, active, run, shown>>
    BY <1>0, <1>9, CallsAre
  <2>2. \A k \in Kinds : Open(k) => Open(k)'
    BY <2>1 DEF Unanswered, Answered
  <2> QED BY <1>5, <2>1, <2>2
<1>10. ASSUME NEW c \in Kinds, Arrive(c)
       PROVE  Goal
  <2>1. /\ call[c].stage = "answered" /\ \A h \in Kinds \ {c} : call'[h] = call[h]
        /\ UNCHANGED <<buffer, status, ended, active, saying>>
    BY <1>0, <1>10, CallsAre
  <2>2. CASE run' = call[c].run /\ shown' = call[c].snapshot
    <3>1. call[c].run = r /\ call[c].snapshot = s
      BY <2>2
    <3>2. \/ s = status[r]
          \/ \E i \in DOMAIN buffer : buffer[i].run = r
          \/ \E h \in Kinds : Says(h, r)
          \/ Dispatching(r)
      BY <1>0, <2>1, <3>1 DEF AnswersUpToDate
    <3>3. s = status[r] => Right(r, s)'
      BY <2>1 DEF Right
    <3>4. (\E h \in Kinds : Says(h, r)) => \E h \in Kinds : Open(h)'
      BY <2>1 DEF Says, Unanswered
    <3>5. ~Dispatching(r) /\ ~(\E i \in DOMAIN buffer : buffer[i].run = r)
      BY <2>1 DEF Dispatching
    <3> QED BY <3>2, <3>3, <3>4, <3>5
  <2>3. CASE run' = run /\ shown' = shown /\ call[c].run # run
    <3>1. \A k \in Kinds : Open(k) => Open(k)'
      BY <2>1, <2>3 DEF Unanswered, Answered
    <3> QED BY <1>5, <2>1, <2>3, <3>1
  <2> QED BY <1>10, <2>2, <2>3, ArriveInOrder
<1>11. CASE Handle
  <2>1. /\ DOMAIN buffer = 1..Len(buffer) /\ Len(buffer) \in Nat /\ 1 \in DOMAIN buffer
        /\ \A j \in DOMAIN buffer : j # 1 => j - 1 \in DOMAIN buffer' /\ buffer'[j - 1] = buffer[j]
        /\ shown' = IF buffer[1].run = run THEN ShownAs[buffer[1].type] ELSE shown
        /\ UNCHANGED <<call, run, status, ended, active, saying>>
    BY <1>0, <1>11, HandleIs
  <2>2. \A j \in DOMAIN buffer : j # 1 => buffer[j].run # r
    BY <2>1
  <2>3. \A k \in Kinds : Open(k) => Open(k)'
    BY <2>1 DEF Unanswered, Answered
  <2>4. CASE buffer[1].run # r
    BY <1>5, <2>1, <2>2, <2>3, <2>4
  <2>5. CASE buffer[1].run = r
    <3>1. LastOfRun(1) /\ buffer[1].run # active /\ s = ShownAs[buffer[1].type]
      BY <2>1, <2>2, <2>5 DEF LastOfRun
    <3>2. Right(r, s) \/ \E k \in Kinds : Open(k)
      BY <1>0, <2>1, <2>5, <3>1 DEF EventsUpToDate
    <3>3. Right(r, s) => Right(r, s)'
      BY <2>1 DEF Right
    <3> QED BY <2>3, <3>2, <3>3
  <2> QED BY <2>4, <2>5
<1> QED BY <1>0, <1>4, <1>7, <1>8, <1>9, <1>10, <1>11, StepKinds

-----------------------------------------------------------------------------
LEMMA RestInvInit == Init => RestInv
<1> SUFFICES ASSUME Init PROVE RestInv
  OBVIOUS
<1>1. Counted
  <2>1. \A k \in Kinds : call[k].stage = "none"
    BY NoCallIs DEF Init
  <2>2. count = 0 /\ delivered = 0 /\ freshest = 0 /\ Len(buffer) = 0
    BY DEF Init
  <2>3. freshest \in Nat /\ delivered = count - Len(buffer) /\ delivered <= freshest /\ freshest <= count
    BY <2>2
  <2> QED BY <2>1, <2>3 DEF Counted
<1>2. EndSaid
  BY DEF Init, EndSaid
<1>3. AnswersUpToDate /\ EventsUpToDate /\ ShownUpToDate
  BY NoCallIs DEF Init, AnswersUpToDate, EventsUpToDate, ShownUpToDate
<1> QED BY <1>1, <1>2, <1>3, IInvInit DEF RestInv

LEMMA RestInvStep == RestInv /\ [Next]_vars => RestInv'
<1> SUFFICES ASSUME RestInv, [Next]_vars PROVE RestInv'
  OBVIOUS
<1>1. IInv' /\ Counted' /\ EndSaid'
  BY IInvStep, CountedStep, EndSaidStep DEF RestInv
<1>2. InOrder' => AnswersUpToDate' /\ EventsUpToDate' /\ ShownUpToDate'
  BY AnswersStep, EventsStep, ShownRunStep
<1> QED BY <1>1, <1>2 DEF RestInv

(* Rest that is not muddled is in order.                                      *)
LEMMA RestShows == RestInv => RightAtRest
<1> SUFFICES ASSUME RestInv, AtRest, run # NoRun, run # active, freshest # Muddled
             PROVE  Right(run, shown)
  BY DEF RightAtRest, Right
<1>1. /\ buffer = <<>> /\ Len(buffer) = 0 /\ count \in Nat
      /\ \A k \in Kinds : call[k].stage = "none"
  BY NoCallIs, CountsAre DEF AtRest, RestInv
<1>2. freshest = delivered
  BY <1>1, CountsAre DEF RestInv, Counted
<1>3. InOrder
  BY <1>1, <1>2 DEF InOrder
<1>4. ShownUpToDate
  BY <1>3 DEF RestInv
<1> QED BY <1>1, <1>4 DEF ShownUpToDate, Unanswered, Answered

(* However calls, the dispatcher and the event loop interleave, and however   *)
(* statuses are written long before they are published: when nothing is under *)
(* way and the window neither lost an event nor took an answer out of turn,   *)
(* it shows its run as the manager has it (_publish outside the lock, the     *)
(* snapshot that start(), pause(), resume() and cancel() answer with).        *)
THEOREM ShownIsRightAtRest == Spec => []RightAtRest
  BY RestInvInit, RestInvStep, RestShows, PTL DEF Spec

-----------------------------------------------------------------------------
(* Types                                                                      *)
FlagTypes ==
    /\ pause \in [Runs -> BOOLEAN] /\ cancel \in [Runs -> BOOLEAN]
    /\ turns \in 0..MaxTurns
    /\ Len(buffer) <= Capacity

(* A full queue gives one event for the next.                                 *)
LEMMA PublishFits ==
    ASSUME IInv, Len(buffer) <= Capacity, NEW r \in Runs, NEW type \in Types, Publish(r, type)
    PROVE  Len(buffer') <= Capacity
<1> DEFINE e == [number |-> count', run |-> r, type |-> type]
<1>1. /\ buffer \in Seq(Event) /\ count \in Nat /\ count' = count + 1
      /\ Capacity \in Nat \ {0} /\ Len(buffer) \in Nat
  BY EventsAssumption DEF IInv, BrokerTypes, Publish
<1>2. e \in Event
  BY <1>1 DEF Event
<1>3. CASE connected /\ Len(buffer) >= Capacity
  <2>1. buffer' = Append(Tail(buffer), e) /\ buffer # <<>>
    BY <1>1, <1>3 DEF Publish, Put
  <2>2. Tail(buffer) \in Seq(Event) /\ Len(Tail(buffer)) = Len(buffer) - 1
    BY <1>1, <2>1, TailOfEvents
  <2>3. Len(buffer') = Len(Tail(buffer)) + 1
    BY <1>2, <2>1, <2>2, AppendEvent
  <2> QED BY <1>1, <2>2, <2>3
<1>4. CASE connected /\ Len(buffer) < Capacity
  <2>1. buffer' = Append(buffer, e)
    BY <1>1, <1>4 DEF Publish, Put
  <2>2. Len(buffer') = Len(buffer) + 1
    BY <1>1, <1>2, <2>1, AppendEvent
  <2> QED BY <1>1, <1>4, <2>2
<1>5. CASE ~connected
  BY <1>5 DEF Publish
<1> QED BY <1>1, <1>3, <1>4, <1>5

LEMMA FlagTypesStep == IInv /\ FlagTypes /\ [Next]_vars => FlagTypes'
<1> SUFFICES ASSUME IInv, FlagTypes, [Next]_vars PROVE FlagTypes'
  OBVIOUS
<1> USE DEF managerVars, brokerVars, windowVars
<1>a. /\ MaxTurns \in Nat /\ Capacity \in Nat \ {0} /\ turns \in 0..MaxTurns
      /\ buffer \in Seq(Event) /\ Len(buffer) \in Nat /\ Len(buffer) <= Capacity
  BY EventsAssumption DEF IInv, BrokerTypes, FlagTypes
<1>b. Turn => turns' \in 0..MaxTurns
  BY <1>a DEF Turn
<1>1. ASSUME NEW r \in Runs, Start(r) \/ Cancel(r)
      PROVE  FlagTypes'
  BY <1>1, <1>b DEF Start, Cancel, Call, FlagTypes
<1>2. ASSUME Pause \/ Resume
      PROVE  FlagTypes'
  BY <1>2, <1>b DEF Pause, Resume, Call, FlagTypes
<1>3. ASSUME DispatcherSays
      PROVE  FlagTypes'
  <2>1. active \in Runs /\ saying \in Types
    BY <1>3 DEF DispatcherSays, IInv, ManagerTypes
  <2>2. Len(buffer') <= Capacity
    BY <1>3, <1>a, <2>1, PublishFits DEF DispatcherSays
  <2> QED BY <1>3, <2>2 DEF DispatcherSays, FlagTypes
<1>4. ASSUME NEW k \in Kinds, CallSays(k)
      PROVE  FlagTypes'
  <2>1. call[k].run \in Runs /\ call[k].type \in Types
    BY <1>4 DEF CallSays, IInv, WindowTypes
  <2>2. Len(buffer') <= Capacity
    BY <1>4, <1>a, <2>1, PublishFits DEF CallSays
  <2> QED BY <1>4, <2>2 DEF CallSays, FlagTypes
<1>5. ASSUME Handle
      PROVE  FlagTypes'
  <2>1. Len(Tail(buffer)) <= Capacity
    BY <1>5, <1>a, TailOfEvents DEF Handle
  <2> QED BY <1>5, <2>1 DEF Handle, FlagTypes
<1>6. ASSUME Close
      PROVE  FlagTypes'
  <2>1. Len(buffer') <= Capacity
    BY <1>6, <1>a DEF Close
  <2> QED BY <1>6, <1>b, <2>1 DEF Close, FlagTypes
<1>7. ASSUME Connect \/ Clear
      PROVE  FlagTypes'
  BY <1>7, <1>b DEF Connect, Clear, FlagTypes
<1>8. ASSUME Pop \/ Begin \/ Hold \/ Unhold \/ \E type \in Outcomes : End(type)
      PROVE  FlagTypes'
  BY <1>8 DEF Pop, Begin, Hold, Unhold, End, FlagTypes
<1>9. ASSUME NEW k \in Kinds, CallAnswers(k) \/ Arrive(k)
      PROVE  FlagTypes'
  BY <1>9 DEF CallAnswers, Arrive, FlagTypes
<1>10. ASSUME UNCHANGED vars
       PROVE  FlagTypes'
  BY <1>10 DEF vars, FlagTypes
<1> QED BY <1>1, <1>2, <1>3, <1>4, <1>5, <1>6, <1>7, <1>8, <1>9, <1>10
        DEF Next, Dispatch, Server

(* Every variable keeps its type, and the queue of a subscriber its capacity  *)
(* (EventBroker._put).                                                        *)
THEOREM TypeCorrect == Spec => []TypeOK
<1>1. Init => FlagTypes
  <2>1. Len(<<>>) = 0
    OBVIOUS
  <2> QED BY <2>1, EventsAssumption DEF Init, FlagTypes
<1>2. RestInv /\ FlagTypes => TypeOK
  <2> SUFFICES ASSUME RestInv, FlagTypes PROVE TypeOK
    OBVIOUS
  <2>1. IInv /\ Counted /\ ManagerTypes /\ BrokerTypes /\ WindowTypes /\ DeliveredIsOld
    BY DEF RestInv, IInv
  <2>2. delivered \in 0..count
    BY <2>1 DEF BrokerTypes, DeliveredIsOld
  <2>3. freshest \in (0..count) \cup {Muddled}
    BY <2>1 DEF Counted, BrokerTypes
  <2> QED BY <2>1, <2>2, <2>3 DEF ManagerTypes, BrokerTypes, WindowTypes, FlagTypes, TypeOK
<1>3. RestInv /\ FlagTypes /\ [Next]_vars => FlagTypes'
  BY FlagTypesStep DEF RestInv
<1> QED BY <1>1, <1>2, <1>3, RestInvInit, RestInvStep, PTL DEF Spec
=============================================================================
