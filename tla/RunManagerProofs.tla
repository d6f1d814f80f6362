-------------------------- MODULE RunManagerProofs --------------------------
(* Theorems about RunManager for any number of runs and calls, any length of  *)
(* a plan and any limit of the history.                                       *)
EXTENDS RunManager, FiniteSetTheorems, WellFoundedInduction, TLAPS

Live == {"RUNNING", "PAUSE_REQUESTED", "PAUSED"}
Entries == {-1, 0} \X Nat \X Runs

Types ==
    /\ registered \subseteq Runs
    /\ status \in [Runs -> Statuses]
    /\ position \in [Runs -> Nat]
    /\ pause \in [Runs -> BOOLEAN] /\ cancel \in [Runs -> BOOLEAN]
    /\ queue \subseteq Entries /\ IsFiniteSet(queue)
    /\ sequence \in Nat
    /\ active \in Runs \cup {NoRun}
    /\ dispatcher \in DispatcherPcs
    /\ (active = NoRun) <=> dispatcher \in {"none", "idle"}
    /\ verdict \in Terminal \cup {"NONE"}
    /\ dispatcher = "ending" => verdict \in Terminal

(* A run and a sequence number is queued once, and only started runs are.     *)
EntriesUnique(q) == \A a, b \in q : a[2] = b[2] \/ a[3] = b[3] => a = b
QueueFits ==
    /\ \A e \in queue : e[2] <= sequence /\ status[e[3]] # "NONE"
    /\ EntriesUnique(queue)

(* Until its status is set, and after its end, the active run is not shown as *)
(* running either.                                                            *)
NotLiveYet == dispatcher \in {"popped", "closing", "dying"} => status[active] \notin Live

IInv ==
    /\ Types
    /\ QueueFits
    /\ ShownRunningIsActive
    /\ NotLiveYet
    /\ PositionsOrdered

-----------------------------------------------------------------------------
(* Positions                                                                  *)

(* What a refresh writes ranks the pending runs.                              *)
LEMMA RefreshRanks ==
    ASSUME NEW q, q \subseteq Entries, IsFiniteSet(q), EntriesUnique(q),
           NEW reg, NEW can, NEW st, position \in [Runs -> Nat], Refresh(q, reg, can, st)
    PROVE  /\ position' \in [Runs -> Nat]
           /\ \A a, b \in Pending(q, reg, can, st) :
                 /\ position'[a[3]] >= 1
                 /\ Before(a, b) => position'[a[3]] < position'[b[3]]
<1> DEFINE P == Pending(q, reg, can, st)
           UpTo(r) == {o \in P : \E e \in P : e[3] = r /\ ~Before(e, o)}
<1>1. P \subseteq q /\ \A e \in P : e[3] \in reg /\ st[e[3]] = "QUEUED"
  BY DEF Pending
<1>2. position' = [r \in Runs |->
          IF r \in reg /\ st[r] = "QUEUED" THEN Cardinality(UpTo(r)) ELSE position[r]]
  BY DEF Refresh
<1>3. IsFiniteSet(P)
  BY <1>1, FS_Subset
<1> HIDE DEF P
<1>4. \A r : IsFiniteSet(UpTo(r)) /\ Cardinality(UpTo(r)) \in Nat
  BY <1>3, FS_Subset, FS_CardinalityType
<1>5. position' \in [Runs -> Nat]
  BY <1>2, <1>4
<1>6. \A a \in P : a[3] \in Runs /\ position'[a[3]] = Cardinality(UpTo(a[3]))
  BY <1>1, <1>2 DEF Entries
<1>7. \A a \in P : a \in UpTo(a[3]) /\ UpTo(a[3]) = {o \in P : ~Before(a, o)}
  <2> SUFFICES ASSUME NEW a \in P
               PROVE  a \in UpTo(a[3]) /\ UpTo(a[3]) = {o \in P : ~Before(a, o)}
    OBVIOUS
  <2>1. \A e \in P : e[3] = a[3] => e = a
    BY <1>1 DEF EntriesUnique
  <2>2. a[1] \in Int /\ a[2] \in Int
    BY <1>1 DEF Entries
  <2>3. ~Before(a, a)
    BY <2>2 DEF Before
  <2> QED BY <2>1, <2>3
<1> HIDE DEF UpTo
<1>8. \A a \in P : position'[a[3]] >= 1
  <2> SUFFICES ASSUME NEW a \in P
               PROVE  Cardinality(UpTo(a[3])) >= 1
    BY <1>6
  <2>1. UpTo(a[3]) # {}
    BY <1>7
  <2>2. Cardinality(UpTo(a[3])) # 0
    BY <1>4, <2>1, FS_EmptySet
  <2> QED BY <1>4, <2>2
<1>9. ASSUME NEW a \in P, NEW b \in P, Before(a, b)
      PROVE  position'[a[3]] < position'[b[3]]
  <2>1. /\ a[1] \in Int /\ a[2] \in Int /\ b[1] \in Int /\ b[2] \in Int
        /\ \A o \in P : o[1] \in Int /\ o[2] \in Int
    BY <1>1 DEF Entries
  <2>2. \A o \in P : ~Before(a, o) => ~Before(b, o)
    BY <1>9, <2>1 DEF Before
  <2>3. UpTo(a[3]) \subseteq UpTo(b[3])
    BY <1>7, <2>2
  <2>4. b \in UpTo(b[3]) /\ b \notin UpTo(a[3])
    BY <1>7, <1>9
  <2>5. UpTo(a[3]) # UpTo(b[3])
    BY <2>4
  <2>6. /\ Cardinality(UpTo(a[3])) <= Cardinality(UpTo(b[3]))
        /\ Cardinality(UpTo(a[3])) # Cardinality(UpTo(b[3]))
    <3>1. /\ IsFiniteSet(UpTo(b[3])) /\ UpTo(a[3]) \in SUBSET UpTo(b[3])
      BY <1>4, <2>3
    <3> QED BY <2>5, <3>1, FS_Subset
  <2> QED BY <1>4, <1>6, <2>6
<1> QED BY <1>5, <1>8, <1>9 DEF P

(* Without one, they keep their order while no run becomes pending.           *)
LEMMA OrderKept ==
    ASSUME PositionsOrdered, position' = position,
           Pending(queue, registered, cancel, status)' \subseteq Pending(queue, registered, cancel, status)
    PROVE  PositionsOrdered'
  BY DEF PositionsOrdered

(* No run becomes pending by a change of its flag or its status.              *)
LEMMA PendingShrinks ==
    ASSUME Types, queue' \subseteq queue, registered' \subseteq registered,
           \A r \in Runs : cancel[r] => cancel'[r],
           \A r \in Runs : status'[r] = "QUEUED" => status[r] = "QUEUED"
    PROVE  Pending(queue, registered, cancel, status)' \subseteq Pending(queue, registered, cancel, status)
<1> SUFFICES ASSUME NEW e \in Pending(queue', registered', cancel', status')
             PROVE  e \in Pending(queue, registered, cancel, status)
  BY DEF Pending
<1>1. /\ e \in queue /\ e[3] \in registered /\ ~cancel'[e[3]] /\ status'[e[3]] = "QUEUED"
  BY DEF Pending
<1>2. e[3] \in Runs
  BY <1>1 DEF Types
<1>3. ~cancel[e[3]] /\ status[e[3]] = "QUEUED"
  BY <1>1, <1>2
<1> QED BY <1>1, <1>3 DEF Pending

-----------------------------------------------------------------------------
(* The types, positions aside.                                                *)
OtherTypes ==
    /\ registered \subseteq Runs
    /\ status \in [Runs -> Statuses]
    /\ pause \in [Runs -> BOOLEAN] /\ cancel \in [Runs -> BOOLEAN]
    /\ queue \subseteq Entries /\ IsFiniteSet(queue)
    /\ sequence \in Nat
    /\ active \in Runs \cup {NoRun}
    /\ dispatcher \in DispatcherPcs
    /\ (active = NoRun) <=> dispatcher \in {"none", "idle"}
    /\ verdict \in Terminal \cup {"NONE"}
    /\ dispatcher = "ending" => verdict \in Terminal

(* Names of actions that have the same effect on the types.                   *)
Moves == Gate \/ LeaveHold \/ DispatcherExits \/ CompileRaises
FlagCall(r) == PauseSet(r) \/ ResumeClear(r) \/ CancelSet(r)

LEMMA StatusesAre ==
    /\ {"QUEUED", "RUNNING", "PAUSE_REQUESTED", "PAUSED", "CANCEL_REQUESTED", "CANCELLED", "FAILED",
        "COMPLETED", "NONE"} \subseteq Statuses
    /\ Terminal \subseteq Statuses
    /\ Terminal \cap Live = {}
    /\ {"CANCELLED", "FAILED", "COMPLETED"} = Terminal
    /\ {"QUEUED", "CANCEL_REQUESTED", "CANCELLED", "NONE"} \cap Live = {}
  BY DEF Statuses, Terminal, Live

LEMMA TypesStep ==
    ASSUME Types, [Next]_vars
    PROVE  OtherTypes'
<1>0. OtherTypes /\ NoRun \notin Runs
  BY RunsAssumption DEF Types, OtherTypes
<1> USE DEF runVars, flagVars, queueVars, execVars
<1>1. ASSUME NEW r \in Runs, NEW priority \in {-1, 0}, Start(r, priority)
      PROVE  OtherTypes'
  <2>1. /\ registered' = registered \cup {r} /\ sequence' = sequence + 1
        /\ status' = [status EXCEPT ![r] = "QUEUED"]
        /\ queue' = queue \cup {<<priority, sequence + 1, r>>}
        /\ dispatcher' = (IF dispatcher = "none" THEN "idle" ELSE dispatcher)
        /\ UNCHANGED <<pause, cancel, active, verdict>>
    BY <1>1 DEF Start
  <2>2. queue' \subseteq Entries /\ IsFiniteSet(queue')
    <3>1. <<priority, sequence + 1, r>> \in Entries
      BY <1>0 DEF OtherTypes, Entries
    <3>2. IsFiniteSet(queue \cup {<<priority, sequence + 1, r>>})
      BY <1>0, FS_AddElement DEF OtherTypes
    <3> QED BY <1>0, <2>1, <3>1, <3>2 DEF OtherTypes
  <2>3. status' \in [Runs -> Statuses]
    BY <1>0, <2>1, StatusesAre DEF OtherTypes
  <2> QED BY <1>0, <2>1, <2>2, <2>3 DEF OtherTypes, DispatcherPcs
<1>2. ASSUME NEW r \in Runs, FlagCall(r)
      PROVE  OtherTypes'
  <2>1. /\ pause' \in [Runs -> BOOLEAN] /\ cancel' \in [Runs -> BOOLEAN]
    BY <1>0, <1>2 DEF FlagCall, PauseSet, ResumeClear, CancelSet, OtherTypes
  <2>2. UNCHANGED <<registered, status, queue, sequence, active, dispatcher, verdict>>
    BY <1>2 DEF FlagCall, PauseSet, ResumeClear, CancelSet
  <2> QED BY <1>0, <2>1, <2>2 DEF OtherTypes
<1>3. ASSUME NEW r \in Runs, PauseWrite(r) \/ ResumeWrite(r) \/ CancelWrite(r) \/ CancelRefresh(r)
      PROVE  OtherTypes'
  <2>1. status' \in [Runs -> Statuses]
    BY <1>0, <1>3, StatusesAre DEF PauseWrite, ResumeWrite, CancelWrite, CancelRefresh, OtherTypes
  <2>2. UNCHANGED <<registered, pause, cancel, queue, sequence, active, dispatcher, verdict>>
    BY <1>3 DEF PauseWrite, ResumeWrite, CancelWrite, CancelRefresh
  <2> QED BY <1>0, <2>1, <2>2 DEF OtherTypes
<1>4. CASE Shutdown
  <2>1. cancel' \in [Runs -> BOOLEAN]
    BY <1>4 DEF Shutdown
  <2>2. UNCHANGED <<registered, status, pause, queue, sequence, active, dispatcher, verdict>>
    BY <1>4 DEF Shutdown
  <2> QED BY <1>0, <2>1, <2>2 DEF OtherTypes
<1>5. CASE PopSkip
  <2>1. /\ queue' \subseteq queue /\ IsFiniteSet(queue')
    BY <1>0, <1>5, FS_Subset DEF PopSkip, OtherTypes
  <2>2. UNCHANGED <<registered, status, pause, cancel, sequence, active, dispatcher, verdict>>
    BY <1>5 DEF PopSkip
  <2> QED BY <1>0, <2>1, <2>2 DEF OtherTypes
<1>6. CASE PopRun
  <2>1. PICK e \in queue : queue' = queue \ {e} /\ active' = e[3] /\ dispatcher' = "popped"
    BY <1>6 DEF PopRun
  <2>2. queue' \subseteq queue /\ IsFiniteSet(queue') /\ e[3] \in Runs
    BY <1>0, <2>1, FS_Subset DEF OtherTypes, Entries
  <2>3. UNCHANGED <<registered, status, pause, cancel, sequence, verdict>>
    BY <1>6 DEF PopRun
  <2> QED BY <1>0, <2>1, <2>2, <2>3 DEF OtherTypes, DispatcherPcs
<1>7. CASE Moves
  BY <1>0, <1>7 DEF Moves, Gate, LeaveHold, DispatcherExits, CompileRaises, OtherTypes, DispatcherPcs
<1>8. ASSUME NEW n \in 0..MaxSteps, Begin(n)
      PROVE  OtherTypes'
  <2>1. status' \in [Runs -> Statuses]
    BY <1>0, <1>8, StatusesAre DEF Begin, OtherTypes
  <2>2. UNCHANGED <<registered, pause, cancel, queue, sequence, active>>
    BY <1>8 DEF Begin
  <2>3. /\ dispatcher = "popped" /\ dispatcher' \in {"ending", "gate"} /\ verdict' \in Terminal \cup {"NONE"}
        /\ dispatcher' = "ending" => verdict' \in Terminal
    BY <1>0, <1>8, StatusesAre DEF Begin, OtherTypes
  <2> QED BY <1>0, <2>1, <2>2, <2>3 DEF OtherTypes, DispatcherPcs
<1>9. CASE WritePaused
  <2>1. status' \in [Runs -> Statuses]
    BY <1>0, <1>9, StatusesAre DEF WritePaused, OtherTypes
  <2> QED BY <1>0, <1>9, <2>1 DEF WritePaused, OtherTypes, DispatcherPcs
<1>10. CASE Check \/ StepSucceeds \/ StepRaises
  <2>1. /\ dispatcher \in {"check", "working"} /\ dispatcher' \in {"ending", "gate", "working"}
        /\ verdict' \in Terminal \cup {"NONE"}
        /\ dispatcher' = "ending" => verdict' \in Terminal
    BY <1>0, <1>10, StatusesAre DEF Check, StepSucceeds, StepRaises, OtherTypes
  <2>2. UNCHANGED <<registered, status, pause, cancel, queue, sequence, active>>
    BY <1>10 DEF Check, StepSucceeds, StepRaises
  <2> QED BY <1>0, <2>1, <2>2 DEF OtherTypes, DispatcherPcs
<1>11. CASE End
  <2>1. status' \in [Runs -> Statuses]
    BY <1>0, <1>11, StatusesAre DEF End, OtherTypes
  <2> QED BY <1>0, <1>11, <2>1 DEF End, OtherTypes, DispatcherPcs
<1>12. CASE Close
  BY <1>0, <1>12 DEF Close, OtherTypes, DispatcherPcs
<1>13. CASE UNCHANGED vars
  BY <1>0, <1>13 DEF vars, OtherTypes
<1> QED BY <1>1, <1>2, <1>3, <1>4, <1>5, <1>6, <1>7, <1>8, <1>9, <1>10, <1>11, <1>12, <1>13
        DEF Next, Dispatch, CallReturns, Moves, FlagCall

-----------------------------------------------------------------------------
(* The queue: entries are only added by start(), with a new number and a run  *)
(* that was not started before, and no run becomes "NONE" again.              *)
LEMMA QueueStep ==
    ASSUME Types, QueueFits, [Next]_vars
    PROVE  QueueFits'
<1> USE DEF runVars, flagVars, queueVars, execVars
<1>0. /\ status \in [Runs -> Statuses] /\ queue \subseteq Entries /\ sequence \in Nat
      /\ active \in Runs \cup {NoRun} /\ verdict \in Terminal \cup {"NONE"}
      /\ dispatcher = "ending" => verdict \in Terminal
  BY DEF Types
<1>1. ASSUME queue' \subseteq queue, sequence' = sequence,
             \A r \in Runs : status[r] # "NONE" => status'[r] # "NONE"
      PROVE  QueueFits'
  <2>1. \A e \in queue' : e \in queue /\ e[3] \in Runs
    BY <1>0, <1>1 DEF Entries
  <2> QED BY <1>1, <2>1 DEF QueueFits, EntriesUnique
<1>2. ASSUME NEW r \in Runs, NEW priority \in {-1, 0}, Start(r, priority)
      PROVE  QueueFits'
  <2> DEFINE new == <<priority, sequence + 1, r>>
  <2>1. /\ status[r] = "NONE" /\ status' = [status EXCEPT ![r] = "QUEUED"]
        /\ queue' = queue \cup {new} /\ sequence' = sequence + 1
    BY <1>2 DEF Start
  <2>2. \A e \in queue : e[2] \in Nat /\ e[3] \in Runs /\ e[2] <= sequence /\ status[e[3]] # "NONE"
    BY <1>0 DEF Entries, QueueFits
  <2>3. \A e \in queue : e[2] # new[2] /\ e[3] # new[3]
    BY <1>0, <2>1, <2>2
  <2>4. EntriesUnique(queue')
    BY <2>1, <2>3 DEF QueueFits, EntriesUnique
  <2>5. \A e \in queue' : e[2] <= sequence' /\ status'[e[3]] # "NONE"
    BY <1>0, <2>1, <2>2
  <2> QED BY <2>4, <2>5 DEF QueueFits
<1>3. CASE \E r \in Runs : PauseWrite(r) \/ ResumeWrite(r) \/ CancelWrite(r) \/ CancelRefresh(r)
  <2>1. queue' = queue /\ sequence' = sequence
    BY <1>3 DEF PauseWrite, ResumeWrite, CancelWrite, CancelRefresh
  <2>2. \A r \in Runs : status[r] # "NONE" => status'[r] # "NONE"
    BY <1>0, <1>3 DEF PauseWrite, ResumeWrite, CancelWrite, CancelRefresh
  <2> QED BY <1>1, <2>1, <2>2
<1>4. CASE WritePaused \/ End \/ \E n \in 0..MaxSteps : Begin(n)
  <2>1. queue' = queue /\ sequence' = sequence
    BY <1>4 DEF WritePaused, End, Begin
  <2>2. \A r \in Runs : status[r] # "NONE" => status'[r] # "NONE"
    BY <1>0, <1>4, StatusesAre DEF WritePaused, End, Begin
  <2> QED BY <1>1, <2>1, <2>2
<1>5. CASE UNCHANGED <<status, queue, sequence>>
  BY <1>1, <1>5
<1>6. CASE PopSkip \/ PopRun
  BY <1>1, <1>6 DEF PopSkip, PopRun
<1>7. Moves \/ Check \/ StepSucceeds \/ StepRaises \/ Close \/ Shutdown => UNCHANGED <<status, queue, sequence>>
  BY DEF Moves, Gate, LeaveHold, DispatcherExits, CompileRaises, Check, StepSucceeds, StepRaises, Close, Shutdown
<1>8. (\E r \in Runs : FlagCall(r)) \/ UNCHANGED vars => UNCHANGED <<status, queue, sequence>>
  BY DEF FlagCall, PauseSet, ResumeClear, CancelSet, vars
<1> QED BY <1>2, <1>3, <1>4, <1>5, <1>6, <1>7, <1>8 DEF Next, Dispatch, CallReturns, Moves, FlagCall

-----------------------------------------------------------------------------
(* Which run is shown as running                                              *)
LEMMA LiveStep ==
    ASSUME Types, ShownRunningIsActive, NotLiveYet, [Next]_vars
    PROVE  ShownRunningIsActive' /\ NotLiveYet'
<1> USE DEF runVars, flagVars, queueVars, execVars
<1>0. /\ status \in [Runs -> Statuses] /\ NoRun \notin Runs /\ active \in Runs \cup {NoRun}
      /\ (active = NoRun) <=> dispatcher \in {"none", "idle"}
      /\ dispatcher = "ending" => verdict \in Terminal
      /\ \A r \in Runs : status[r] \in Live => active = r
  BY RunsAssumption DEF Types, ShownRunningIsActive, Live
<1> DEFINE Quiet == {"popped", "closing", "dying"}
           NoneRevived == \A r \in Runs : status'[r] \in Live => status[r] \in Live
<1>1. ASSUME NoneRevived, active' = active, dispatcher' \in Quiet => dispatcher \in Quiet
      PROVE  ShownRunningIsActive' /\ NotLiveYet'
  <2>1. ShownRunningIsActive'
    BY <1>0, <1>1 DEF ShownRunningIsActive, Live
  <2>2. NotLiveYet'
    BY <1>0, <1>1 DEF NotLiveYet
  <2> QED BY <2>1, <2>2
<1>2. ASSUME NEW r \in Runs, NEW priority \in {-1, 0}, Start(r, priority)
      PROVE  ShownRunningIsActive' /\ NotLiveYet'
  <2>1. NoneRevived
    BY <1>0, <1>2, StatusesAre DEF Start
  <2>2. active' = active /\ (dispatcher' \in Quiet => dispatcher \in Quiet)
    BY <1>2 DEF Start
  <2> QED BY <1>1, <2>1, <2>2
<1>3. CASE \E r \in Runs : PauseWrite(r) \/ ResumeWrite(r) \/ CancelWrite(r) \/ CancelRefresh(r)
  <2>1. NoneRevived
    BY <1>0, <1>3, StatusesAre DEF PauseWrite, ResumeWrite, CancelWrite, CancelRefresh, Live
  <2>2. active' = active /\ dispatcher' = dispatcher
    BY <1>3 DEF PauseWrite, ResumeWrite, CancelWrite, CancelRefresh
  <2> QED BY <1>1, <2>1, <2>2
<1>4. CASE Moves \/ Check \/ StepSucceeds \/ StepRaises \/ PopSkip
  <2>1. status' = status /\ active' = active /\ (dispatcher' \in Quiet => dispatcher \in Quiet)
    BY <1>4 DEF Moves, Gate, LeaveHold, DispatcherExits, CompileRaises, Check, StepSucceeds, StepRaises, PopSkip
  <2> QED BY <1>1, <2>1
<1>5. CASE PopRun
  <2>1. /\ status' = status /\ active = NoRun /\ dispatcher' = "popped"
        /\ active' \in Runs
    BY <1>0, <1>5, TypesStep DEF PopRun, OtherTypes
  <2>2. \A r \in Runs : status'[r] \notin Live
    BY <1>0, <2>1
  <2> QED BY <2>1, <2>2 DEF ShownRunningIsActive, NotLiveYet, Live
<1>6. CASE WritePaused \/ \E n \in 0..MaxSteps : Begin(n)
  <2>1. /\ active' = active /\ active \in Runs /\ dispatcher' \notin Quiet
        /\ \A r \in Runs : r # active => status'[r] = status[r]
    BY <1>0, <1>6 DEF WritePaused, Begin
  <2> QED BY <1>0, <2>1 DEF ShownRunningIsActive, NotLiveYet, Live
<1>7. CASE End
  <2>1. /\ active' = active /\ active \in Runs /\ status'[active] = verdict /\ verdict \in Terminal
        /\ \A r \in Runs : r # active => status'[r] = status[r]
    BY <1>0, <1>7 DEF End
  <2>2. \A r \in Runs : status'[r] \notin Live
    BY <1>0, <2>1, StatusesAre
  <2> QED BY <2>1, <2>2 DEF ShownRunningIsActive, NotLiveYet, Live
<1>8. CASE Close
  <2>1. /\ status' = status /\ active' = NoRun /\ dispatcher' \in {"none", "idle"}
        /\ status[active] \notin Live
    BY <1>8 DEF Close, NotLiveYet
  <2>2. \A r \in Runs : status'[r] \notin Live
    BY <1>0, <2>1
  <2> QED BY <2>1, <2>2 DEF ShownRunningIsActive, NotLiveYet, Live
<1>9. CASE UNCHANGED <<status, active, dispatcher>>
  BY <1>1, <1>9
<1>10. (\E r \in Runs : FlagCall(r)) \/ Shutdown \/ UNCHANGED vars => UNCHANGED <<status, active, dispatcher>>
  BY DEF FlagCall, PauseSet, ResumeClear, CancelSet, Shutdown, vars
<1> QED BY <1>2, <1>3, <1>4, <1>5, <1>6, <1>7, <1>8, <1>9, <1>10 DEF Next, Dispatch, CallReturns, Moves, FlagCall

-----------------------------------------------------------------------------
(* Positions, in every step                                                   *)
LEMMA RefreshedOrdered ==
    ASSUME Types, QueueFits, [Next]_vars, Refresh(queue', registered', cancel', status')
    PROVE  position' \in [Runs -> Nat] /\ PositionsOrdered'
<1>1. queue' \subseteq Entries /\ IsFiniteSet(queue') /\ EntriesUnique(queue')
  BY TypesStep, QueueStep DEF OtherTypes, QueueFits
<1>2. position \in [Runs -> Nat]
  BY DEF Types
<1> QED BY <1>1, <1>2, RefreshRanks DEF PositionsOrdered

LEMMA PositionsStep ==
    ASSUME Types, QueueFits, PositionsOrdered, [Next]_vars
    PROVE  position' \in [Runs -> Nat] /\ PositionsOrdered'
<1> USE DEF runVars, flagVars, queueVars, execVars
<1>0. /\ status \in [Runs -> Statuses] /\ position \in [Runs -> Nat] /\ cancel \in [Runs -> BOOLEAN]
      /\ dispatcher = "ending" => verdict \in Terminal
  BY DEF Types
<1> DEFINE NoneQueued == \A r \in Runs : status'[r] = "QUEUED" => status[r] = "QUEUED"
           NoneUnflagged == \A r \in Runs : cancel[r] => cancel'[r]
<1>1. ASSUME position' = position, queue' = queue, registered' = registered, NoneUnflagged, NoneQueued
      PROVE  position' \in [Runs -> Nat] /\ PositionsOrdered'
  <2>1. Pending(queue, registered, cancel, status)' \subseteq Pending(queue, registered, cancel, status)
    BY <1>1, PendingShrinks
  <2> QED BY <1>0, <1>1, <2>1, OrderKept
<1>2. ASSUME NEW r \in Runs, NEW priority \in {-1, 0}, Start(r, priority)
      PROVE  position' \in [Runs -> Nat] /\ PositionsOrdered'
  <2>1. Refresh(queue', registered', cancel, status') /\ cancel' = cancel
    BY <1>2 DEF Start
  <2> QED BY <2>1, RefreshedOrdered
<1>3. ASSUME NEW r \in Runs, PauseWrite(r) \/ ResumeWrite(r)
      PROVE  position' \in [Runs -> Nat] /\ PositionsOrdered'
  <2>1. /\ UNCHANGED <<queue, registered, cancel>>
        /\ \/ Refresh(queue, registered, cancel, status')
           \/ position' = position
    BY <1>3 DEF PauseWrite, ResumeWrite, RefreshOnGet
  <2>2. NoneQueued
    BY <1>0, <1>3 DEF PauseWrite, ResumeWrite
  <2> QED BY <1>1, <2>1, <2>2, RefreshedOrdered
<1>4. ASSUME NEW r \in Runs, CancelWrite(r)
      PROVE  position' \in [Runs -> Nat] /\ PositionsOrdered'
  <2>1. UNCHANGED <<queue, registered, cancel, position>>
    BY <1>4 DEF CancelWrite
  <2>2. NoneQueued
    BY <1>0, <1>4 DEF CancelWrite
  <2> QED BY <1>1, <2>1, <2>2
<1>5. CASE PopSkip \/ PopRun
  <2>1. Refresh(queue', registered, cancel, status) /\ UNCHANGED <<registered, cancel, status>>
    BY <1>5 DEF PopSkip, PopRun
  <2> QED BY <2>1, RefreshedOrdered
<1>10. CASE Close
  <2>1. Refresh(queue, registered', cancel, status) /\ UNCHANGED <<queue, cancel, status>>
    BY <1>10 DEF Close
  <2> QED BY <2>1, RefreshedOrdered
<1>11. ASSUME NEW r \in Runs, CancelRefresh(r)
       PROVE  position' \in [Runs -> Nat] /\ PositionsOrdered'
  <2>1. Refresh(queue, registered, cancel, status) /\ UNCHANGED <<queue, registered, cancel, status>>
    BY <1>11 DEF CancelRefresh
  <2> QED BY <2>1, RefreshedOrdered
<1>6. CASE WritePaused \/ End \/ \E n \in 0..MaxSteps : Begin(n)
  <2>1. UNCHANGED <<queue, registered, cancel, position>>
    BY <1>6 DEF WritePaused, End, Begin
  <2>2. NoneQueued
    BY <1>0, <1>6 DEF WritePaused, End, Begin, Terminal
  <2> QED BY <1>1, <2>1, <2>2
<1>7. CASE Shutdown \/ \E r \in Runs : FlagCall(r)
  <2>1. UNCHANGED <<queue, registered, status, position>>
    BY <1>7 DEF Shutdown, FlagCall, PauseSet, ResumeClear, CancelSet
  <2>2. NoneUnflagged
    BY <1>0, <1>7 DEF Shutdown, FlagCall, PauseSet, ResumeClear, CancelSet
  <2> QED BY <1>1, <2>1, <2>2
<1>8. CASE UNCHANGED <<queue, registered, cancel, status, position>>
  BY <1>1, <1>8
<1>9. Moves \/ Check \/ StepSucceeds \/ StepRaises \/ UNCHANGED vars
          => UNCHANGED <<queue, registered, cancel, status, position>>
  BY DEF Moves, Gate, LeaveHold, DispatcherExits, CompileRaises, Check, StepSucceeds, StepRaises, vars
<1> QED BY <1>2, <1>3, <1>4, <1>5, <1>6, <1>7, <1>8, <1>9, <1>10, <1>11
        DEF Next, Dispatch, CallReturns, Moves, FlagCall

-----------------------------------------------------------------------------
LEMMA IInvInit == Init => IInv
<1> SUFFICES ASSUME Init PROVE IInv
  OBVIOUS
<1>1. Types
  BY StatusesAre, FS_EmptySet DEF Init, Types, DispatcherPcs
<1>2. QueueFits
  BY DEF Init, QueueFits, EntriesUnique
<1>3. ShownRunningIsActive /\ NotLiveYet
  BY DEF Init, ShownRunningIsActive, NotLiveYet
<1>4. PositionsOrdered
  BY DEF Init, PositionsOrdered, Pending
<1> QED BY <1>1, <1>2, <1>3, <1>4 DEF IInv

LEMMA IInvStep == IInv /\ [Next]_vars => IInv'
<1> SUFFICES ASSUME IInv, [Next]_vars PROVE IInv'
  OBVIOUS
<1>1. Types /\ QueueFits /\ ShownRunningIsActive /\ NotLiveYet /\ PositionsOrdered
  BY DEF IInv
<1>2. OtherTypes' /\ position' \in [Runs -> Nat] /\ PositionsOrdered'
  BY <1>1, TypesStep, PositionsStep
<1>3. Types'
  BY <1>2 DEF Types, OtherTypes
<1>4. QueueFits' /\ ShownRunningIsActive' /\ NotLiveYet'
  BY <1>1, QueueStep, LiveStep
<1> QED BY <1>2, <1>3, <1>4 DEF IInv

LEMMA Inductive == Spec => []IInv
  BY IInvInit, IInvStep, PTL DEF Spec

(* At every moment the stored positions rank the pending runs, front before   *)
(* fifo, though flags and statuses change outside the lock under which they   *)
(* are refreshed (_refresh_queue_positions_locked and its callers).           *)
THEOREM PositionsHold == Spec => []PositionsOrdered
<1>1. IInv => PositionsOrdered
  BY DEF IInv
<1> QED BY <1>1, Inductive, PTL

(* Only the run the dispatcher is executing is shown as running, pausing or   *)
(* paused, in whatever order the status writes of pause, resume, cancel and   *)
(* _execute come (RunManager.pause, resume, cancel, _execute).                *)
THEOREM OnlyActiveShownRunning == Spec => []ShownRunningIsActive
<1>1. IInv => ShownRunningIsActive
  BY DEF IInv
<1> QED BY <1>1, Inductive, PTL

(* The run the dispatcher takes precedes every pending run it leaves in the   *)
(* queue: by priority, then by the order of start() (_dispatch_loop).         *)
THEOREM TakesTheFirst == Spec => DispatchOrder
<1> DEFINE Takes == \A own \in queue \ queue' :
                        active' = own[3] =>
                            \A e \in Pending(queue', registered, cancel, status) : Before(own, e)
<1>1. IInv /\ Next => Takes
  <2> SUFFICES ASSUME IInv, Next, NEW own \in queue \ queue', active' = own[3],
                      NEW e \in Pending(queue', registered, cancel, status)
               PROVE  Before(own, e)
    OBVIOUS
  <2>1. e \in queue' /\ queue \subseteq Entries /\ (active = NoRun <=> dispatcher \in {"none", "idle"})
    BY DEF Pending, IInv, Types
  <2>2. own[3] \in Runs /\ NoRun \notin Runs
    BY <2>1, RunsAssumption DEF Entries
  <2>3. CASE PopRun
    <3>1. PICK f \in queue : First(f) /\ queue' = queue \ {f}
      BY <2>3 DEF PopRun
    <3>2. f = own /\ e \in queue \ {f}
      BY <2>1, <3>1
    <3> QED BY <3>1, <3>2 DEF First
  <2>4. CASE PopSkip
    BY <2>1, <2>2, <2>4 DEF PopSkip
  <2>5. Dispatch \/ Shutdown => PopRun \/ PopSkip \/ queue \subseteq queue'
    BY DEF Dispatch, DispatcherExits, CompileRaises, Begin, Gate, WritePaused, LeaveHold, Check,
           StepSucceeds, StepRaises, End, Close, Shutdown, queueVars
  <2>6. (\E r \in Runs : \/ \E priority \in {-1, 0} : Start(r, priority)
                         \/ PauseSet(r) \/ ResumeClear(r) \/ CancelSet(r) \/ CallReturns(r))
            => queue \subseteq queue'
    BY DEF Start, PauseSet, ResumeClear, CancelSet, CallReturns, PauseWrite, ResumeWrite,
           CancelWrite, CancelRefresh, queueVars
  <2> QED BY <2>3, <2>4, <2>5, <2>6 DEF Next
<1>2. IInv /\ [Next]_vars => [Takes]_vars
  BY <1>1
<1>3. Spec => [][Takes]_vars
  <2> HIDE DEF Takes
  <2> QED BY <1>2, Inductive, PTL DEF Spec
<1> QED BY <1>3 DEF DispatchOrder

(* Once a run's flag is up and it is in no step, none of its steps begins     *)
(* again (_wait_if_paused and the test after it in _run_step).                *)
LEMMA StopStep ==
    ASSUME Types, [Next]_vars, NEW r \in Runs, cancel[r], ~Working(r)
    PROVE  cancel'[r] /\ ~Working(r)'
<1> USE DEF runVars, flagVars, queueVars, execVars
<1>1. cancel'[r]
  <2>1. CASE \E s \in Runs : CancelSet(s)
    BY <2>1 DEF CancelSet, Types
  <2>2. CASE Shutdown
    BY <2>2 DEF Shutdown
  <2>3. (\E s \in Runs : \/ \E priority \in {-1, 0} : Start(s, priority)
                         \/ PauseSet(s) \/ ResumeClear(s) \/ CallReturns(s))
            => cancel' = cancel
    BY DEF Start, PauseSet, ResumeClear, CallReturns, PauseWrite, ResumeWrite, CancelWrite, CancelRefresh
  <2>4. Dispatch \/ UNCHANGED vars => cancel' = cancel
    BY DEF Dispatch, PopSkip, PopRun, DispatcherExits, CompileRaises, Begin, Gate, WritePaused,
           LeaveHold, Check, StepSucceeds, StepRaises, End, Close, vars
  <2> QED BY <2>1, <2>2, <2>3, <2>4 DEF Next
<1>2. ~Working(r)'
  <2> SUFFICES ASSUME active' = r, dispatcher' = "working"
               PROVE  FALSE
    BY DEF Working
  <2>1. CASE Check
    BY <2>1 DEF Check
  <2>2. CASE UNCHANGED <<active, dispatcher>>
    BY <2>2 DEF Working
  <2>3. (\E s \in Runs : \/ PauseSet(s) \/ ResumeClear(s) \/ CancelSet(s) \/ CallReturns(s))
            => UNCHANGED <<active, dispatcher>>
    BY DEF PauseSet, ResumeClear, CancelSet, CallReturns, PauseWrite, ResumeWrite, CancelWrite, CancelRefresh
  <2>4. Shutdown \/ PopSkip \/ UNCHANGED vars => UNCHANGED <<active, dispatcher>>
    BY DEF Shutdown, PopSkip, vars
  <2>5. (\E s \in Runs, priority \in {-1, 0} : Start(s, priority)) => UNCHANGED <<active, dispatcher>>
    BY DEF Start
  <2>6. PopRun \/ DispatcherExits \/ CompileRaises \/ Gate \/ WritePaused \/ LeaveHold \/ StepSucceeds
            \/ StepRaises \/ End \/ Close \/ (\E n \in 0..MaxSteps : Begin(n)) => dispatcher' # "working"
    BY DEF PopRun, DispatcherExits, CompileRaises, Gate, WritePaused, LeaveHold, StepSucceeds,
           StepRaises, End, Close, Begin
  <2> QED BY <2>1, <2>2, <2>3, <2>4, <2>5, <2>6 DEF Next, Dispatch
<1> QED BY <1>1, <1>2

(* Stop is final: whatever pause, resume and Stop calls come later, in any    *)
(* order, a stopped run starts no further step (cancel, resume,               *)
(* _wait_if_paused, _run_step).                                               *)
THEOREM StopIsFinal == Spec => StopSticks
<1> SUFFICES ASSUME NEW r \in Runs
             PROVE  Spec => [](cancel[r] /\ ~Working(r) => []~Working(r))
  BY DEF StopSticks
<1> DEFINE Stopped == cancel[r] /\ ~Working(r)
<1>1. IInv /\ [Next]_vars /\ Stopped => Stopped'
  BY StopStep DEF IInv
<1>2. Stopped => ~Working(r)
  OBVIOUS
<1>3. Spec => [](Stopped => []~Working(r))
  <2> HIDE DEF Stopped
  <2> QED BY <1>1, <1>2, Inductive, PTL DEF Spec
<1> QED BY <1>3
-----------------------------------------------------------------------------
(* The history                                                                *)

(* No two runs ended at the same time, and a run that is over has ended.      *)
StampsInv ==
    /\ clock \in Nat /\ completedAt \in [Runs -> Nat]
    /\ \A r \in Runs : completedAt[r] <= clock
    /\ \A r, s \in Runs : r # s /\ completedAt[r] = completedAt[s] => completedAt[r] = 0
    /\ \A r \in Runs : status[r] \in Terminal => completedAt[r] > 0

LEMMA StampsStep ==
    ASSUME Types, StampsInv, [Next]_vars
    PROVE  StampsInv'
<1> USE DEF runVars, stampVars, flagVars, queueVars, execVars
<1>0. /\ status \in [Runs -> Statuses] /\ active \in Runs \cup {NoRun}
      /\ (active = NoRun) <=> dispatcher \in {"none", "idle"}
  BY DEF Types
<1>1. ASSUME UNCHANGED stampVars, \A r \in Runs : status'[r] \in Terminal => status[r] \in Terminal
      PROVE  StampsInv'
  BY <1>1 DEF StampsInv
<1>2. ASSUME NEW r \in Runs, Stamp(r), \A s \in Runs \ {r} : status'[s] = status[s]
      PROVE  StampsInv'
  <2>1. /\ clock \in Nat /\ clock' = clock + 1 /\ completedAt \in [Runs -> Nat]
        /\ completedAt' = [completedAt EXCEPT ![r] = clock + 1]
        /\ \A s \in Runs : completedAt[s] <= clock
    BY <1>2 DEF Stamp, StampsInv
  <2>2. /\ clock' \in Nat /\ completedAt' \in [Runs -> Nat]
        /\ completedAt'[r] = clock + 1
        /\ \A s \in Runs \ {r} : completedAt'[s] = completedAt[s]
    BY <2>1
  <2>3. \A s \in Runs : completedAt'[s] <= clock'
    BY <2>1, <2>2
  <2>4. \A s, t \in Runs : s # t /\ completedAt'[s] = completedAt'[t] => completedAt'[s] = 0
    <3> SUFFICES ASSUME NEW s \in Runs, NEW t \in Runs, s # t, completedAt'[s] = completedAt'[t]
                 PROVE  completedAt'[s] = 0
      OBVIOUS
    <3>1. s # r /\ t # r
      BY <2>1, <2>2
    <3> QED BY <2>2, <3>1 DEF StampsInv
  <2>5. \A s \in Runs : status'[s] \in Terminal => completedAt'[s] > 0
    BY <1>2, <2>1, <2>2 DEF StampsInv
  <2> QED BY <2>2, <2>3, <2>4, <2>5 DEF StampsInv
<1>3. ASSUME NEW r \in Runs, CancelWrite(r)
      PROVE  StampsInv'
  <2>1. CASE status[r] = "QUEUED"
    BY <1>0, <1>2, <1>3, <2>1 DEF CancelWrite
  <2>2. CASE status[r] # "QUEUED"
    BY <1>0, <1>1, <1>3, <2>2 DEF CancelWrite, Terminal
  <2> QED BY <2>1, <2>2
<1>4. CASE End
  <2>1. active \in Runs
    BY <1>0, <1>4 DEF End
  <2> QED BY <1>0, <1>2, <1>4, <2>1 DEF End
<1>5. ASSUME NEW r \in Runs, PauseWrite(r) \/ ResumeWrite(r) \/ CancelRefresh(r)
      PROVE  StampsInv'
  BY <1>0, <1>1, <1>5 DEF PauseWrite, ResumeWrite, CancelRefresh, Terminal
<1>6. ASSUME NEW r \in Runs, NEW priority \in {-1, 0}, Start(r, priority)
      PROVE  StampsInv'
  BY <1>0, <1>1, <1>6 DEF Start, Terminal
<1>7. CASE WritePaused \/ \E n \in 0..MaxSteps : Begin(n)
  BY <1>0, <1>1, <1>7 DEF WritePaused, Begin, Terminal
<1>8. CASE UNCHANGED <<status, stampVars>>
  BY <1>1, <1>8
<1>9. Moves \/ Check \/ StepSucceeds \/ StepRaises \/ PopSkip \/ PopRun \/ Close \/ Shutdown
          => UNCHANGED <<status, stampVars>>
  BY DEF Moves, Gate, LeaveHold, DispatcherExits, CompileRaises, Check, StepSucceeds, StepRaises,
         PopSkip, PopRun, Close, Shutdown
<1>10. (\E r \in Runs : FlagCall(r)) \/ UNCHANGED vars => UNCHANGED <<status, stampVars>>
  BY DEF FlagCall, PauseSet, ResumeClear, CancelSet, vars
<1> QED BY <1>3, <1>4, <1>5, <1>6, <1>7, <1>8, <1>9, <1>10 DEF Next, Dispatch, CallReturns, Moves, FlagCall

(* Some element of a set has the least value of f, and some the greatest if   *)
(* the values are bounded.                                                    *)
LEMMA LeastOf ==
    ASSUME NEW S, S # {}, NEW f, \A x \in S : f[x] \in Nat
    PROVE  \E x \in S : \A y \in S : f[x] <= f[y]
<1> DEFINE V == {f[x] : x \in S}
<1>1. V \subseteq Nat /\ V # {}
  OBVIOUS
<1>2. PICK v \in V : \A w \in V : ~ (<<w, v>> \in OpToRel(<, Nat))
  <2> HIDE DEF V
  <2> QED BY <1>1, NatLessThanWellFounded, WFMin
<1>3. ASSUME NEW w \in V
      PROVE  v <= w
  <2>1. v \in Nat /\ w \in Nat
    BY <1>1
  <2>2. w < v => <<w, v>> \in OpToRel(<, Nat)
    <3>1. <<w, v>> \in Nat \X Nat /\ <<w, v>>[1] = w /\ <<w, v>>[2] = v
      BY <2>1
    <3> QED BY <3>1, Zenon DEF OpToRel
  <2>3. ~ (w < v)
    BY <1>2, <2>2, Zenon
  <2> QED BY <2>1, <2>3
<1> QED BY <1>2, <1>3

LEMMA GreatestOf ==
    ASSUME NEW S, S # {}, NEW n \in Nat, NEW f, \A x \in S : f[x] \in Nat /\ f[x] <= n
    PROVE  \E x \in S : \A y \in S : f[y] <= f[x]
<1> DEFINE g == [x \in S |-> n - f[x]]
<1>1. \A x \in S : g[x] = n - f[x] /\ g[x] \in Nat
  OBVIOUS
<1>2. PICK x \in S : \A y \in S : g[x] <= g[y]
  <2> HIDE DEF g
  <2> QED BY <1>1, LeastOf
<1> QED BY <1>1, <1>2

(* What pruning keeps: the youngest runs that are over, as many as the limit  *)
(* allows.                                                                    *)
LEMMA PruneCounts ==
    ASSUME Types, StampsInv, NEW kept, kept = History \ Pruned
    PROVE  /\ Pruned \subseteq History
           /\ \A r \in Pruned : \A k \in kept : completedAt[r] < completedAt[k]
           /\ Cardinality(kept) \in Nat /\ Cardinality(kept) <= HistoryLimit
           /\ Pruned # {} => Cardinality(kept) = HistoryLimit
<1>1. /\ History \subseteq Runs /\ IsFiniteSet(History) /\ kept \subseteq History
      /\ IsFiniteSet(kept) /\ Cardinality(kept) \in Nat
  <2>1. History \subseteq Runs /\ kept \subseteq History
    BY DEF History, Types
  <2>2. IsFiniteSet(History)
    BY <2>1, RunsAssumption, FS_Subset
  <2> QED BY <2>1, <2>2, FS_Subset, FS_CardinalityType
<1>2. \A r \in History : /\ IsFiniteSet(Younger(r)) /\ Cardinality(Younger(r)) \in Nat
                         /\ Younger(r) \subseteq History
  <2> SUFFICES ASSUME NEW r \in History
               PROVE  /\ IsFiniteSet(Younger(r)) /\ Cardinality(Younger(r)) \in Nat
                      /\ Younger(r) \subseteq History
    OBVIOUS
  <2>1. Younger(r) \subseteq History
    BY DEF Younger
  <2> QED BY <1>1, <2>1, FS_Subset, FS_CardinalityType
<1>3. /\ \A r \in History : completedAt[r] \in Nat /\ completedAt[r] <= clock
      /\ \A r, k \in History : r # k => completedAt[r] # completedAt[k]
      /\ clock \in Nat /\ HistoryLimit \in Nat \ {0}
  BY <1>1, LimitAssumption DEF StampsInv, History
<1>4. /\ Pruned \subseteq History
      /\ \A r \in Pruned : Cardinality(Younger(r)) >= HistoryLimit
      /\ \A k \in kept : k \in History /\ Cardinality(Younger(k)) < HistoryLimit
  BY <1>2, <1>3 DEF Pruned
<1>5. \A r \in Pruned : \A k \in kept : completedAt[r] < completedAt[k]
  <2> SUFFICES ASSUME NEW r \in Pruned, NEW k \in kept, completedAt[k] < completedAt[r]
               PROVE  FALSE
    BY <1>3, <1>4
  <2>1. Younger(r) \subseteq Younger(k)
    BY <1>3, <1>4 DEF Younger
  <2>2. Cardinality(Younger(r)) <= Cardinality(Younger(k))
    BY <1>2, <1>4, <2>1, FS_Subset
  <2> QED BY <1>2, <1>3, <1>4, <2>2
<1>6. Cardinality(kept) <= HistoryLimit
  <2>1. CASE kept = {}
    BY <1>3, <2>1, FS_EmptySet
  <2>2. CASE kept # {}
    <3>1. PICK k \in kept : \A o \in kept : completedAt[k] <= completedAt[o]
      BY <1>3, <1>4, <2>2, LeastOf
    <3>2. kept \ {k} \subseteq Younger(k)
      BY <1>3, <1>4, <3>1 DEF Younger
    <3>3. Cardinality(kept \ {k}) <= Cardinality(Younger(k))
      BY <1>2, <1>4, <3>2, FS_Subset
    <3>4. Cardinality(kept \ {k}) = Cardinality(kept) - 1
      BY <1>1, FS_RemoveElement
    <3> QED BY <1>1, <1>2, <1>3, <1>4, <3>3, <3>4
  <2> QED BY <2>1, <2>2
<1>7. ASSUME Pruned # {}
      PROVE  Cardinality(kept) = HistoryLimit
  <2>1. PICK r \in Pruned : \A o \in Pruned : completedAt[o] <= completedAt[r]
    BY <1>3, <1>4, <1>7, GreatestOf
  <2>2. Younger(r) \subseteq kept
    BY <1>3, <1>4, <2>1 DEF Younger
  <2>3. Cardinality(Younger(r)) <= Cardinality(kept)
    BY <1>1, <2>2, FS_Subset
  <2> QED BY <1>1, <1>2, <1>3, <1>4, <1>6, <2>3
<1> QED BY <1>1, <1>4, <1>5, <1>6, <1>7

(* Pruning drops only runs that are over, older than every one it keeps, and  *)
(* keeps as many as run_history_limit says (_prune_history_locked, called in  *)
(* the finally of _dispatch_loop).                                            *)
THEOREM PrunesTheOldest == Spec => PruneKeepsYoungest
<1> DEFINE Prunes ==
        /\ \A r \in registered \ registered' :
              /\ status[r] \in Terminal
              /\ \A k \in History' : completedAt[r] < completedAt[k]
              /\ Cardinality(History') = HistoryLimit
        /\ active # NoRun /\ active' = NoRun => Cardinality(History') <= HistoryLimit
<1>1. ASSUME IInv, StampsInv, Next
      PROVE  Prunes
  <2> USE DEF runVars
  <2>1. CASE Close
    <3>1. registered' = registered \ Pruned /\ status' = status
      BY <2>1 DEF Close
    <3>2. History' = History \ Pruned
      BY <3>1 DEF History
    <3>3. \A r \in registered \ registered' : r \in Pruned
      BY <3>1
    <3>4. /\ Pruned \subseteq History
          /\ \A r \in Pruned : \A k \in History' : completedAt[r] < completedAt[k]
          /\ Cardinality(History') <= HistoryLimit
          /\ Pruned # {} => Cardinality(History') = HistoryLimit
      <4>1. Types
        BY <1>1 DEF IInv
      <4> QED BY <1>1, <3>2, <4>1, PruneCounts
    <3> QED BY <3>3, <3>4 DEF History
  <2>2. CASE ~Close
    <3>1. Types
      BY <1>1 DEF IInv
    <3>2. Dispatch => registered' = registered /\ (active # NoRun => active' # NoRun)
      BY <2>2, <3>1 DEF Dispatch, PopSkip, PopRun, DispatcherExits, CompileRaises, Begin, Gate,
             WritePaused, LeaveHold, Check, StepSucceeds, StepRaises, End, Types
    <3>3. (\E r \in Runs : \/ \E priority \in {-1, 0} : Start(r, priority)
                           \/ PauseSet(r) \/ ResumeClear(r) \/ CancelSet(r) \/ CallReturns(r)) \/ Shutdown
              => registered \subseteq registered' /\ active' = active
      BY DEF Start, PauseSet, ResumeClear, CancelSet, CallReturns, PauseWrite, ResumeWrite,
             CancelWrite, CancelRefresh, Shutdown
    <3> QED BY <1>1, <3>2, <3>3 DEF Next
  <2> QED BY <2>1, <2>2
<1>2. Init => StampsInv
  BY DEF Init, StampsInv, Terminal
<1>3. IInv /\ StampsInv /\ [Next]_vars => StampsInv'
  BY StampsStep DEF IInv
<1>4. Spec => []StampsInv
  BY <1>2, <1>3, Inductive, PTL DEF Spec
<1>5. IInv /\ StampsInv /\ [Next]_vars => [Prunes]_vars
  BY <1>1
<1>6. Spec => [][Prunes]_vars
  <2> HIDE DEF Prunes
  <2> QED BY <1>4, <1>5, Inductive, PTL DEF Spec
<1> QED BY <1>6 DEF PruneKeepsYoungest

-----------------------------------------------------------------------------
(* The abstract queue                                                         *)

(* An entry whose run is not flagged is that of a registered run shown as     *)
(* QUEUED, so that neither the history nor a late call reaches it; the active *)
(* run has no entry any more; what was not started is neither flagged nor     *)
(* registered.                                                                *)
LineFits == \A e \in Line : e[3] \in registered /\ status[e[3]] = "QUEUED"
ActiveLeft ==
    /\ \A e \in queue : e[3] # active
    /\ active # NoRun => status[active] # "NONE"
StartedOnly ==
    /\ \A r \in registered : status[r] # "NONE"
    /\ \A r \in Runs : cancel[r] => status[r] # "NONE"
CancelsFlagged ==
    /\ DOMAIN call = Runs
    /\ \A r \in Runs : call[r] = "cancelling" => cancel[r]

LineInv == LineFits /\ ActiveLeft /\ StartedOnly /\ CancelsFlagged

(* No started run becomes one that was not, and no flag goes down.            *)
LEMMA NeverUndone ==
    ASSUME Types, [Next]_vars
    PROVE  \A r \in Runs : /\ status[r] # "NONE" => status'[r] # "NONE"
                           /\ cancel[r] => cancel'[r]
<1> USE DEF runVars, flagVars, queueVars, execVars
<1>0. /\ status \in [Runs -> Statuses] /\ cancel \in [Runs -> BOOLEAN]
      /\ active \in Runs \cup {NoRun} /\ NoRun \notin Runs
      /\ dispatcher = "ending" => verdict \in Terminal
  BY RunsAssumption DEF Types
<1>1. CASE \E r \in Runs, priority \in {-1, 0} : Start(r, priority)
  BY <1>0, <1>1 DEF Start
<1>2. CASE \E r \in Runs : CallReturns(r)
  <2>1. cancel' = cancel
    BY <1>2 DEF CallReturns, PauseWrite, ResumeWrite, CancelWrite, CancelRefresh
  <2>2. \A r \in Runs : status[r] # "NONE" => status'[r] # "NONE"
    BY <1>0, <1>2 DEF CallReturns, PauseWrite, ResumeWrite, CancelWrite, CancelRefresh
  <2> QED BY <2>1, <2>2
<1>3. CASE Shutdown \/ \E r \in Runs : FlagCall(r)
  <2>1. status' = status
    BY <1>3 DEF Shutdown, FlagCall, PauseSet, ResumeClear, CancelSet
  <2>2. \A r \in Runs : cancel[r] => cancel'[r]
    BY <1>0, <1>3 DEF Shutdown, FlagCall, PauseSet, ResumeClear, CancelSet
  <2> QED BY <2>1, <2>2
<1>4. CASE WritePaused \/ End \/ \E n \in 0..MaxSteps : Begin(n)
  <2>1. cancel' = cancel
    BY <1>4 DEF WritePaused, End, Begin
  <2>2. \A r \in Runs : status[r] # "NONE" => status'[r] # "NONE"
    BY <1>0, <1>4 DEF WritePaused, End, Begin, Terminal
  <2> QED BY <2>1, <2>2
<1>5. CASE UNCHANGED <<status, cancel>>
  BY <1>5
<1>6. Moves \/ Check \/ StepSucceeds \/ StepRaises \/ PopSkip \/ PopRun \/ Close \/ UNCHANGED vars
          => UNCHANGED <<status, cancel>>
  BY DEF Moves, Gate, LeaveHold, DispatcherExits, CompileRaises, Check, StepSucceeds, StepRaises,
         PopSkip, PopRun, Close, vars
<1> QED BY <1>1, <1>2, <1>3, <1>4, <1>5, <1>6 DEF Next, Dispatch, Moves, FlagCall

LEMMA CancelsStep ==
    ASSUME Types, CancelsFlagged, [Next]_vars
    PROVE  CancelsFlagged'
<1>1. ASSUME NEW r \in Runs, FlagCall(r)
      PROVE  CancelsFlagged'
  <2>1. /\ DOMAIN call' = Runs /\ (call'[r] = "cancelling" => cancel'[r])
        /\ \A s \in Runs \ {r} : call'[s] = call[s]
    BY <1>1 DEF FlagCall, PauseSet, ResumeClear, CancelSet, CancelsFlagged, Types
  <2> QED BY <2>1, NeverUndone DEF CancelsFlagged
<1>2. ASSUME NEW r \in Runs, CallReturns(r)
      PROVE  CancelsFlagged'
  <2>1. /\ DOMAIN call' = Runs /\ call'[r] # "cancelling"
        /\ \A s \in Runs \ {r} : call'[s] = call[s]
    BY <1>2 DEF CallReturns, PauseWrite, ResumeWrite, CancelWrite, CancelRefresh, CancelsFlagged
  <2> QED BY <2>1, NeverUndone DEF CancelsFlagged
<1>3. CASE call' = call
  BY <1>3, NeverUndone DEF CancelsFlagged
<1>4. Dispatch \/ Shutdown \/ (\E r \in Runs, priority \in {-1, 0} : Start(r, priority)) \/ UNCHANGED vars
          => call' = call
  BY DEF Dispatch, PopSkip, PopRun, DispatcherExits, CompileRaises, Begin, Gate, WritePaused,
         LeaveHold, Check, StepSucceeds, StepRaises, End, Close, Shutdown, Start, vars
<1> QED BY <1>1, <1>2, <1>3, <1>4 DEF Next, FlagCall

LEMMA StartedStep ==
    ASSUME Types, StartedOnly, [Next]_vars
    PROVE  StartedOnly'
<1> USE DEF runVars, flagVars, queueVars, execVars
<1>0. registered \subseteq Runs /\ status \in [Runs -> Statuses] /\ cancel \in [Runs -> BOOLEAN]
  BY DEF Types
<1>1. ASSUME NEW r \in Runs, NEW priority \in {-1, 0}, Start(r, priority)
      PROVE  StartedOnly'
  BY <1>0, <1>1 DEF Start, StartedOnly
<1>2. CASE Shutdown \/ \E r \in Runs : CancelSet(r)
  BY <1>0, <1>2 DEF Shutdown, CancelSet, Calls, StartedOnly
<1>3. CASE registered' \subseteq registered /\ cancel' = cancel
  BY <1>0, <1>3, NeverUndone DEF StartedOnly
<1>4. (\E r \in Runs : PauseSet(r) \/ ResumeClear(r) \/ CallReturns(r)) \/ UNCHANGED vars
          => registered' \subseteq registered /\ cancel' = cancel
  BY DEF PauseSet, ResumeClear, CallReturns, PauseWrite, ResumeWrite, CancelWrite, CancelRefresh, vars
<1>5. Dispatch => registered' \subseteq registered /\ cancel' = cancel
  BY DEF Dispatch, PopSkip, PopRun, DispatcherExits, CompileRaises, Begin, Gate, WritePaused,
         LeaveHold, Check, StepSucceeds, StepRaises, End, Close
<1> QED BY <1>1, <1>2, <1>3, <1>4, <1>5 DEF Next

LEMMA ActiveLeftStep ==
    ASSUME Types, QueueFits, ActiveLeft, [Next]_vars
    PROVE  ActiveLeft'
<1> USE DEF runVars, flagVars, queueVars, execVars
<1>0. /\ queue \subseteq Entries /\ active \in Runs \cup {NoRun} /\ NoRun \notin Runs
      /\ \A e \in queue : e[3] \in Runs /\ status[e[3]] # "NONE"
  BY RunsAssumption DEF Types, QueueFits, Entries
<1>1. ASSUME NEW r \in Runs, NEW priority \in {-1, 0}, Start(r, priority)
      PROVE  ActiveLeft'
  <2>1. /\ status[r] = "NONE" /\ active' = active
        /\ queue' = queue \cup {<<priority, sequence + 1, r>>}
    BY <1>1 DEF Start
  <2>2. r # active
    BY <1>0, <2>1 DEF ActiveLeft
  <2>3. active # NoRun => status'[active] # "NONE"
    BY <1>0, NeverUndone DEF ActiveLeft
  <2> QED BY <2>1, <2>2, <2>3 DEF ActiveLeft
<1>2. CASE PopRun
  <2>1. PICK e \in queue : queue' = queue \ {e} /\ active' = e[3] /\ status' = status
    BY <1>2 DEF PopRun
  <2>2. \A o \in queue' : o[3] # e[3]
    BY <2>1 DEF QueueFits, EntriesUnique
  <2> QED BY <1>0, <2>1, <2>2 DEF ActiveLeft
<1>3. CASE Close
  BY <1>0, <1>3 DEF Close, ActiveLeft
<1>4. CASE queue' \subseteq queue /\ active' = active
  BY <1>0, <1>4, NeverUndone DEF ActiveLeft
<1>5. (\E r \in Runs : FlagCall(r) \/ CallReturns(r)) \/ Shutdown \/ UNCHANGED vars
          => queue' \subseteq queue /\ active' = active
  BY DEF FlagCall, PauseSet, ResumeClear, CancelSet, CallReturns, PauseWrite, ResumeWrite, CancelWrite,
         CancelRefresh, Shutdown, vars
<1>6. Dispatch => PopRun \/ Close \/ (queue' \subseteq queue /\ active' = active)
  BY DEF Dispatch, PopSkip, DispatcherExits, CompileRaises, Begin, Gate, WritePaused,
         LeaveHold, Check, StepSucceeds, StepRaises, End
<1> QED BY <1>1, <1>2, <1>3, <1>4, <1>5, <1>6 DEF Next, FlagCall

LEMMA LineStep ==
    ASSUME Types, QueueFits, LineInv, [Next]_vars
    PROVE  LineFits'
<1> USE DEF runVars, flagVars, queueVars, execVars
<1>0. /\ queue \subseteq Entries /\ status \in [Runs -> Statuses] /\ cancel \in [Runs -> BOOLEAN]
      /\ registered \subseteq Runs /\ active \in Runs \cup {NoRun} /\ NoRun \notin Runs
      /\ (active = NoRun) <=> dispatcher \in {"none", "idle"}
      /\ \A e \in queue : e[3] \in Runs /\ status[e[3]] # "NONE" /\ e[3] # active
      /\ \A e \in queue : ~cancel[e[3]] => e[3] \in registered /\ status[e[3]] = "QUEUED"
  BY RunsAssumption DEF Types, QueueFits, Entries, LineInv, LineFits, Line, ActiveLeft
<1>1. ASSUME NEW r \in Runs, NEW priority \in {-1, 0}, Start(r, priority)
      PROVE  LineFits'
  <2>1. /\ queue' = queue \cup {<<priority, sequence + 1, r>>} /\ cancel' = cancel
        /\ registered' = registered \cup {r} /\ status' = [status EXCEPT ![r] = "QUEUED"]
    BY <1>1 DEF Start
  <2>2. ASSUME NEW e \in queue', ~cancel'[e[3]]
        PROVE  e[3] \in registered' /\ status'[e[3]] = "QUEUED"
    BY <1>0, <2>1, <2>2
  <2> QED BY <2>2 DEF LineFits, Line
<1>2. ASSUME queue' \subseteq queue,
             \A e \in queue : ~cancel[e[3]] =>
                 /\ status'[e[3]] = "QUEUED" \/ cancel'[e[3]]
                 /\ e[3] \in registered'
      PROVE  LineFits'
  <2>1. ASSUME NEW e \in queue', ~cancel'[e[3]]
        PROVE  e[3] \in registered' /\ status'[e[3]] = "QUEUED"
    <3>1. e \in queue /\ e[3] \in Runs
      BY <1>0, <1>2
    <3>2. ~cancel[e[3]]
      BY <2>1, <3>1, NeverUndone
    <3> QED BY <1>2, <2>1, <3>1, <3>2
  <2> QED BY <2>1 DEF LineFits, Line
<1>3. ASSUME NEW r \in Runs, PauseWrite(r) \/ ResumeWrite(r) \/ CancelRefresh(r)
      PROVE  LineFits'
  <2>1. /\ queue' = queue /\ registered' = registered /\ cancel' = cancel
        /\ \A s \in Runs : status[s] = "QUEUED" => status'[s] = "QUEUED"
    BY <1>0, <1>3 DEF PauseWrite, ResumeWrite, CancelRefresh
  <2> QED BY <1>0, <1>2, <2>1
<1>4. ASSUME NEW r \in Runs, CancelWrite(r)
      PROVE  LineFits'
  <2>1. /\ queue' = queue /\ registered' = registered /\ cancel' = cancel /\ cancel[r]
        /\ \A s \in Runs \ {r} : status'[s] = status[s]
    BY <1>0, <1>4 DEF CancelWrite, LineInv, CancelsFlagged
  <2> QED BY <1>0, <1>2, <2>1
<1>5. CASE WritePaused \/ End \/ \E n \in 0..MaxSteps : Begin(n)
  <2>1. /\ queue' = queue /\ registered' = registered
        /\ \A s \in Runs \ {active} : status'[s] = status[s]
    BY <1>0, <1>5 DEF WritePaused, End, Begin
  <2> QED BY <1>0, <1>2, <2>1
<1>6. CASE Close
  <2>1. queue' = queue /\ registered' = registered \ Pruned /\ status' = status
    BY <1>6 DEF Close
  <2>2. \A r \in Pruned : status[r] # "QUEUED"
    BY DEF Pruned, History, Terminal
  <2> QED BY <1>0, <1>2, <2>1, <2>2
<1>7. CASE queue' \subseteq queue /\ registered' = registered /\ status' = status
  BY <1>0, <1>2, <1>7
<1>8. (\E r \in Runs : FlagCall(r)) \/ Shutdown \/ UNCHANGED vars
          => queue' \subseteq queue /\ registered' = registered /\ status' = status
  BY DEF FlagCall, PauseSet, ResumeClear, CancelSet, Shutdown, vars
<1>9. PopSkip \/ PopRun \/ Moves \/ Check \/ StepSucceeds \/ StepRaises
          => queue' \subseteq queue /\ registered' = registered /\ status' = status
  BY DEF PopSkip, PopRun, Moves, Gate, LeaveHold, DispatcherExits, CompileRaises, Check, StepSucceeds, StepRaises
<1> QED BY <1>1, <1>3, <1>4, <1>5, <1>6, <1>7, <1>8, <1>9 DEF Next, Dispatch, CallReturns, Moves, FlagCall

LEMMA LineInvStep == IInv /\ LineInv /\ [Next]_vars => LineInv'
  BY CancelsStep, StartedStep, ActiveLeftStep, LineStep DEF IInv, LineInv

LEMMA LineInvInit == Init => LineInv
  BY DEF Init, LineInv, LineFits, Line, ActiveLeft, StartedOnly, CancelsFlagged

LEMMA LineHolds == Spec => []LineInv
  BY LineInvInit, LineInvStep, Inductive, PTL DEF Spec

(* The mapped state: where each run is, and who is ahead of whom.             *)
PlaceMap == [r \in Runs |-> Place(r)]
AheadMap == {p \in Runs \X Runs : Ahead(p[1], p[2])}
StoppedMap == {r \in Runs : cancel[r]}
WorkingMap == dispatcher = "working"
Waits(r) == \E e \in Line : e[3] = r

(* What the places say of the manager.                                        *)
PlacesRead ==
    /\ \A r \in Runs :
          /\ (PlaceMap[r] = "out") <=> (status[r] = "NONE")
          /\ (PlaceMap[r] = "current") <=> (active = r)
          /\ (PlaceMap[r] = "front") <=> InLine(r, -1)
          /\ (PlaceMap[r] = "back") <=> InLine(r, 0)
          /\ (PlaceMap[r] \in {"front", "back"}) <=> Waits(r)
          /\ PlaceMap[r] \in {"out", "current", "front", "back", "over"}
    /\ RunLine!Waiting(PlaceMap) = {r \in Runs : Waits(r)}

LEMMA PlacesAre == Types /\ QueueFits /\ LineInv => PlacesRead
<1> SUFFICES ASSUME Types, QueueFits, LineInv
             PROVE  PlacesRead
  OBVIOUS
<1>0. /\ NoRun \notin Runs /\ active \in Runs \cup {NoRun}
      /\ \A e \in Line : /\ e \in queue /\ e[1] \in {-1, 0} /\ e[3] \in Runs
                         /\ status[e[3]] = "QUEUED" /\ active # e[3]
      /\ \A a, b \in Line : a[3] = b[3] => a = b
      /\ \A r \in Runs : active = r => status[r] # "NONE"
  BY RunsAssumption DEF Types, QueueFits, EntriesUnique, LineInv, LineFits, Line, ActiveLeft, Entries
<1>1. ASSUME NEW r \in Runs
      PROVE  /\ (Place(r) = "out") <=> (status[r] = "NONE")
             /\ (Place(r) = "current") <=> (active = r)
             /\ (Place(r) = "front") <=> InLine(r, -1)
             /\ (Place(r) = "back") <=> InLine(r, 0)
             /\ (Place(r) \in {"front", "back"}) <=> Waits(r)
             /\ Place(r) \in {"out", "current", "front", "back", "over"}
  <2>1. InLine(r, -1) \/ InLine(r, 0) => Waits(r) /\ status[r] = "QUEUED" /\ active # r
    BY <1>0 DEF InLine, Waits
  <2>2. Waits(r) => InLine(r, -1) \/ InLine(r, 0)
    BY <1>0 DEF InLine, Waits
  <2>3. ~ (InLine(r, -1) /\ InLine(r, 0))
    BY <1>0 DEF InLine
  <2> QED BY <1>0, <2>1, <2>2, <2>3 DEF Place
<1>2. \A r \in Runs : PlaceMap[r] = Place(r)
  BY DEF PlaceMap
<1>3. RunLine!Waiting(PlaceMap) = {r \in Runs : Waits(r)}
  BY <1>1, <1>2 DEF RunLine!Waiting
<1> QED BY <1>1, <1>2, <1>3 DEF PlacesRead

(* As long as the line, the active run and which runs were started stay the   *)
(* same, nobody changes place.                                                *)
LEMMA SamePlaces ==
    ASSUME Line' = Line, active' = active, \A r \in Runs : (status'[r] = "NONE") <=> (status[r] = "NONE")
    PROVE  PlaceMap' = PlaceMap /\ AheadMap' = AheadMap
<1>1. \A r \in Runs : Place(r)' = Place(r)
  BY DEF Place, InLine
<1>2. \A r, s : Ahead(r, s)' = Ahead(r, s)
  BY DEF Ahead
<1> QED BY <1>1, <1>2 DEF PlaceMap, AheadMap

(* Runs leave the line and the others keep their order.                       *)
LEMMA OrderAmong ==
    ASSUME queue \subseteq Entries, NEW W \in SUBSET Runs, Line' = {e \in Line : e[3] \in W}
    PROVE  AheadMap' = {p \in AheadMap : p[1] \in W /\ p[2] \in W}
<1>1. \A e \in Line : e[3] \in Runs
  BY DEF Line, Entries
<1>2. \A r, s : Ahead(r, s)' <=> Ahead(r, s) /\ r \in W /\ s \in W
  BY <1>1 DEF Ahead
<1> QED BY <1>2 DEF AheadMap

(* start() enters the run behind those of its class.                          *)
LEMMA StartEnters ==
    ASSUME Types, QueueFits, LineInv, PlacesRead,
           NEW r \in Runs, NEW priority \in {-1, 0}, Start(r, priority)
    PROVE  RunLine!Enter(r, IF priority = -1 THEN "front" ELSE "back")
<1> DEFINE new == <<priority, sequence + 1, r>>
           class == IF priority = -1 THEN "front" ELSE "back"
           W == {w \in Runs : Waits(w)}
<1>0. /\ status[r] = "NONE" /\ status' = [status EXCEPT ![r] = "QUEUED"] /\ cancel' = cancel
      /\ queue' = queue \cup {new} /\ active' = active /\ ~cancel[r]
      /\ status \in [Runs -> Statuses] /\ active # r
      /\ (dispatcher' = "working") <=> (dispatcher = "working")
  <2>1. /\ status[r] = "NONE" /\ status' = [status EXCEPT ![r] = "QUEUED"] /\ cancel' = cancel
        /\ queue' = queue \cup {new} /\ active' = active
        /\ dispatcher' = IF dispatcher = "none" THEN "idle" ELSE dispatcher
    BY DEF Start, flagVars
  <2>2. ~cancel[r] /\ active # r
    BY <2>1, RunsAssumption DEF LineInv, StartedOnly, ActiveLeft
  <2>3. status \in [Runs -> Statuses]
    BY DEF Types
  <2> QED BY <2>1, <2>2, <2>3
<1>n. new[1] = priority /\ new[2] = sequence + 1 /\ new[3] = r /\ priority \in {-1, 0}
  OBVIOUS
<1>1. \A e \in Line : /\ e[1] \in {-1, 0} /\ e[2] \in Nat /\ e[2] <= sequence /\ e[3] \in Runs
                      /\ e[3] # r /\ sequence \in Nat
  BY <1>0 DEF Types, Entries, QueueFits, Line
<1>c. (class = "front") <=> (priority = -1)
  OBVIOUS
<1> HIDE DEF new
<1>2. Line' = Line \cup {new}
  BY <1>0, <1>n DEF Line
<1>3. PlaceMap' = [PlaceMap EXCEPT ![r] = class]
  <2>1. ASSUME NEW s \in Runs, s # r
        PROVE  Place(s)' = Place(s)
    <3>1. /\ InLine(s, -1)' <=> InLine(s, -1)
          /\ InLine(s, 0)' <=> InLine(s, 0)
      BY <1>2, <1>n, <2>1 DEF InLine
    <3> QED BY <1>0, <2>1, <3>1 DEF Place
  <2>2. Place(r)' = class
    <3>1. /\ InLine(r, -1)' <=> priority = -1
          /\ InLine(r, 0)' <=> priority = 0
      BY <1>1, <1>2, <1>n DEF InLine
    <3> QED BY <1>0, <3>1 DEF Place
  <2> QED BY <2>1, <2>2 DEF PlaceMap
<1>4. AheadMap' = AheadMap
          \cup {<<w, r>> : w \in {w \in W : class = "front" => PlaceMap[w] = "front"}}
          \cup {<<r, w>> : w \in {w \in W : class = "front" /\ PlaceMap[w] = "back"}}
  <2>1. \A e \in Line : /\ Before(e, new) <=> (priority = -1 => e[1] = -1)
                        /\ Before(new, e) <=> (priority = -1 /\ e[1] = 0)
    BY <1>1, <1>n DEF Before
  <2>2. ~Before(new, new)
    BY <1>n DEF Before, Types
  <2>3. ASSUME NEW s \in Runs, NEW t \in Runs
        PROVE  Ahead(s, t)' <=> \/ Ahead(s, t)
                                \/ t = r /\ s # r /\ Waits(s) /\ (class = "front" => InLine(s, -1))
                                \/ s = r /\ t # r /\ class = "front" /\ InLine(t, 0)
    <3>1. Ahead(s, t)' <=> \/ Ahead(s, t)
                           \/ \E a \in Line : a[3] = s /\ t = r /\ Before(a, new)
                           \/ \E b \in Line : s = r /\ b[3] = t /\ Before(new, b)
      BY <1>2, <1>n, <2>2 DEF Ahead
    <3>2. (\E a \in Line : a[3] = s /\ t = r /\ Before(a, new))
              <=> t = r /\ s # r /\ Waits(s) /\ (class = "front" => InLine(s, -1))
      <4>1. \A a, b \in Line : a[3] = b[3] => a = b
        BY DEF Line, QueueFits, EntriesUnique
      <4> HIDE DEF class
      <4>2. ASSUME NEW e \in Line
            PROVE  e[3] # r /\ e[1] \in {-1, 0} /\ (Before(e, new) <=> (class = "front" => e[1] = -1))
        <5>1. Before(e, new) <=> (priority = -1 => e[1] = -1)
          BY <2>1
        <5> QED BY <1>1, <1>c, <5>1
      <4> QED BY <4>1, <4>2 DEF Waits, InLine
    <3>3. (\E b \in Line : s = r /\ b[3] = t /\ Before(new, b))
              <=> s = r /\ t # r /\ class = "front" /\ InLine(t, 0)
      <4> HIDE DEF class
      <4>1. ASSUME NEW e \in Line
            PROVE  e[3] # r /\ (Before(new, e) <=> class = "front" /\ e[1] = 0)
        <5>1. Before(new, e) <=> (priority = -1 /\ e[1] = 0)
          BY <2>1
        <5> QED BY <1>1, <1>c, <5>1
      <4> QED BY <4>1 DEF InLine
    <3> QED BY <3>1, <3>2, <3>3
  <2>4. ~Waits(r)
    BY <1>1 DEF Waits
  <2>5. ASSUME NEW s \in Runs, NEW t \in Runs
        PROVE  Ahead(s, t)' <=> \/ Ahead(s, t)
                                \/ t = r /\ s \in {w \in W : class = "front" => PlaceMap[w] = "front"}
                                \/ s = r /\ t \in {w \in W : class = "front" /\ PlaceMap[w] = "back"}
    BY <2>3, <2>4 DEF PlacesRead
  <2> HIDE DEF W, class
  <2>6. W \subseteq Runs
    BY DEF W
  <2> QED BY <2>5, <2>6 DEF AheadMap
<1>5. StoppedMap' = StoppedMap /\ WorkingMap' = WorkingMap
  BY <1>0 DEF StoppedMap, WorkingMap
<1>6. PlaceMap[r] = "out" /\ RunLine!Waiting(PlaceMap) = W
  BY <1>0 DEF PlacesRead
<1> HIDE DEF class, W
<1> QED BY <1>3, <1>4, <1>5, <1>6 DEF RunLine!Enter, PlaceMap, AheadMap, StoppedMap, WorkingMap, class

(* Flags that go up on registered runs stop them: those in the line leave it. *)
LEMMA FlagsStop ==
    ASSUME Types, QueueFits, LineInv, PlacesRead, NEW S \in SUBSET registered,
           cancel' = [r \in Runs |-> cancel[r] \/ r \in S],
           UNCHANGED <<status, queue, active, dispatcher>>
    PROVE  RunLine!Stop(S)
<1> DEFINE W == {r \in Runs : Waits(r)}
<1>0. /\ S \subseteq Runs /\ \A r \in S : status[r] # "NONE"
      /\ queue \subseteq Entries /\ cancel \in [Runs -> BOOLEAN]
      /\ \A e \in queue : e[3] \in Runs
  BY DEF LineInv, StartedOnly, Types, Entries
<1>1. Line' = {e \in Line : e[3] \notin S}
  BY <1>0 DEF Line
<1>2. \A r \in Runs : Place(r)' = IF r \in S /\ Place(r) # "current" THEN "over" ELSE Place(r)
  <2> SUFFICES ASSUME NEW r \in Runs
               PROVE  Place(r)' = IF r \in S /\ Place(r) # "current" THEN "over" ELSE Place(r)
    OBVIOUS
  <2>1. /\ InLine(r, -1)' <=> InLine(r, -1) /\ r \notin S
        /\ InLine(r, 0)' <=> InLine(r, 0) /\ r \notin S
    BY <1>1 DEF InLine
  <2> QED BY <1>0, <2>1 DEF Place
<1>3. PlaceMap' = [r \in Runs |-> IF r \in S /\ PlaceMap[r] # "current" THEN "over" ELSE PlaceMap[r]]
  BY <1>2 DEF PlaceMap
<1>4. RunLine!Waiting(PlaceMap') = W \ S
  <2>1. \A r \in Runs : PlaceMap'[r] \in {"front", "back"} <=> Waits(r) /\ r \notin S
    BY <1>3 DEF PlacesRead
  <2> QED BY <2>1 DEF RunLine!Waiting
<1>5. AheadMap' = {p \in AheadMap : p[1] \in W \ S /\ p[2] \in W \ S}
  <2>1. Line' = {e \in Line : e[3] \in W \ S}
    BY <1>0, <1>1 DEF Waits, Line
  <2> QED BY <1>0, <2>1, OrderAmong
<1>6. StoppedMap' = StoppedMap \cup S /\ WorkingMap' = WorkingMap
  BY <1>0 DEF StoppedMap, WorkingMap
<1>7. \A r \in S : PlaceMap[r] # "out"
  BY <1>0 DEF PlacesRead
<1> HIDE DEF W
<1> QED BY <1>3, <1>4, <1>5, <1>6, <1>7
        DEF RunLine!Stop, RunLine!Among, PlaceMap, AheadMap, StoppedMap, WorkingMap

(* The dispatcher takes the first of the line.                                *)
LEMMA PopTakes ==
    ASSUME Types, QueueFits, LineInv, PlacesRead, PopRun
    PROVE  \E r \in Runs : RunLine!Take(r)
<1> DEFINE W == {r \in Runs : Waits(r)}
<1>0. PICK e \in queue : /\ First(e) /\ e[3] \in registered /\ ~cancel[e[3]]
                         /\ queue' = queue \ {e} /\ active' = e[3]
                         /\ UNCHANGED <<status, cancel>>
                         /\ dispatcher = "idle" /\ dispatcher' = "popped"
  BY DEF PopRun, runVars, flagVars
<1>1. PICK r \in Runs : r = e[3]
  BY DEF Types, Entries
<1>2. /\ e \in Line /\ status[r] = "QUEUED" /\ active = NoRun /\ NoRun \notin Runs
      /\ queue \subseteq Entries /\ \A o \in queue : o[3] \in Runs
      /\ \A o \in Line : o[3] = r => o = e
  BY <1>0, <1>1, RunsAssumption DEF Line, LineInv, LineFits, Types, Entries, QueueFits, EntriesUnique
<1>3. Line' = {o \in Line : o[3] # r}
  BY <1>0, <1>1, <1>2 DEF Line
<1>4. PlaceMap' = [PlaceMap EXCEPT ![r] = "current"]
  <2>1. ASSUME NEW s \in Runs, s # r
        PROVE  Place(s)' = Place(s)
    <3>1. /\ InLine(s, -1)' <=> InLine(s, -1)
          /\ InLine(s, 0)' <=> InLine(s, 0)
      BY <1>3, <2>1 DEF InLine
    <3> QED BY <1>0, <1>1, <1>2, <2>1, <3>1 DEF Place
  <2>2. Place(r)' = "current"
    BY <1>0, <1>1, <1>2 DEF Place
  <2> QED BY <2>1, <2>2 DEF PlaceMap
<1>5. RunLine!Waiting(PlaceMap') = W \ {r}
  <2>1. DOMAIN PlaceMap = Runs
    BY DEF PlaceMap
  <2>2. \A s \in Runs : PlaceMap'[s] \in {"front", "back"} <=> Waits(s) /\ s # r
    BY <1>4, <2>1 DEF PlacesRead
  <2> QED BY <2>2 DEF RunLine!Waiting
<1>6. AheadMap' = {p \in AheadMap : p[1] \in W \ {r} /\ p[2] \in W \ {r}}
  <2>1. Line' = {o \in Line : o[3] \in W \ {r}}
    BY <1>2, <1>3 DEF Waits, Line
  <2> QED BY <1>2, <2>1, OrderAmong
<1>7. StoppedMap' = StoppedMap /\ WorkingMap' = WorkingMap
  BY <1>0 DEF StoppedMap, WorkingMap
<1>8. \A w \in W \ {r} : <<r, w>> \in AheadMap
  <2> SUFFICES ASSUME NEW w \in W, w # r
               PROVE  Ahead(r, w)
    BY DEF AheadMap
  <2>1. PICK o \in Line : o[3] = w
    BY DEF Waits
  <2>2. o \in queue \ {e}
    BY <1>1, <2>1 DEF Line
  <2> QED BY <1>0, <1>1, <1>2, <2>1, <2>2 DEF First, Ahead
<1>9. /\ r \in W /\ RunLine!Waiting(PlaceMap) = W
      /\ \A w \in Runs : PlaceMap[w] # "current"
  BY <1>1, <1>2 DEF PlacesRead, Waits
<1> HIDE DEF W
<1>10. RunLine!Take(r)
  BY <1>4, <1>5, <1>6, <1>7, <1>8, <1>9
  DEF RunLine!Take, RunLine!Among, PlaceMap, AheadMap, StoppedMap, WorkingMap
<1> QED BY <1>10

(* The run the dispatcher has done with is over.                              *)
LEMMA CloseLeaves ==
    ASSUME Types, QueueFits, LineInv, PlacesRead, Close
    PROVE  \E r \in Runs : RunLine!Leave(r)
<1>0. /\ active \in Runs /\ active' = NoRun /\ NoRun \notin Runs
      /\ dispatcher # "working" /\ dispatcher' # "working"
      /\ UNCHANGED <<status, cancel, queue>>
  BY RunsAssumption DEF Close, Types, flagVars, queueVars
<1>1. PICK r \in Runs : r = active
  BY <1>0
<1>2. Line' = Line /\ ~Waits(r) /\ status[r] # "NONE"
  BY <1>0, <1>1 DEF Line, LineInv, ActiveLeft, Waits
<1>3. PlaceMap' = [PlaceMap EXCEPT ![r] = "over"]
  <2>1. ASSUME NEW s \in Runs, s # r
        PROVE  Place(s)' = Place(s)
    <3>1. /\ InLine(s, -1)' <=> InLine(s, -1)
          /\ InLine(s, 0)' <=> InLine(s, 0)
      BY <1>2 DEF InLine
    <3> QED BY <1>0, <1>1, <2>1, <3>1 DEF Place
  <2>2. Place(r)' = "over"
    <3>1. ~InLine(r, -1)' /\ ~InLine(r, 0)'
      BY <1>2 DEF InLine, Waits
    <3>2. active' # r /\ status'[r] # "NONE"
      BY <1>0, <1>2
    <3> QED BY <3>1, <3>2 DEF Place
  <2> QED BY <2>1, <2>2 DEF PlaceMap
<1>4. AheadMap' = AheadMap
  BY <1>2 DEF AheadMap, Ahead
<1>5. StoppedMap' = StoppedMap /\ ~WorkingMap /\ ~WorkingMap'
  BY <1>0 DEF StoppedMap, WorkingMap
<1>6. PlaceMap[r] = "current"
  BY <1>1 DEF PlacesRead
<1>7. RunLine!Leave(r)
  BY <1>3, <1>4, <1>5, <1>6 DEF RunLine!Leave, PlaceMap, AheadMap, StoppedMap, WorkingMap
<1> QED BY <1>7

(* Every other step of the dispatcher or of a call begins a step, ends one,   *)
(* or is not seen.                                                            *)
LEMMA OthersStutter ==
    ASSUME Types, LineInv, [Next]_vars, Line' = Line, UNCHANGED <<active, cancel>>,
           \A r \in Runs : status'[r] # "NONE" => status[r] # "NONE"
    PROVE  /\ PlaceMap' = PlaceMap /\ AheadMap' = AheadMap /\ StoppedMap' = StoppedMap
           /\ WorkingMap' = WorkingMap => UNCHANGED RunLine!vars
<1>1. \A r \in Runs : (status'[r] = "NONE") <=> (status[r] = "NONE")
  BY NeverUndone
<1>2. PlaceMap' = PlaceMap /\ AheadMap' = AheadMap
  BY <1>1, SamePlaces
<1>3. StoppedMap' = StoppedMap
  BY DEF StoppedMap
<1> QED BY <1>2, <1>3 DEF RunLine!vars, PlaceMap, AheadMap, StoppedMap, WorkingMap

LEMMA StepRefines ==
    ASSUME IInv, LineInv, PlacesRead, [Next]_vars
    PROVE  [RunLine!Next]_(RunLine!vars)
<1> USE DEF runVars, flagVars, queueVars, execVars
<1>0. /\ Types /\ QueueFits
      /\ status \in [Runs -> Statuses] /\ cancel \in [Runs -> BOOLEAN]
      /\ active \in Runs \cup {NoRun} /\ NoRun \notin Runs
      /\ (active = NoRun) <=> dispatcher \in {"none", "idle"}
      /\ active # NoRun => status[active] # "NONE"
  BY RunsAssumption DEF IInv, Types, LineInv, ActiveLeft
<1> DEFINE NoneStarted == \A r \in Runs : status'[r] # "NONE" => status[r] # "NONE"
<1>1. ASSUME NEW r \in Runs, NEW priority \in {-1, 0}, Start(r, priority)
      PROVE  RunLine!Next
  <2>1. RunLine!Enter(r, IF priority = -1 THEN "front" ELSE "back")
    BY <1>0, <1>1, StartEnters
  <2>2. RunLine!Enter(r, "front") \/ RunLine!Enter(r, "back")
    <3>1. CASE priority = -1
      BY <2>1, <3>1
    <3>2. CASE priority # -1
      BY <2>1, <3>2
    <3> QED BY <3>1, <3>2
  <2> QED BY <2>2 DEF RunLine!Next
<1>2. ASSUME NEW r \in Runs, CancelSet(r)
      PROVE  RunLine!Next
  <2>1. /\ {r} \in SUBSET registered /\ UNCHANGED <<status, queue, active, dispatcher>>
        /\ cancel' = [s \in Runs |-> cancel[s] \/ s \in {r}]
    BY <1>0, <1>2 DEF CancelSet, Calls
  <2>2. RunLine!Stop({r})
    BY <1>0, <2>1, FlagsStop
  <2> QED BY <2>2 DEF RunLine!Next
<1>3. CASE Shutdown
  <2>1. PICK S : S = registered
    OBVIOUS
  <2>2. /\ S \in SUBSET registered /\ UNCHANGED <<status, queue, active, dispatcher>>
        /\ cancel' = [s \in Runs |-> cancel[s] \/ s \in S]
        /\ S \in SUBSET Runs
    BY <1>0, <1>3, <2>1 DEF Shutdown, Types
  <2>3. RunLine!Stop(S)
    BY <1>0, <2>2, FlagsStop
  <2> QED BY <2>2, <2>3 DEF RunLine!Next
<1>4. CASE PopRun
  BY <1>0, <1>4, PopTakes DEF RunLine!Next
<1>5. CASE Close
  BY <1>0, <1>5, CloseLeaves DEF RunLine!Next
<1>6. ASSUME Line' = Line, UNCHANGED <<active, cancel>>, NoneStarted, WorkingMap' = WorkingMap
      PROVE  UNCHANGED RunLine!vars
  BY <1>0, <1>6, OthersStutter
<1>7. CASE Check
  <2>1. /\ Line' = Line /\ UNCHANGED <<active, cancel, status>> /\ dispatcher = "check"
        /\ IF cancel[active] THEN dispatcher' = "ending" ELSE dispatcher' = "working"
    BY <1>7 DEF Check, Line
  <2>2. CASE cancel[active]
    BY <1>6, <2>1, <2>2 DEF WorkingMap
  <2>3. CASE ~cancel[active]
    <3>1. PICK r \in Runs : r = active
      BY <1>0, <2>1
    <3>2. /\ PlaceMap[r] = "current" /\ r \notin StoppedMap /\ ~WorkingMap /\ WorkingMap' = TRUE
      BY <2>1, <2>3, <3>1 DEF PlacesRead, StoppedMap, WorkingMap
    <3>3. PlaceMap' = PlaceMap /\ AheadMap' = AheadMap /\ StoppedMap' = StoppedMap
      BY <1>0, <2>1, OthersStutter
    <3>4. RunLine!BeginStep(r)
      BY <3>2, <3>3 DEF RunLine!BeginStep, PlaceMap, AheadMap, StoppedMap, WorkingMap
    <3> QED BY <3>4 DEF RunLine!Next
  <2> QED BY <2>2, <2>3
<1>8. CASE StepSucceeds \/ StepRaises
  <2>1. /\ Line' = Line /\ UNCHANGED <<active, cancel, status>> /\ dispatcher = "working"
        /\ dispatcher' # "working"
    BY <1>8 DEF StepSucceeds, StepRaises, Line
  <2>2. WorkingMap /\ WorkingMap' = FALSE
    BY <2>1 DEF WorkingMap
  <2>3. PlaceMap' = PlaceMap /\ AheadMap' = AheadMap /\ StoppedMap' = StoppedMap
    BY <1>0, <2>1, OthersStutter
  <2>4. RunLine!EndStep
    BY <2>2, <2>3 DEF RunLine!EndStep, PlaceMap, AheadMap, StoppedMap, WorkingMap
  <2> QED BY <2>4 DEF RunLine!Next
<1>9. CASE PopSkip
  <2>1. PICK e \in queue : queue' = queue \ {e} /\ (e[3] \notin registered \/ cancel[e[3]])
    BY <1>9 DEF PopSkip
  <2>2. e \notin Line
    BY <2>1 DEF LineInv, LineFits, Line
  <2>3. UNCHANGED <<active, cancel, status, dispatcher>>
    BY <1>9 DEF PopSkip
  <2>4. Line' = Line
    BY <2>1, <2>2, <2>3 DEF Line
  <2> QED BY <1>6, <2>3, <2>4 DEF WorkingMap
<1>10. CASE \E r \in Runs : PauseSet(r) \/ ResumeClear(r) \/ CallReturns(r)
  <2>1. Line' = Line /\ UNCHANGED <<active, cancel, dispatcher>>
    BY <1>10 DEF PauseSet, ResumeClear, CallReturns, PauseWrite, ResumeWrite, CancelWrite, CancelRefresh, Line
  <2>2. NoneStarted
    <3>1. CASE \E r \in Runs : PauseSet(r) \/ ResumeClear(r) \/ CancelRefresh(r)
      BY <3>1 DEF PauseSet, ResumeClear, CancelRefresh
    <3>2. CASE \E r \in Runs : PauseWrite(r) \/ ResumeWrite(r)
      BY <1>0, <3>2 DEF PauseWrite, ResumeWrite
    <3>3. ASSUME NEW r \in Runs, CancelWrite(r)
          PROVE  NoneStarted
      <4>1. status[r] # "NONE"
        BY <3>3 DEF CancelWrite, LineInv, CancelsFlagged, StartedOnly
      <4> QED BY <1>0, <3>3, <4>1 DEF CancelWrite
    <3> QED BY <1>10, <3>1, <3>2, <3>3 DEF CallReturns
  <2> QED BY <1>6, <2>1, <2>2 DEF WorkingMap
<1>11. CASE WritePaused \/ End \/ \E n \in 0..MaxSteps : Begin(n)
  <2>1. /\ Line' = Line /\ UNCHANGED <<active, cancel>>
        /\ dispatcher # "working" /\ dispatcher' # "working"
        /\ \A r \in Runs \ {active} : status'[r] = status[r]
        /\ active # NoRun
    BY <1>0, <1>11 DEF WritePaused, End, Begin, Line
  <2> QED BY <1>0, <1>6, <2>1 DEF WorkingMap
<1>12. CASE Gate \/ LeaveHold \/ DispatcherExits \/ CompileRaises \/ UNCHANGED vars
  <2>1. Line' = Line /\ UNCHANGED <<active, cancel, status>>
        /\ (dispatcher' = "working" <=> dispatcher = "working")
    BY <1>12 DEF Gate, LeaveHold, DispatcherExits, CompileRaises, Line, vars
  <2> QED BY <1>6, <2>1 DEF WorkingMap
<1> QED BY <1>1, <1>2, <1>3, <1>4, <1>5, <1>7, <1>8, <1>9, <1>10, <1>11, <1>12 DEF Next, Dispatch

LEMMA InitRefines == Init => RunLine!Init
<1> SUFFICES ASSUME Init PROVE RunLine!Init
  OBVIOUS
<1>1. \A r \in Runs : Place(r) = "out"
  BY DEF Init, Place
<1>2. \A r, s : ~Ahead(r, s)
  BY DEF Init, Ahead, Line
<1> QED BY <1>1, <1>2 DEF Init, RunLine!Init

(* The heap under its lock, the flags and statuses under others and the       *)
(* dispatcher thread implement the abstract queue: each run is taken at most  *)
(* once, the first of the line, one at a time, and none after its Stop        *)
(* (RunManager.start, cancel, shutdown, _dispatch_loop).                      *)
THEOREM Refinement == Spec => ImplementsRunQueue
<1>1. IInv /\ LineInv => PlacesRead
  BY PlacesAre DEF IInv
<1>2. IInv /\ LineInv /\ [Next]_vars => [RunLine!Next]_(RunLine!vars)
  BY <1>1, StepRefines
<1> QED BY <1>2, InitRefines, Inductive, LineHolds, PTL DEF Spec, ImplementsRunQueue, RunLine!Spec

-----------------------------------------------------------------------------
(* The types and bounds that the arguments above do not need: a sequence      *)
(* number and a position are at most the number of runs, because each run is  *)
(* started once.                                                              *)

Started == {r \in Runs : status[r] # "NONE"}
CallPlaces == {"none", "pausing", "resuming", "cancelling", "refreshing"}
Walking == {"gate", "pausing", "held", "check", "working"}

CountInv ==
    /\ sequence = Cardinality(Started)
    /\ \A e \in queue : e[2] >= 1
    /\ \A r \in Runs : position[r] <= Cardinality(Runs)
BoundsInv ==
    /\ shutdown \in BOOLEAN /\ calls \in 0..MaxCalls /\ call \in [Runs -> CallPlaces]
    /\ steps \in 0..MaxSteps /\ (dispatcher \in Walking => steps > 0)

LEMMA RunsCounted == Cardinality(Runs) \in Nat
  BY RunsAssumption, FS_CardinalityType

(* A rank is one of as many as there are runs, for each has one entry.        *)
LEMMA RankBounded ==
    ASSUME NEW q, q \subseteq Entries, EntriesUnique(q), NEW reg, NEW can, NEW st,
           Refresh(q, reg, can, st), \A r \in Runs : position[r] <= Cardinality(Runs)
    PROVE  \A r \in Runs : position'[r] <= Cardinality(Runs)
<1> DEFINE P == Pending(q, reg, can, st)
           UpTo(r) == {o \in P : \E e \in P : e[3] = r /\ ~Before(e, o)}
<1>1. position' = [r \in Runs |->
          IF r \in reg /\ st[r] = "QUEUED" THEN Cardinality(UpTo(r)) ELSE position[r]]
  BY DEF Refresh
<1>2. ASSUME NEW r \in Runs
      PROVE  Cardinality(UpTo(r)) <= Cardinality(Runs)
  <2> DEFINE A == UpTo(r)
             run == [e \in A |-> e[3]]
  <2>1. A \subseteq q
    BY DEF Pending
  <2>2. \A e \in A : e[3] \in Runs
    BY <2>1 DEF Entries
  <2>3. \A a, b \in A : a[3] = b[3] => a = b
    BY <2>1 DEF EntriesUnique
  <2> HIDE DEF A
  <2>4. run \in Injection(A, Runs)
    BY <2>2, <2>3 DEF Injection, IsInjective
  <2>5. Cardinality(A) <= Cardinality(Runs)
    BY <2>4, RunsAssumption, FS_Injection
  <2> QED BY <2>5 DEF A
<1> HIDE DEF UpTo
<1> QED BY <1>1, <1>2

(* Positions change by a refresh only.                                        *)
LEMMA PositionsMove ==
    ASSUME [Next]_vars
    PROVE  position' = position \/ Refresh(queue', registered', cancel', status')
<1> USE DEF runVars, flagVars, queueVars, execVars
<1>1. CASE \E r \in Runs : CallReturns(r)
  BY <1>1 DEF CallReturns, PauseWrite, ResumeWrite, RefreshOnGet, CancelWrite, CancelRefresh
<1>2. CASE Dispatch
  BY <1>2 DEF Dispatch, PopSkip, PopRun, DispatcherExits, CompileRaises, Begin, Gate, WritePaused,
         LeaveHold, Check, StepSucceeds, StepRaises, End, Close
<1>3. CASE Shutdown \/ \E r \in Runs : FlagCall(r)
  BY <1>3 DEF Shutdown, FlagCall, PauseSet, ResumeClear, CancelSet
<1>4. CASE \E r \in Runs, priority \in {-1, 0} : Start(r, priority)
  BY <1>4 DEF Start
<1> QED BY <1>1, <1>2, <1>3, <1>4 DEF Next, FlagCall, vars

(* Only start() makes a run one that was started.                             *)
LEMMA StartsOnce ==
    ASSUME Types, LineInv, [Next]_vars,
           ~\E r \in Runs, priority \in {-1, 0} : Start(r, priority)
    PROVE  Started' = Started /\ sequence' = sequence /\ queue' \subseteq queue
<1> USE DEF runVars, flagVars, queueVars, execVars
<1>0. /\ status \in [Runs -> Statuses] /\ active \in Runs \cup {NoRun}
      /\ (active = NoRun) <=> dispatcher \in {"none", "idle"}
  BY DEF Types
<1>1. sequence' = sequence /\ queue' \subseteq queue
  <2>1. CASE Dispatch
    BY <2>1 DEF Dispatch, PopSkip, PopRun, DispatcherExits, CompileRaises, Begin, Gate, WritePaused,
           LeaveHold, Check, StepSucceeds, StepRaises, End, Close
  <2>2. CASE Shutdown \/ \E r \in Runs : FlagCall(r) \/ CallReturns(r)
    BY <2>2 DEF Shutdown, FlagCall, PauseSet, ResumeClear, CancelSet, CallReturns, PauseWrite,
           ResumeWrite, CancelWrite, CancelRefresh
  <2> QED BY <2>1, <2>2 DEF Next, FlagCall, vars
<1>2. \A r \in Runs : status[r] = "NONE" => status'[r] = "NONE"
  <2>1. CASE WritePaused \/ End \/ \E n \in 0..MaxSteps : Begin(n)
    <3>1. active \in Runs /\ status[active] # "NONE"
      BY <1>0, <2>1 DEF WritePaused, End, Begin, LineInv, ActiveLeft
    <3> QED BY <1>0, <2>1, <3>1 DEF WritePaused, End, Begin
  <2>2. CASE \E r \in Runs : CallReturns(r)
    <3>1. PICK r \in Runs : CallReturns(r)
      BY <2>2
    <3>2. call[r] = "cancelling" => status[r] # "NONE"
      BY DEF LineInv, CancelsFlagged, StartedOnly
    <3> QED BY <1>0, <3>1, <3>2 DEF CallReturns, PauseWrite, ResumeWrite, CancelWrite, CancelRefresh
  <2>3. CASE status' = status
    BY <2>3
  <2>4. Moves \/ Check \/ StepSucceeds \/ StepRaises \/ PopSkip \/ PopRun \/ Close \/ Shutdown
            \/ (\E r \in Runs : FlagCall(r)) \/ UNCHANGED vars => status' = status
    BY DEF Moves, Gate, LeaveHold, DispatcherExits, CompileRaises, Check, StepSucceeds, StepRaises,
           PopSkip, PopRun, Close, Shutdown, FlagCall, PauseSet, ResumeClear, CancelSet, vars
  <2> QED BY <2>1, <2>2, <2>3, <2>4 DEF Next, Dispatch, Moves, FlagCall
<1> QED BY <1>1, <1>2, NeverUndone DEF Started

LEMMA CountStep ==
    ASSUME Types, QueueFits, LineInv, CountInv, [Next]_vars
    PROVE  CountInv'
<1>1. \A r \in Runs : position'[r] <= Cardinality(Runs)
  <2>1. queue' \subseteq Entries /\ EntriesUnique(queue')
    BY TypesStep, QueueStep DEF OtherTypes, QueueFits
  <2> QED BY <2>1, PositionsMove, RankBounded DEF CountInv
<1>2. sequence' = Cardinality(Started') /\ \A e \in queue' : e[2] >= 1
  <2>1. ASSUME NEW r \in Runs, NEW priority \in {-1, 0}, Start(r, priority)
        PROVE  sequence' = Cardinality(Started') /\ \A e \in queue' : e[2] >= 1
    <3>1. /\ sequence' = sequence + 1 /\ queue' = queue \cup {<<priority, sequence + 1, r>>}
          /\ status' = [status EXCEPT ![r] = "QUEUED"] /\ status[r] = "NONE"
      BY <2>1 DEF Start
    <3>2. Started' = Started \cup {r} /\ r \notin Started /\ IsFiniteSet(Started)
      BY <3>1, RunsAssumption, FS_Subset DEF Started, Types
    <3>3. Cardinality(Started') = Cardinality(Started) + 1
      BY <3>2, FS_AddElement
    <3> QED BY <3>1, <3>3 DEF CountInv, Types
  <2>2. CASE ~\E r \in Runs, priority \in {-1, 0} : Start(r, priority)
    BY <2>2, StartsOnce DEF CountInv
  <2> QED BY <2>1, <2>2
<1> QED BY <1>1, <1>2 DEF CountInv

LEMMA BoundsStep ==
    ASSUME Types, BoundsInv, [Next]_vars
    PROVE  BoundsInv'
<1> USE StepsAssumption, CallsAssumption DEF runVars, flagVars, queueVars, execVars
<1>1. ASSUME NEW r \in Runs, FlagCall(r)
      PROVE  BoundsInv'
  <2>1. calls' \in 0..MaxCalls
    BY <1>1 DEF FlagCall, PauseSet, ResumeClear, CancelSet, Calls, BoundsInv
  <2>2. call' \in [Runs -> CallPlaces]
    BY <1>1 DEF FlagCall, PauseSet, ResumeClear, CancelSet, BoundsInv, CallPlaces
  <2>3. UNCHANGED <<shutdown, steps, dispatcher>>
    BY <1>1 DEF FlagCall, PauseSet, ResumeClear, CancelSet
  <2> QED BY <2>1, <2>2, <2>3 DEF BoundsInv
<1>2. ASSUME NEW r \in Runs, CallReturns(r)
      PROVE  BoundsInv'
  <2>1. call' \in [Runs -> CallPlaces]
    BY <1>2 DEF CallReturns, PauseWrite, ResumeWrite, CancelWrite, CancelRefresh, BoundsInv, CallPlaces
  <2>2. UNCHANGED <<shutdown, calls, steps, dispatcher>>
    BY <1>2 DEF CallReturns, PauseWrite, ResumeWrite, CancelWrite, CancelRefresh
  <2> QED BY <2>1, <2>2 DEF BoundsInv
<1>3. CASE Shutdown \/ (\E r \in Runs, priority \in {-1, 0} : Start(r, priority)) \/ UNCHANGED vars
  <2>1. UNCHANGED <<calls, call, steps>> /\ shutdown' \in BOOLEAN
        /\ (dispatcher' = dispatcher \/ dispatcher' = "idle")
    BY <1>3 DEF Shutdown, Start, vars, BoundsInv
  <2> QED BY <2>1 DEF BoundsInv, Walking
<1>4. ASSUME Dispatch, steps' \in 0..MaxSteps, dispatcher' \in Walking => steps' > 0
      PROVE  BoundsInv'
  <2>1. UNCHANGED <<calls, call, shutdown>>
    BY <1>4 DEF Dispatch, PopSkip, PopRun, DispatcherExits, CompileRaises, Begin, Gate, WritePaused,
           LeaveHold, Check, StepSucceeds, StepRaises, End, Close
  <2> QED BY <1>4, <2>1 DEF BoundsInv
<1>5. CASE \E n \in 0..MaxSteps : Begin(n)
  <2>1. steps' \in 0..MaxSteps /\ (dispatcher' \in Walking => steps' > 0)
    BY <1>5 DEF Begin, Walking
  <2> QED BY <1>4, <1>5, <2>1 DEF Dispatch
<1>6. CASE StepSucceeds
  <2>1. steps \in 0..MaxSteps /\ steps > 0 /\ steps' = steps - 1
    BY <1>6 DEF StepSucceeds, BoundsInv, Walking
  <2>2. steps' = 0 => dispatcher' \notin Walking
    BY <1>6 DEF StepSucceeds, Walking
  <2>3. steps' \in 0..MaxSteps /\ (dispatcher' \in Walking => steps' > 0)
    BY <2>1, <2>2
  <2> QED BY <1>4, <1>6, <2>3 DEF Dispatch
<1>7. CASE Gate \/ WritePaused \/ LeaveHold \/ Check \/ StepRaises
  <2>1. steps' = steps /\ dispatcher \in Walking
    BY <1>7 DEF Gate, WritePaused, LeaveHold, Check, StepRaises, Walking
  <2> QED BY <1>4, <1>7, <2>1 DEF Dispatch, BoundsInv
<1>8. CASE PopSkip \/ PopRun \/ DispatcherExits \/ CompileRaises \/ End \/ Close
  <2>1. (steps' = steps \/ steps' = 0) /\ dispatcher' \notin Walking
    BY <1>8 DEF PopSkip, PopRun, DispatcherExits, CompileRaises, End, Close, Walking
  <2>2. steps' \in 0..MaxSteps
    BY <2>1 DEF BoundsInv
  <2> QED BY <1>4, <1>8, <2>1, <2>2 DEF Dispatch
<1> QED BY <1>1, <1>2, <1>3, <1>5, <1>6, <1>7, <1>8 DEF Next, Dispatch, FlagCall

(* Every variable of the manager has its type, for any number of runs and     *)
(* calls.  A queue position is at most the number of runs, and no sequence    *)
(* number of the heap is given twice or exceeds the number of starts.         *)
THEOREM TypeCorrect == Spec => []TypeOK
<1>1. Init => CountInv /\ BoundsInv
  <2> SUFFICES ASSUME Init PROVE CountInv /\ BoundsInv
    OBVIOUS
  <2>1. Started = {}
    BY DEF Init, Started
  <2>2. CountInv
    BY <2>1, FS_EmptySet, RunsCounted DEF Init, CountInv
  <2>3. BoundsInv
    <3>1. 0 \in 0..MaxSteps /\ 0 \in 0..MaxCalls
      BY StepsAssumption, CallsAssumption
    <3> QED BY <3>1 DEF Init, BoundsInv, CallPlaces, Walking
  <2> QED BY <2>2, <2>3
<1>2. Init => StampsInv
  BY DEF Init, StampsInv, Terminal
<1>3. IInv /\ LineInv /\ StampsInv /\ CountInv /\ BoundsInv /\ [Next]_vars
          => StampsInv' /\ CountInv' /\ BoundsInv'
  BY StampsStep, CountStep, BoundsStep DEF IInv
<1>4. IInv /\ StampsInv /\ CountInv /\ BoundsInv => TypeOK
  <2> SUFFICES ASSUME Types, QueueFits, StampsInv, CountInv, BoundsInv
               PROVE  TypeOK
    BY DEF IInv
  <2>1. sequence \in 0..Cardinality(Runs)
    <3>1. Started \subseteq Runs
      BY DEF Started
    <3>2. Cardinality(Started) <= Cardinality(Runs)
      BY <3>1, RunsAssumption, FS_Subset
    <3> QED BY <3>2, RunsCounted DEF CountInv, Types
  <2>2. queue \subseteq {-1, 0} \X (1..Cardinality(Runs)) \X Runs
    <3>1. ASSUME NEW e \in queue
          PROVE  e \in {-1, 0} \X (1..Cardinality(Runs)) \X Runs
      <4>1. e \in Entries /\ e[2] >= 1 /\ e[2] <= sequence
        BY DEF Types, QueueFits, CountInv
      <4>2. e[2] \in 1..Cardinality(Runs)
        BY <2>1, <4>1, RunsCounted DEF Entries
      <4> QED BY <4>1, <4>2 DEF Entries
    <3> QED BY <3>1
  <2>3. position \in [Runs -> 0..Cardinality(Runs)] /\ completedAt \in [Runs -> 0..clock]
    BY RunsCounted DEF Types, CountInv, StampsInv
  <2> QED BY <2>1, <2>2, <2>3 DEF TypeOK, Types, StampsInv, BoundsInv, CallPlaces
<1> QED BY <1>1, <1>2, <1>3, <1>4, Inductive, LineHolds, PTL DEF Spec
=============================================================================
