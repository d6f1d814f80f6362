----------------------------- MODULE InferClient -----------------------------
(* tools/inference/client.py, class InferClient, and the control loop of its  *)
(* worker process (tools/inference/worker.py).  One client: the callers'      *)
(* threads, the reader thread, the watchdog thread, the worker process and    *)
(* the two queues each worker is born with.  A region under _state_lock is    *)
(* one action.  Job ids are the jobs themselves.  Left out: the pending slot  *)
(* (no caller passes coalesce=True), progress, log and preview events.        *)
EXTENDS Integers, Sequences, FiniteSets, SequencesExt

CONSTANTS
    Jobs,           \* calls of start_job, each made at most once
    Types,          \* job types
    HardTypes,      \* HARD_CANCEL_TYPES
    NumWorkers,     \* bound: worker names; a dead one's is used again
    Mishaps,        \* what may go wrong, each at most once: see Kinds
    MaxMishaps,     \* bound: how many of them in a behaviour
    NoJob

ASSUME JobsAssumption == IsFiniteSet(Jobs) /\ NoJob \notin Jobs
ASSUME TypesAssumption == HardTypes \subseteq Types
ASSUME WorkersAssumption == NumWorkers \in Nat \ {0}

(* crash: a worker dies by itself.  freeze: it stops answering.  toggle: the  *)
(* hardware acceleration setting changes.  release: request_release kills an  *)
(* idle worker.  expiry: the 5 s for the startup handshake run out.  quiet: a *)
(* healthy worker is silent for job_watchdog_seconds, which only a setting    *)
(* below the 15 s of the first ping allows.                                   *)
Kinds == {"crash", "freeze", "toggle", "release", "expiry", "quiet"}
ASSUME MishapsAssumption == Mishaps \subseteq Kinds /\ MaxMishaps \in Nat

Workers == 1..NumWorkers
NoWorker == 0

VARIABLES
    active,         \* _active
    wait,           \* _wait_queue
    process,        \* _process
    queues,         \* the worker whose _cmd_queue and _evt_queue the client has
    ready,          \* _ready_event
    hw, hwAccel,    \* the setting, and _hw_accel
    stopping, shutdownDone,
    readerUp,       \* is the reader thread alive?
    reading,        \* the worker whose event queue the reader blocks on
    fetched,        \* what it got from the queue and has not dispatched yet
    watchUp,        \* is the watchdog thread alive?
    life,           \* of a worker: up, frozen, dead
    inbox, outbox,  \* its command and event queues
    running,        \* its active_run_id
    flag,           \* its cancel_event
    ending,         \* the terminal event it holds back until it is idle again
    pc,             \* where a caller is in start_job
    jobType,        \* the job_type it asks for, once it called
    accepted,       \* jobs that got an id, in order
    answers,        \* the terminal callbacks each job received
    asked,          \* jobs somebody called cancel() on
    completed,      \* jobs whose work a worker finished
    happened        \* the mishaps so far

jobVars == <<active, wait, answers>>
procVars == <<process, queues, ready, hwAccel, stopping>>
readerVars == <<readerUp, reading, fetched>>
workVars == <<inbox, outbox, running, flag, ending, completed>>
callVars == <<pc, jobType, accepted, asked>>
envVars == <<hw, happened>>
vars == <<jobVars, procVars, shutdownDone, readerVars, watchUp, life, workVars, callVars, envVars>>

NoEvent == <<"none", NoJob>>

Init ==
    /\ active = NoJob /\ wait = <<>>
    /\ process = NoWorker /\ queues = NoWorker /\ ready = FALSE
    /\ hw = TRUE /\ hwAccel = TRUE
    /\ stopping = FALSE /\ shutdownDone = FALSE
    /\ readerUp = FALSE /\ reading = NoWorker /\ fetched = NoEvent
    /\ watchUp = FALSE
    /\ life = [w \in Workers |-> "dead"]
    /\ inbox = [w \in Workers |-> <<>>] /\ outbox = [w \in Workers |-> <<>>]
    /\ running = [w \in Workers |-> NoJob] /\ flag = [w \in Workers |-> FALSE]
    /\ ending = [w \in Workers |-> NoEvent]
    /\ pc = [j \in Jobs |-> "new"] /\ jobType = [j \in Jobs |-> "none"] /\ accepted = <<>>
    /\ answers = [j \in Jobs |-> <<>>]
    /\ asked = {} /\ completed = {}
    /\ happened = {}

Mishap(kind) ==
    /\ kind \in Mishaps \ happened
    /\ Cardinality(happened) < MaxMishaps
    /\ happened' = happened \cup {kind}

-----------------------------------------------------------------------------
(* The worker process, as the client sees and replaces it *)

IsAlive(w) == w # NoWorker /\ life[w] # "dead"
Responds(w) == w # NoWorker /\ life[w] = "up"
Alive == {w \in Workers : life[w] # "dead"}

(* ensure_started is content with the worker it has.                          *)
Satisfied == IsAlive(process) /\ hwAccel = hw

(* Names no variable refers to; a new worker takes the least.                 *)
Spare == {w \in Workers : life[w] = "dead"} \ {process, queues, reading}
Fresh == CHOOSE w \in Spare : \A v \in Spare : w <= v

Kept(f, w, default) == IF w = NoWorker THEN f ELSE [f EXCEPT ![w] = default]

(* What a process that ends leaves behind: its event queue can still be read. *)
Dies(w) ==
    /\ life' = Kept(life, w, "dead")
    /\ inbox' = Kept(inbox, w, <<>>)
    /\ running' = Kept(running, w, NoJob)
    /\ flag' = Kept(flag, w, FALSE)
    /\ ending' = Kept(ending, w, NoEvent)
    /\ UNCHANGED <<outbox, completed>>

(* _kill_worker_unlocked: shutdown, join, terminate; under _state_lock.       *)
Kill ==
    /\ Dies(process)
    /\ process' = NoWorker
    /\ ready' = FALSE
    /\ UNCHANGED <<queues, hwAccel, stopping>>

(* Seeded bug: the old worker is not killed.                                  *)
Respawn_KeepsOld(first, held) ==
    LET w == Fresh IN
    /\ Spare # {}
    /\ life' = [life EXCEPT ![w] = "up"]
    /\ inbox' = [inbox EXCEPT ![w] = first]
    /\ outbox' = [outbox EXCEPT ![w] = <<>>]
    /\ UNCHANGED <<running, flag, ending>>
    /\ process' = (IF held THEN w ELSE NoWorker)
    /\ queues' = w /\ ready' = FALSE
    /\ hwAccel' = hw /\ stopping' = FALSE
    /\ readerUp' = TRUE /\ watchUp' = TRUE
    /\ UNCHANGED completed

(* _kill_worker_unlocked then _spawn_unlocked: a worker with its own queues,  *)
(* the first command already in, and the two threads if they had ended.       *)
(* held: does _process still name it at the end of the region?                *)
Respawn(first, held) ==
    LET w == Fresh IN
    /\ Spare # {}
    /\ life' = [Kept(life, process, "dead") EXCEPT ![w] = "up"]
    /\ inbox' = [Kept(inbox, process, <<>>) EXCEPT ![w] = first]
    /\ outbox' = [outbox EXCEPT ![w] = <<>>]
    /\ running' = Kept(running, process, NoJob)
    /\ flag' = Kept(flag, process, FALSE)
    /\ ending' = Kept(ending, process, NoEvent)
    /\ process' = (IF held THEN w ELSE NoWorker)
    /\ queues' = w /\ ready' = FALSE
    /\ hwAccel' = hw /\ stopping' = FALSE
    /\ readerUp' = TRUE /\ watchUp' = TRUE
    /\ UNCHANGED completed

(* _cmd_queue.put; nobody reads the queue of a dead worker any more.          *)
Put(command) == inbox' = IF IsAlive(queues) THEN [inbox EXCEPT ![queues] = Append(@, command)]
                                            ELSE inbox

Answer(j, kind) == answers' = [answers EXCEPT ![j] = Append(@, kind)]

-----------------------------------------------------------------------------
(* start_job: ensure_started, its wait without the lock, then the submission *)

EnsureStarted(j) ==
    /\ pc[j] = "new"
    /\ \E type \in Types : jobType' = [jobType EXCEPT ![j] = type]
    /\ \/ /\ Satisfied
          /\ pc' = [pc EXCEPT ![j] = "submitting"]
          /\ UNCHANGED <<procVars, readerVars, watchUp, life, workVars>>
       \/ /\ ~Satisfied
          /\ Respawn(<<>>, TRUE)
          /\ pc' = [pc EXCEPT ![j] = "starting"]
          /\ UNCHANGED <<reading, fetched>>
    /\ UNCHANGED <<jobVars, shutdownDone, accepted, asked, envVars>>

StartupReady(j) ==
    /\ pc[j] = "starting" /\ ready
    /\ pc' = [pc EXCEPT ![j] = "submitting"]
    /\ UNCHANGED <<jobVars, procVars, shutdownDone, readerVars, watchUp, life, workVars,
                   jobType, accepted, asked, envVars>>

StartupExpires(j) ==
    /\ pc[j] = "starting" /\ ~ready
    /\ Mishap("expiry")
    /\ pc' = [pc EXCEPT ![j] = "expired"]
    /\ UNCHANGED <<jobVars, procVars, shutdownDone, readerVars, watchUp, life, workVars,
                   jobType, accepted, asked, hw>>

(* ... and kills whatever process there is by now.                            *)
StartupKills(j) ==
    /\ pc[j] = "expired"
    /\ Kill
    /\ pc' = [pc EXCEPT ![j] = "refused"]
    /\ UNCHANGED <<jobVars, shutdownDone, readerVars, watchUp, jobType, accepted, asked, envVars>>

(* Seeded bug: any tool queues.                                               *)
Submit_AnyTool(j) ==
    /\ pc[j] = "submitting"
    /\ \/ /\ active = NoJob
          /\ active' = j /\ Put(<<"start", j>>)
          /\ UNCHANGED wait
       \/ /\ active # NoJob
          /\ wait' = Append(wait, j)
          /\ UNCHANGED <<active, inbox>>
    /\ pc' = [pc EXCEPT ![j] = "accepted"] /\ accepted' = Append(accepted, j)
    /\ UNCHANGED <<answers, procVars, shutdownDone, readerVars, watchUp, life, outbox, running,
                   flag, ending, completed, jobType, asked, envVars>>

(* Under the lock: active at once, behind a job of its type, or BUSY.         *)
Submit(j) ==
    /\ pc[j] = "submitting"
    /\ \/ /\ active = NoJob
          /\ active' = j /\ Put(<<"start", j>>)
          /\ UNCHANGED wait
          /\ pc' = [pc EXCEPT ![j] = "accepted"] /\ accepted' = Append(accepted, j)
       \/ /\ active # NoJob /\ jobType[active] = jobType[j]
          /\ wait' = Append(wait, j)
          /\ UNCHANGED <<active, inbox>>
          /\ pc' = [pc EXCEPT ![j] = "accepted"] /\ accepted' = Append(accepted, j)
       \/ /\ active # NoJob /\ jobType[active] # jobType[j]
          /\ pc' = [pc EXCEPT ![j] = "refused"]
          /\ UNCHANGED <<active, wait, inbox, accepted>>
    /\ UNCHANGED <<answers, procVars, shutdownDone, readerVars, watchUp, life, outbox, running,
                   flag, ending, completed, jobType, asked, envVars>>

-----------------------------------------------------------------------------
(* The end of the active job *)

(* _flush_pending_unlocked: who is active next, and the command that starts   *)
(* it.                                                                        *)
NextActive == IF wait = <<>> THEN NoJob ELSE Head(wait)
NextWait == IF wait = <<>> THEN <<>> ELSE Tail(wait)
StartNext == IF wait = <<>> THEN <<>> ELSE <<<<"start", Head(wait)>>>>

(* Seeded bug: the queue is not flushed.                                      *)
FailActive_NoFlush(kind, held) ==
    /\ Respawn(<<>>, held)
    /\ active' = NoJob /\ UNCHANGED wait
    /\ Answer(active, kind)

(* The active job fails with its worker, which is replaced; the next job is   *)
(* the first command of the new one.                                          *)
FailActive(kind, held) ==
    /\ Respawn(StartNext, held)
    /\ active' = NextActive /\ wait' = NextWait
    /\ Answer(active, kind)

(* cancel(): a job that waits is dropped, the active one is stopped with its  *)
(* worker or asked to stop, any other id does nothing.                        *)
Cancel(j) ==
    /\ pc[j] = "accepted" /\ j \notin asked
    /\ asked' = asked \cup {j}
    /\ \/ /\ \E i \in DOMAIN wait : wait[i] = j /\ wait' = RemoveAt(wait, i)
          /\ Answer(j, "cancelled")
          /\ UNCHANGED <<active, procVars, readerVars, watchUp, life, workVars>>
       \/ /\ active = j /\ jobType[j] \in HardTypes
          /\ FailActive("cancelled", TRUE)
          /\ UNCHANGED <<reading, fetched>>
       \/ /\ active = j /\ jobType[j] \notin HardTypes
          /\ Put(<<"cancel", j>>)
          /\ UNCHANGED <<jobVars, procVars, readerVars, watchUp, life, outbox, running, flag,
                         ending, completed>>
       \/ /\ active # j /\ ~Contains(wait, j)
          /\ UNCHANGED <<jobVars, procVars, readerVars, watchUp, life, workVars>>
    /\ UNCHANGED <<shutdownDone, pc, jobType, accepted, envVars>>

(* Seeded bug: the watchdog looks whether the process is alive.               *)
WatchdogTimeout_DeadOnly ==
    /\ watchUp /\ ~stopping
    /\ active # NoJob
    /\ ~IsAlive(queues)
    /\ FailActive("timeout", TRUE)
    /\ UNCHANGED <<shutdownDone, reading, fetched, callVars, envVars>>

(* The watchdog heard nothing for job_watchdog_seconds.  A worker that is up  *)
(* answers the pings, unless the limit is shorter than the first of them.     *)
WatchdogTimeout ==
    /\ watchUp /\ ~stopping
    /\ active # NoJob
    /\ IF Responds(queues) THEN Mishap("quiet") ELSE UNCHANGED happened
    /\ FailActive("timeout", TRUE)
    /\ UNCHANGED <<shutdownDone, reading, fetched, callVars, hw>>

WatchdogExits ==
    /\ watchUp /\ stopping
    /\ watchUp' = FALSE
    /\ UNCHANGED <<jobVars, procVars, shutdownDone, readerVars, life, workVars, callVars, envVars>>

-----------------------------------------------------------------------------
(* The reader thread *)

Fetch ==
    /\ readerUp /\ fetched = NoEvent
    /\ reading # NoWorker /\ outbox[reading] # <<>>
    /\ fetched' = Head(outbox[reading])
    /\ outbox' = [outbox EXCEPT ![reading] = Tail(@)]
    /\ UNCHANGED <<jobVars, procVars, shutdownDone, readerUp, reading, watchUp, life, inbox,
                   running, flag, ending, completed, callVars, envVars>>

(* Seeded bug: the id of the event is not compared.                           *)
DispatchAnswer_AnyId ==
    /\ fetched # NoEvent /\ active # NoJob
    /\ wait = <<>> \/ Satisfied
    /\ Answer(active, fetched[1])
    /\ active' = NextActive /\ wait' = NextWait
    /\ inbox' = IF IsAlive(queues) THEN [inbox EXCEPT ![queues] = @ \o StartNext] ELSE inbox
    /\ fetched' = NoEvent /\ reading' = queues
    /\ UNCHANGED <<procVars, shutdownDone, readerUp, watchUp, life, outbox, running, flag, ending,
                   completed, callVars, envVars>>

(* The terminal event of the active job: answered, and the next one started   *)
(* if the worker is as it should be.                                          *)
DispatchAnswer ==
    /\ fetched # NoEvent /\ fetched[2] = active
    /\ wait = <<>> \/ Satisfied
    /\ Answer(active, fetched[1])
    /\ active' = NextActive /\ wait' = NextWait
    /\ inbox' = IF IsAlive(queues) THEN [inbox EXCEPT ![queues] = @ \o StartNext] ELSE inbox
    /\ fetched' = NoEvent /\ reading' = queues
    /\ UNCHANGED <<procVars, shutdownDone, readerUp, watchUp, life, outbox, running, flag, ending,
                   completed, callVars, envVars>>

(* Otherwise ensure_started, called on the reader thread, spawns a worker and *)
(* waits 5 s for a handshake only this thread could read, kills the worker    *)
(* and raises: the thread ends and the job it had taken from the queue is     *)
(* gone.                                                                      *)
DispatchStrands ==
    /\ fetched # NoEvent /\ fetched[2] = active
    /\ wait # <<>> /\ ~Satisfied
    /\ Answer(active, fetched[1])
    /\ active' = NoJob /\ wait' = Tail(wait)
    /\ Dies(process)
    /\ process' = NoWorker /\ queues' = NoWorker /\ ready' = FALSE
    /\ hwAccel' = hw /\ stopping' = FALSE /\ watchUp' = TRUE
    /\ readerUp' = FALSE /\ fetched' = NoEvent /\ reading' = NoWorker
    /\ UNCHANGED <<shutdownDone, callVars, envVars>>

DispatchStale ==
    /\ fetched # NoEvent /\ fetched[2] # active
    /\ fetched' = NoEvent /\ reading' = queues
    /\ UNCHANGED <<jobVars, procVars, shutdownDone, readerUp, watchUp, life, workVars, callVars, envVars>>

QueueSilent == readerUp /\ fetched = NoEvent /\ (reading # NoWorker => outbox[reading] = <<>>)

(* get() timed out: a dead worker under an active job is replaced, and then   *)
(* the replacement is forgotten.                                              *)
ReaderFindsCrash ==
    /\ QueueSilent
    /\ process # NoWorker /\ life[process] = "dead" /\ active # NoJob
    /\ FailActive("crash", FALSE)
    /\ reading' = queues'
    /\ UNCHANGED <<shutdownDone, fetched, callVars, envVars>>

ReaderLoops ==
    /\ QueueSilent
    /\ ~(process # NoWorker /\ life[process] = "dead" /\ active # NoJob)
    /\ IF stopping THEN readerUp' = FALSE /\ UNCHANGED reading
                   ELSE reading' = queues /\ UNCHANGED readerUp
    /\ UNCHANGED <<jobVars, procVars, shutdownDone, fetched, watchUp, life, workVars, callVars, envVars>>

(* The answer to the ping every worker is born with.                          *)
Handshake ==
    /\ QueueSilent
    /\ reading = process /\ Responds(process)
    /\ ready' = TRUE
    /\ UNCHANGED <<jobVars, process, queues, hwAccel, stopping, shutdownDone, readerVars, watchUp,
                   life, workVars, callVars, envVars>>

-----------------------------------------------------------------------------
(* Calls from elsewhere *)

(* request_release: an idle worker is killed.                                 *)
Release ==
    /\ active = NoJob /\ wait = <<>> /\ IsAlive(process)
    /\ Mishap("release")
    /\ Kill
    /\ UNCHANGED <<jobVars, shutdownDone, readerVars, watchUp, callVars, hw>>

(* Seeded bug: the answered job stays active.                                 *)
Shutdown_KeepsActive ==
    /\ ~shutdownDone
    /\ shutdownDone' = TRUE /\ stopping' = TRUE
    /\ answers' = [j \in Jobs |-> IF j = active \/ Contains(wait, j)
                                  THEN Append(answers[j], "cancelled") ELSE answers[j]]
    /\ wait' = <<>> /\ UNCHANGED active
    /\ Dies(process)
    /\ process' = NoWorker /\ ready' = FALSE
    /\ UNCHANGED <<queues, hwAccel, readerVars, watchUp, callVars, envVars>>

(* shutdown(): everything is answered and the worker killed; a worker whose   *)
(* queue the client has but not its process is only told to end.              *)
Shutdown ==
    /\ ~shutdownDone
    /\ shutdownDone' = TRUE /\ stopping' = TRUE
    /\ answers' = [j \in Jobs |-> IF j = active \/ Contains(wait, j)
                                  THEN Append(answers[j], "cancelled") ELSE answers[j]]
    /\ active' = NoJob /\ wait' = <<>>
    /\ IF process # NoWorker THEN Dies(process)
       ELSE /\ Put(<<"shutdown", NoJob>>)
            /\ UNCHANGED <<life, outbox, running, flag, ending, completed>>
    /\ process' = NoWorker /\ ready' = FALSE
    /\ UNCHANGED <<queues, hwAccel, readerVars, watchUp, callVars, envVars>>

Toggle ==
    /\ Mishap("toggle")
    /\ hw' = ~hw
    /\ UNCHANGED <<jobVars, procVars, shutdownDone, readerVars, watchUp, life, workVars, callVars>>

-----------------------------------------------------------------------------
(* The worker: infer_worker_main and the thread of its job *)

Reads(w, kind) == life[w] = "up" /\ inbox[w] # <<>> /\ Head(inbox[w])[1] = kind
RestUnchanged == UNCHANGED <<jobVars, procVars, shutdownDone, readerVars, watchUp, callVars, envVars>>

TakeStart(w) ==
    /\ Reads(w, "start")
    /\ inbox' = [inbox EXCEPT ![w] = Tail(@)]
    /\ \/ /\ running[w] = NoJob
          /\ running' = [running EXCEPT ![w] = Head(inbox[w])[2]]
          /\ flag' = [flag EXCEPT ![w] = FALSE]
          /\ UNCHANGED outbox
       \/ /\ running[w] # NoJob
          /\ outbox' = [outbox EXCEPT ![w] = Append(@, <<"error", Head(inbox[w])[2]>>)]
          /\ UNCHANGED <<running, flag>>
    /\ UNCHANGED <<life, ending, completed>>
    /\ RestUnchanged

TakeCancel(w) ==
    /\ Reads(w, "cancel")
    /\ inbox' = [inbox EXCEPT ![w] = Tail(@)]
    /\ flag' = [flag EXCEPT ![w] = @ \/ running[w] = Head(inbox[w])[2]]
    /\ UNCHANGED <<life, outbox, running, ending, completed>>
    /\ RestUnchanged

(* CmdMsg.SHUTDOWN ends the loop, and with it the process.                    *)
TakeShutdown(w) ==
    /\ Reads(w, "shutdown")
    /\ Dies(w)
    /\ RestUnchanged

(* Seeded bug: the event is emitted while the worker is still busy.           *)
JobEnds_EmitsAtOnce(w, kind) ==
    /\ life[w] = "up" /\ running[w] # NoJob /\ ending[w] = NoEvent
    /\ kind = "cancelled" => flag[w]
    /\ ending' = [ending EXCEPT ![w] = <<kind, running[w]>>]
    /\ outbox' = [outbox EXCEPT ![w] = Append(@, <<kind, running[w]>>)]
    /\ completed' = IF kind = "result" THEN completed \cup {running[w]} ELSE completed
    /\ UNCHANGED <<life, inbox, running, flag>>
    /\ RestUnchanged

(* The job is over: its terminal event is held back, ...                      *)
JobEnds(w, kind) ==
    /\ life[w] = "up" /\ running[w] # NoJob /\ ending[w] = NoEvent
    /\ kind = "cancelled" => flag[w]
    /\ ending' = [ending EXCEPT ![w] = <<kind, running[w]>>]
    /\ completed' = IF kind = "result" THEN completed \cup {running[w]} ELSE completed
    /\ UNCHANGED <<life, inbox, outbox, running, flag>>
    /\ RestUnchanged

(* ... the worker becomes idle ...                                            *)
WorkerIdle(w) ==
    /\ life[w] = "up" /\ ending[w] # NoEvent /\ running[w] # NoJob
    /\ running' = [running EXCEPT ![w] = NoJob]
    /\ UNCHANGED <<life, inbox, outbox, flag, ending, completed>>
    /\ RestUnchanged

(* ... and then the event is emitted.                                         *)
FlushTerminal(w) ==
    /\ life[w] = "up" /\ ending[w] # NoEvent /\ running[w] = NoJob
    /\ outbox' = [outbox EXCEPT ![w] = Append(@, ending[w])]
    /\ ending' = [ending EXCEPT ![w] = NoEvent]
    /\ UNCHANGED <<life, inbox, running, flag, completed>>
    /\ RestUnchanged

Crash(w) ==
    /\ IsAlive(w)
    /\ Mishap("crash")
    /\ Dies(w)
    /\ UNCHANGED <<jobVars, procVars, shutdownDone, readerVars, watchUp, callVars, hw>>

Freeze(w) ==
    /\ life[w] = "up"
    /\ Mishap("freeze")
    /\ life' = [life EXCEPT ![w] = "frozen"]
    /\ UNCHANGED <<jobVars, procVars, shutdownDone, readerVars, watchUp, workVars, callVars, hw>>

-----------------------------------------------------------------------------
Reader == Fetch \/ DispatchAnswer \/ DispatchStrands \/ DispatchStale \/ ReaderFindsCrash \/ ReaderLoops
CallStep(j) == EnsureStarted(j) \/ StartupReady(j) \/ StartupExpires(j) \/ StartupKills(j) \/ Submit(j)
WorkerStep(w) ==
    \/ TakeStart(w) \/ TakeCancel(w) \/ TakeShutdown(w) \/ WorkerIdle(w) \/ FlushTerminal(w)
    \/ \E kind \in {"result", "error", "cancelled"} : JobEnds(w, kind)

Next ==
    \/ \E j \in Jobs : CallStep(j) \/ Cancel(j)
    \/ Reader \/ Handshake \/ WatchdogTimeout \/ WatchdogExits
    \/ Release \/ Shutdown \/ Toggle
    \/ \E w \in Workers : WorkerStep(w) \/ Crash(w) \/ Freeze(w)

Spec == Init /\ [][Next]_vars

(* Threads and a worker that is up keep running, a job's work ends, and a     *)
(* call to start_job that began goes on.  The watchdog must act on a worker   *)
(* that does not answer its pings; one that does it may take for dead when a  *)
(* short limit is set, and need not.  Nobody must call anything.              *)
Fairness ==
    /\ WF_vars(Reader) /\ WF_vars(Handshake)
    /\ WF_vars(~Responds(queues) /\ WatchdogTimeout)
    /\ \A w \in Workers : WF_vars(WorkerStep(w))
    /\ \A j \in Jobs : WF_vars(pc[j] # "new" /\ CallStep(j))

FairSpec == Spec /\ Fairness

-----------------------------------------------------------------------------
(* Properties *)

Events == {"none", "result", "error", "cancelled"} \X (Jobs \cup {NoJob})

TypeOK ==
    /\ active \in Jobs \cup {NoJob} /\ wait \in Seq(Jobs)
    /\ IsInjective(<<active>> \o wait)
    /\ {process, queues, reading} \subseteq Workers \cup {NoWorker}
    /\ {ready, hw, hwAccel, stopping, shutdownDone, readerUp, watchUp} \subseteq BOOLEAN
    /\ fetched \in Events
    /\ life \in [Workers -> {"up", "frozen", "dead"}]
    /\ inbox \in [Workers -> Seq({"start", "cancel", "shutdown"} \X (Jobs \cup {NoJob}))]
    /\ outbox \in [Workers -> Seq(Events)] /\ ending \in [Workers -> Events]
    /\ running \in [Workers -> Jobs \cup {NoJob}] /\ flag \in [Workers -> BOOLEAN]
    /\ pc \in [Jobs -> {"new", "starting", "expired", "submitting", "accepted", "refused"}]
    /\ jobType \in [Jobs -> Types \cup {"none"}] /\ accepted \in Seq(Jobs)
    /\ answers \in [Jobs -> Seq({"result", "error", "cancelled", "timeout", "crash"})]
    /\ asked \subseteq Jobs /\ completed \subseteq Jobs
    /\ happened \subseteq Mishaps

Unanswered == {j \in Jobs : pc[j] = "accepted" /\ answers[j] = <<>>}

(* "One persistent worker process per device (never two on the same device)". *)
OneWorker == Cardinality(Alive) <= 1

(* A crash adds one worker at most.                                           *)
TwoWorkers == Cardinality(Alive) <= 2

(* The bound on names keeps no worker from being spawned.                     *)
NamesSuffice == NumWorkers >= 4 => Spare # {}

(* It holds whatever else happens, as long as no worker crashed.              *)
OneWorkerUnlessCrash == "crash" \in happened \/ OneWorker

(* Where the answer of the active job comes from: the command to start it,    *)
(* its run, or its event, on the worker the client has or with the reader.    *)
Underway ==
    \/ Contains(inbox[queues], <<"start", active>>)
    \/ running[queues] = active
    \/ ending[queues][2] = active
    \/ \E i \in DOMAIN outbox[queues] : outbox[queues][i][2] = active
    \/ fetched[2] = active

(* What takes the worker away from under the queue, from under a start_job    *)
(* that has seen it (release), or from everyone.                              *)
Excused == shutdownDone \/ happened \cap {"crash", "toggle", "expiry", "release"} # {}

(* A job that got an id is the active one or waits behind it until it is      *)
(* answered, unless a crash, a changed setting or an expired handshake took   *)
(* the worker away from under the queue.  The active one is in the hands of   *)
(* the worker the client has, and both threads that may end it are there.     *)
NoJobLost ==
    /\ happened \cap {"crash", "toggle", "expiry"} = {} /\ ~shutdownDone =>
          \A j \in Unanswered : active = j \/ (active # NoJob /\ Contains(wait, j))
    /\ active # NoJob /\ ~Excused =>
          /\ process = queues /\ Satisfied /\ Underway
          /\ readerUp /\ watchUp /\ ~stopping

(* "no cross-tool overlap": the unanswered jobs have one type, and so have    *)
(* the jobs that run in any worker process, with the same exceptions.         *)
OneTool ==
    happened \cap {"crash", "toggle", "expiry"} = {} =>
        /\ \A i, j \in Unanswered : jobType[i] = jobType[j]
        /\ \A v, w \in Alive : running[v] # NoJob /\ running[w] # NoJob =>
              jobType[running[v]] = jobType[running[w]]

(* "FIFO wait queue": jobs are active in the order in which they were         *)
(* accepted, with the same exceptions.                                        *)
Fifo ==
    [][happened' \cap {"crash", "toggle", "expiry"} = {} /\ active' \notin {active, NoJob} =>
          \A p, q \in DOMAIN accepted' :
              accepted'[p] = active' /\ accepted'[q] \in Range(wait') => p < q]_vars

(* Each job gets at most one terminal answer, whatever races: its own event,  *)
(* cancel, the watchdog, the reader's crash check, shutdown.                  *)
AnsweredOnce == \A j \in Jobs : Len(answers[j]) <= 1

(* An answer is the job's own: a result means its work was done, cancelled    *)
(* that somebody asked for it.  No event of a job before it is taken for it.  *)
AnswerIsOwn ==
    \A j \in Jobs : \A kind \in Range(answers[j]) :
        /\ kind = "result" => j \in completed
        /\ kind = "cancelled" => j \in asked \/ shutdownDone

(* "RESULT/ERROR is deliberately last": the next job never meets a worker     *)
(* that is still busy, which would reject it.                                 *)
NeverRejected ==
    \A w \in Workers : Reads(w, "start") /\ running[w] # NoJob => Head(inbox[w])[2] \notin Unanswered

(* Every accepted job is answered, though its worker may freeze or be killed  *)
(* by an impatient watchdog, with the exceptions of Excused.                  *)
EveryJobAnswered == \A j \in Jobs : j \in Unanswered ~> (j \notin Unanswered \/ Excused)
=============================================================================
