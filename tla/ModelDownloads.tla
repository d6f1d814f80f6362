--------------------------- MODULE ModelDownloads ---------------------------
(* The model installs of the settings page: the FIFO queue with its one       *)
(* worker thread (ModelDownloadQueue), the registry of started installs with  *)
(* its pending file and cancel flag (ModelDownloadRegistry), the installers,  *)
(* and what a shutdown, a killed process and the next start make of them.     *)
(*                                                                            *)
(* Two installers stand for the eight: one downloads beside the model and     *)
(* renames the verified file over it (installers/enhance.py; low_light,       *)
(* supir, seedvr2 and sam3 do the same), one downloads into the model's own   *)
(* directory and puts a marker into it (installers/generate.py).              *)
EXTENDS Naturals, Sequences, FiniteSets, SequencesExt

CONSTANTS
    Models,        \* the models of the catalogue
    InPlace,       \* those that are downloaded into their own directory
    Seedable,      \* those install.py may schedule for the first launch
    MaxJobs,       \* bound: installs that are queued, in all lives of the process
    MaxStarts,     \* bound: starts of the control plane
    MaxRemovals,   \* bound: uninstalls
    HistoryLimit,  \* length of the list of finished jobs (20 in the code)
    Drains,        \* bound: no request is under way when a shutdown begins
    NoModel

ASSUME DownloadsAssumption ==
    /\ InPlace \subseteq Models
    /\ Seedable \subseteq Models \ InPlace
    /\ {MaxJobs, MaxStarts, MaxRemovals, HistoryLimit} \subseteq Nat
    /\ NoModel \notin Models /\ Drains \in BOOLEAN

VARIABLES
    queue,      \* _queue: the jobs that wait
    current,    \* _current
    nextId,     \* _next_job_id (goes on after a start, to count towards MaxJobs)
    worker,     \* where the worker thread is, "none" when there is none
    job,        \* the job in the worker's hands (outlives current)
    err,        \* how its work_fn ended: "none", "cancelled", "failed"
    lost,       \* files of its running download were deleted
    stopped,    \* ids with stop_requested and cancel_event set, until answered
    unanswered, \* stop_job took them from the queue, on_done is still to come
    history,    \* _history, newest first
    answers,    \* what on_done published for each job
    active,     \* the registry's _active
    cancelled,  \* the registry's _cancel
    look,       \* how far a request is in is_model_installed
    pending,    \* pending_model_downloads.json
    flag,       \* model_download_cancel.flag
    part,       \* the bytes of a download on disk: "none", "some" (an empty
                \* directory as well) or "all"
    placed,     \* models whose weights or marker are in place
    cut,        \* history: models that are half deleted, see Deletes, or were
                \* marked by a late look in the middle of their download
    enabled,    \* models switched on
    phase,      \* "down", "starting", "up", then the steps of the shutdown
    aborting,   \* the entries whose files the shutdown or the start is to discard
    erasing,    \* the model whose files it is deleting
    starts,
    uninstalls, \* the threads that run uninstall_model
    removals

queueVars == <<queue, current, nextId, stopped, history>>
diskVars == <<part, placed, cut>>
fileVars == <<pending, flag, diskVars, enabled>>
jobVars == <<worker, job, err, lost>>
abortVars == <<phase, aborting, erasing, starts>>
removalVars == <<uninstalls, removals>>
vars == <<queueVars, jobVars, fileVars, abortVars, unanswered, answers, active,
          cancelled, removalVars, look>>

Job == [id : 1..MaxJobs, model : Models]
NoJob == [id |-> 0, model |-> NoModel]
(* The queue calls every install <<"model", id>> (models/service.py), the     *)
(* installers register theirs under a kind of their own.                      *)
Item == {"model", "installer"} \X Models
Entry(m) == <<"installer", m>>

(* install.py clears the file and schedules the starter models it was told to. *)
Seeds == {{Entry(m) : m \in seeds} : seeds \in SUBSET Seedable}

(* Complete snapshots without a marker, from elsewhere, that may be there     *)
(* already: those that is_model_installed is to adopt.                        *)
Snapshots == {[m \in Models |-> IF m \in local THEN "all" ELSE "none"] : local \in SUBSET InPlace}

Init ==
    /\ queue = <<>> /\ current = NoJob /\ nextId = 1
    /\ worker = "none" /\ job = NoJob /\ err = "none" /\ lost = FALSE
    /\ stopped = {} /\ unanswered = {} /\ history = <<>>
    /\ answers = [i \in 1..MaxJobs |-> <<>>]
    /\ active = {} /\ cancelled = FALSE /\ flag = FALSE
    /\ pending \in Seeds
    /\ part \in Snapshots /\ placed = {} /\ cut = {} /\ enabled = {}
    /\ phase = "down" /\ aborting = {} /\ erasing = NoModel /\ starts = 0
    /\ uninstalls = {} /\ removals = 0 /\ look = [m \in Models |-> "none"]

-----------------------------------------------------------------------------
(* The registry and the installers' helpers.                                  *)

IsCancelled == job.id \in stopped \/ cancelled \/ flag

(* discard_partial leaves a marked snapshot alone.                            *)
Kept(m) == m \in InPlace \cap placed

(* A download beside its model is one file; a directory loses its files one   *)
(* by one and goes itself when it is empty.                                   *)
Less(m) ==
    IF part[m] = "none" THEN {}
    ELSE IF m \notin InPlace THEN {"none"}
    ELSE {"some"} \cup (IF part[m] = "some" /\ m \notin placed THEN {"none"} ELSE {})

(* One step of deleting what was downloaded.  Nothing but the pending file    *)
(* tells a half-deleted directory from a complete one: a model that is marked *)
(* or not pending counts as cut from here on, until the last file is gone.    *)
Deletes(m) ==
    /\ \/ \E rest \in Less(m) : part' = [part EXCEPT ![m] = rest] /\ placed' = placed
       \/ Kept(m) /\ placed' = placed \ {m} /\ part' = part
    /\ cut' = IF part'[m] = "none" THEN cut \ {m}
              ELSE IF m \in placed \/ Entry(m) \notin pending THEN cut \cup {m} ELSE cut

(* A download that is writing them notices too late.                          *)
Loses(m) ==
    lost' = (lost \/ /\ job.model = m /\ worker = "fetch" /\ placed' = placed
                     /\ m \in InPlace => part'[m] # "none")

(* Seeded bug: the pending file is not asked.                                 *)
Adoptable_Pending(m) == m \in InPlace \ placed /\ part[m] # "none"

(* is_model_installed adopts an unmarked snapshot that is not pending, if its *)
(* model_index.json is there: of an incomplete one that is left open.         *)
Adoptable(m) == m \in InPlace \ placed /\ part[m] # "none" /\ Entry(m) \notin pending
IsInstalled(m) == m \in placed \/ Adoptable(m)

Fail(item, keepPending) ==
    /\ active' = active \ {item}
    /\ pending' = IF keepPending THEN pending \cup {item} ELSE pending \ {item}

-----------------------------------------------------------------------------
(* Requests.                                                                  *)

InHand == (IF current = NoJob THEN {} ELSE {current}) \cup ToSet(queue)

(* Seeded bug: the thread is only started for the first job.                  *)
Enqueue_FirstOnly(m) ==
    /\ phase = "up" /\ nextId <= MaxJobs
    /\ \A j \in InHand : j.model # m
    /\ queue' = Append(queue, [id |-> nextId, model |-> m])
    /\ nextId' = nextId + 1
    /\ worker' = IF nextId = 1 THEN "loop" ELSE worker
    /\ UNCHANGED <<current, stopped, history, job, err, lost, fileVars, abortVars,
                   unanswered, answers, active, cancelled, removalVars, look>>

(* start_model_action("install"): a model that is queued or being installed   *)
(* keeps its job.                                                             *)
Enqueue(m) ==
    /\ phase = "up" /\ nextId <= MaxJobs
    /\ \A j \in InHand : j.model # m
    /\ queue' = Append(queue, [id |-> nextId, model |-> m])
    /\ nextId' = nextId + 1
    /\ worker' = IF worker = "none" THEN "loop" ELSE worker
    /\ UNCHANGED <<current, stopped, history, job, err, lost, fileVars, abortVars,
                   unanswered, answers, active, cancelled, removalVars, look>>

(* At most HistoryLimit finished jobs are remembered, newest first.           *)
Remember(j, state) ==
    history' = SubSeq(<<[id |-> j.id, state |-> state]>> \o history, 1,
        IF Len(history) < HistoryLimit THEN Len(history) + 1 ELSE HistoryLimit)

StopCurrent ==
    /\ phase = "up" /\ current # NoJob /\ current.id \notin stopped
    /\ stopped' = stopped \cup {current.id}
    /\ UNCHANGED <<queue, current, nextId, history, jobVars, fileVars, abortVars,
                   unanswered, answers, active, cancelled, removalVars, look>>

(* Seeded bug: the job is answered but stays in the queue.                    *)
StopQueued_Keeps ==
    /\ phase = "up"
    /\ \E i \in DOMAIN queue :
          /\ queue[i].id \notin stopped
          /\ stopped' = stopped \cup {queue[i].id}
          /\ unanswered' = unanswered \cup {queue[i]}
          /\ Remember(queue[i], "cancelled")
    /\ UNCHANGED <<queue, current, nextId, jobVars, fileVars, abortVars, answers, active,
                   cancelled, removalVars, look>>

StopQueued ==
    /\ phase = "up"
    /\ \E i \in DOMAIN queue :
          /\ queue' = RemoveAt(queue, i)
          /\ stopped' = stopped \cup {queue[i].id}
          /\ unanswered' = unanswered \cup {queue[i]}
          /\ Remember(queue[i], "cancelled")
    /\ UNCHANGED <<current, nextId, jobVars, fileVars, abortVars, answers, active,
                   cancelled, removalVars, look>>

(* ... and outside the queue's lock.                                          *)
AnswerStopped(j) ==
    /\ j \in unanswered /\ phase # "down"
    /\ unanswered' = unanswered \ {j}
    /\ Fail(<<"model", j.model>>, FALSE)
    /\ answers' = [answers EXCEPT ![j.id] = Append(@, "cancelled")]
    /\ stopped' = stopped \ {j.id}
    /\ UNCHANGED <<queue, current, nextId, history, jobVars, flag, diskVars, enabled, abortVars,
                   cancelled, removalVars, look>>

(* start_model_action("remove") runs uninstall_model on a thread of its own,  *)
(* whatever the queue and other such threads do.                              *)
Uninstall(m) ==
    /\ phase = "up" /\ removals < MaxRemovals
    /\ m \in placed \/ part[m] # "none"
    /\ uninstalls' = uninstalls \cup
          {[id |-> removals + 1, model |-> m, at |-> IF m \in InPlace THEN "files" ELSE "part"]}
    /\ removals' = removals + 1
    /\ UNCHANGED <<queueVars, jobVars, fileVars, abortVars, unanswered, answers, active,
                   cancelled, look>>

UninstallGoes(u, there) == uninstalls' = (uninstalls \ {u}) \cup {[u EXCEPT !.at = there]}
UninstallEnds(u) == uninstalls' = uninstalls \ {u}
UninstallOnly ==
    UNCHANGED <<queueVars, worker, job, err, pending, flag, abortVars, unanswered, answers,
                active, cancelled, removals, look>>

(* enhance.py: an error with the partial file is ignored, one with the        *)
(* weights ends it.                                                           *)
UninstallDiscards(u) ==
    /\ u.at = "part" /\ UninstallGoes(u, "weights")
    /\ \/ Deletes(u.model) /\ Loses(u.model)
       \/ UNCHANGED <<diskVars, lost>>
    /\ UninstallOnly /\ UNCHANGED enabled

UninstallUnlinks(u) ==
    /\ u.at = "weights"
    /\ \/ UninstallGoes(u, "off") /\ placed' = placed \ {u.model}
       \/ UninstallEnds(u) /\ u.model \in placed /\ placed' = placed
    /\ UninstallOnly /\ UNCHANGED <<part, cut, enabled, lost>>

(* generate.py: rmtree, file by file.  It ends with the first error, which a  *)
(* file that comes or goes meanwhile is as well.                              *)
UninstallDeletes(u) ==
    /\ u.at = "files"
    /\ \/ /\ Deletes(u.model) /\ Loses(u.model)
          /\ UninstallGoes(u, IF part'[u.model] = "none" THEN "off" ELSE "files")
       \/ part[u.model] = "none" /\ UninstallGoes(u, "off") /\ UNCHANGED <<diskVars, lost>>
       \/ UninstallEnds(u) /\ UNCHANGED <<diskVars, lost>>
    /\ UninstallOnly /\ UNCHANGED enabled

UninstallDisables(u) ==
    /\ u.at = "off" /\ UninstallEnds(u)
    /\ enabled' = enabled \ {u.model}
    /\ UninstallOnly /\ UNCHANGED <<diskVars, lost>>

UninstallStep(u) ==
    UninstallDiscards(u) \/ UninstallUnlinks(u) \/ UninstallDeletes(u) \/ UninstallDisables(u)

(* is_model_installed for list_models, or for a run that wants its model: it  *)
(* sees the files, asks the pending file, and then touches the marker.        *)
LookSees(m) ==
    /\ phase = "up" /\ look[m] = "none"
    /\ m \in InPlace \ placed /\ part[m] # "none"
    /\ look' = [look EXCEPT ![m] = "seen"]
    /\ UNCHANGED <<queueVars, jobVars, fileVars, abortVars, unanswered, answers, active,
                   cancelled, removalVars>>

LookAsks(m) ==
    /\ look[m] = "seen"
    /\ look' = [look EXCEPT ![m] = IF Entry(m) \in pending THEN "none" ELSE "free"]
    /\ UNCHANGED <<queueVars, jobVars, fileVars, abortVars, unanswered, answers, active,
                   cancelled, removalVars>>

(* What it saw may be gone, and a new download of the model have begun.       *)
Adopt(m) ==
    /\ look[m] = "free" /\ look' = [look EXCEPT ![m] = "none"]
    /\ placed' = IF part[m] = "none" THEN placed ELSE placed \cup {m}
    /\ cut' = IF part[m] \in {"none", "all"} \/ Adoptable(m) THEN cut ELSE cut \cup {m}
    /\ UNCHANGED <<queueVars, jobVars, pending, flag, part, enabled, abortVars,
                   unanswered, answers, active, cancelled, removalVars>>

-----------------------------------------------------------------------------
(* The worker thread.                                                         *)

At(place) == worker = place /\ phase # "down"
Goto(place) == worker' = place
Raise(kind, place) == err' = kind /\ worker' = place

NextJob ==
    /\ At("loop")
    /\ IF queue = <<>>
          THEN current' = NoJob /\ Goto("none") /\ UNCHANGED <<queue, job, err>>
          ELSE /\ current' = Head(queue) /\ job' = Head(queue) /\ queue' = Tail(queue)
               /\ err' = "none" /\ Goto("begin")
    /\ UNCHANGED <<nextId, stopped, history, lost, fileVars, abortVars, unanswered, answers,
                   active, cancelled, removalVars, look>>

(* The head of install_model: nothing to do, or begin() and a clean start.    *)
AlreadyInstalled ==
    /\ At("begin") /\ job.model \in InPlace /\ IsInstalled(job.model)
    /\ placed' = placed \cup {job.model} /\ enabled' = enabled \cup {job.model}
    /\ Goto("complete")
    /\ UNCHANGED <<queueVars, job, err, lost, pending, flag, part, cut, abortVars,
                   unanswered, answers, active, cancelled, removalVars, look>>

NotInstalled(m) == m \in InPlace => m \notin placed /\ (Adoptable(m) => part[m] = "some")

(* Seeded bug: the entry is not written to the file.                          *)
Begin_ActiveOnly ==
    /\ At("begin") /\ NotInstalled(job.model)
    /\ active' = active \cup {Entry(job.model)}
    /\ Goto("clean")
    /\ UNCHANGED <<queueVars, job, err, lost, fileVars, abortVars, unanswered, answers,
                   cancelled, removalVars, look>>

Begin ==
    /\ At("begin") /\ NotInstalled(job.model)
    /\ active' = active \cup {Entry(job.model)}
    /\ pending' = pending \cup {Entry(job.model)}
    /\ Goto("clean")
    /\ UNCHANGED <<queueVars, job, err, lost, flag, diskVars, enabled, abortVars,
                   unanswered, answers, cancelled, removalVars, look>>

(* discard_partial: the marker is looked at once, an error is ignored.        *)
Discarding(here, there) ==
    \/ At(here) /\ ~Kept(job.model) /\ Goto(there) /\ UNCHANGED diskVars
    \/ At(there) /\ Deletes(job.model) /\ Goto(there)

ClearOld ==
    /\ Discarding("clean", "cleaning")
    /\ UNCHANGED <<queueVars, job, err, lost, pending, flag, enabled, abortVars, unanswered,
                   answers, active, cancelled, removalVars, look>>

(* mkdir, and the first look at is_cancelled.                                 *)
StartClean ==
    /\ At("cleaning") \/ (At("clean") /\ Kept(job.model))
    /\ part' = IF job.model \in InPlace /\ part[job.model] = "none"
               THEN [part EXCEPT ![job.model] = "some"] ELSE part
    /\ IF IsCancelled THEN Raise("cancelled", "revert") ELSE err' = err /\ Goto("fetch")
    /\ UNCHANGED <<queueVars, job, lost, pending, flag, placed, cut, enabled, abortVars,
                   unanswered, answers, active, cancelled, removalVars, look>>

(* What is there when a file has arrived, the last one perhaps.  Of a deleted *)
(* file nothing is left, into a directory the rest arrives.                   *)
Arrived(m, last) ==
    IF lost /\ m \notin InPlace THEN "none"
    ELSE IF (last /\ ~lost) \/ (m \in InPlace /\ part[m] = "all") THEN "all"
    ELSE "some"

(* The download looks at is_cancelled with every block that arrives.          *)
Fetch ==
    /\ At("fetch")
    /\ IF IsCancelled THEN Raise("cancelled", "revert") /\ part' = part
       ELSE \/ \E last \in BOOLEAN :
                 /\ part' = [part EXCEPT ![job.model] = Arrived(job.model, last)]
                 /\ err' = err /\ Goto(IF last THEN "check" ELSE "fetch")
            \/ part' = part /\ Raise("failed", "revert")
    /\ lost' = (lost /\ worker' = "fetch")
    /\ UNCHANGED <<queueVars, job, pending, flag, placed, cut, enabled, abortVars,
                   unanswered, answers, active, cancelled, removalVars, look>>

Check ==
    /\ At("check")
    /\ IF IsCancelled THEN Raise("cancelled", "revert") ELSE err' = err /\ Goto("verify")
    /\ UNCHANGED <<queueVars, job, lost, fileVars, abortVars, unanswered, answers, active,
                   cancelled, removalVars, look>>

(* promote_verified_artifact verifies and renames; _validate_download_snapshot *)
(* looks for some of the files by name, the marker comes after it.            *)
Verify ==
    /\ At("verify")
    /\ \/ part[job.model] # "all" /\ Raise("failed", "revert") /\ UNCHANGED diskVars
       \/ /\ job.model \in InPlace /\ part[job.model] # "none"
          /\ err' = err /\ Goto("mark") /\ UNCHANGED <<part, placed>>
          /\ cut' = IF part[job.model] = "all" THEN cut \ {job.model} ELSE cut
       \/ /\ job.model \notin InPlace /\ part[job.model] = "all"
          /\ part' = [part EXCEPT ![job.model] = "none"]
          /\ placed' = placed \cup {job.model} /\ cut' = cut \ {job.model}
          /\ err' = err /\ Goto("confirm")
    /\ UNCHANGED <<queueVars, job, lost, pending, flag, enabled, abortVars, unanswered,
                   answers, active, cancelled, removalVars, look>>

(* The marker is touched outside the try: without its directory the install   *)
(* fails and its entry stays.  Nobody looks at the files again.               *)
Mark ==
    /\ At("mark")
    /\ IF part[job.model] = "none" THEN Raise("failed", "finish") /\ UNCHANGED <<placed, cut>>
       ELSE /\ placed' = placed \cup {job.model} /\ err' = err /\ Goto("confirm")
            /\ cut' = IF part[job.model] = "all" THEN cut ELSE cut \cup {job.model}
    /\ UNCHANGED <<queueVars, job, lost, pending, flag, part, enabled, abortVars,
                   unanswered, answers, active, cancelled, removalVars, look>>

Confirm ==
    /\ At("confirm")
    /\ IF IsInstalled(job.model)
          THEN /\ placed' = placed \cup {job.model}
               /\ enabled' = enabled \cup {job.model}
               /\ err' = err /\ Goto("complete")
          ELSE Raise("failed", "revert") /\ UNCHANGED <<placed, enabled>>
    /\ UNCHANGED <<queueVars, job, lost, pending, flag, part, cut, abortVars, unanswered,
                   answers, active, cancelled, removalVars, look>>

(* Seeded bug: the entry is left in the file.                                 *)
Complete_ActiveOnly ==
    /\ At("complete")
    /\ active' = active \ {Entry(job.model)}
    /\ Goto("finish")
    /\ UNCHANGED <<queueVars, job, err, lost, fileVars, abortVars, unanswered, answers,
                   cancelled, removalVars, look>>

Complete ==
    /\ At("complete")
    /\ Fail(Entry(job.model), FALSE)
    /\ Goto("finish")
    /\ UNCHANGED <<queueVars, job, err, lost, flag, diskVars, enabled, abortVars,
                   unanswered, answers, cancelled, removalVars, look>>

(* except DownloadCancelled / except Exception of install_model: what an      *)
(* error leaves of the files is left.                                         *)
RevertDeletes ==
    /\ Discarding("revert", "reverting")
    /\ UNCHANGED <<queueVars, job, err, lost, pending, flag, enabled, abortVars, unanswered,
                   answers, active, cancelled, removalVars, look>>

Revert ==
    /\ At("reverting") \/ (At("revert") /\ Kept(job.model))
    /\ Goto("fail")
    /\ cut' = IF worker = "revert" \/ part[job.model] = "none" THEN cut ELSE cut \cup {job.model}
    /\ UNCHANGED <<queueVars, job, err, lost, pending, flag, part, placed, enabled, abortVars,
                   unanswered, answers, active, cancelled, removalVars, look>>

FailInstall ==
    /\ At("fail")
    /\ Fail(Entry(job.model), err = "cancelled")
    /\ Goto("finish")
    /\ UNCHANGED <<queueVars, job, err, lost, flag, diskVars, enabled, abortVars,
                   unanswered, answers, cancelled, removalVars, look>>

State == IF err = "none" THEN "completed" ELSE err

Finish ==
    /\ At("finish")
    /\ current' = NoJob
    /\ Remember(job, State)
    /\ Goto("answer")
    /\ UNCHANGED <<queue, nextId, stopped, job, err, lost, fileVars, abortVars,
                   unanswered, answers, active, cancelled, removalVars, look>>

(* _drop_stopped_pending and on_done, both outside the lock.                  *)
Answer ==
    /\ At("answer")
    /\ IF job.id \in stopped /\ err # "none"
          THEN Fail(<<"model", job.model>>, FALSE) ELSE UNCHANGED <<active, pending>>
    /\ answers' = [answers EXCEPT ![job.id] = Append(@, State)]
    /\ job' = NoJob /\ err' = "none" /\ Goto("loop") /\ stopped' = stopped \ {job.id}
    /\ UNCHANGED <<queue, current, nextId, history, lost, flag, diskVars, enabled, abortVars, unanswered,
                   cancelled, removalVars, look>>

Install ==
    \/ AlreadyInstalled \/ Begin \/ ClearOld \/ StartClean \/ Fetch \/ Check \/ Verify
    \/ Mark \/ Confirm \/ Complete \/ RevertDeletes \/ Revert \/ FailInstall
WorkerStep == NextJob \/ Install \/ Finish \/ Answer

-----------------------------------------------------------------------------
(* Shutdown, a killed process, and the next start.                            *)

(* abort_all_and_revert, up to request_cancel or clear_cancel.  The server    *)
(* has answered its requests by then; the validation of a queued run looks at *)
(* models on a thread of its own.                                             *)
AbortAll ==
    /\ phase = "up"
    /\ Drains => unanswered = {} /\ \A m \in Models : look[m] = "none"
    /\ aborting' = active \cup pending
    /\ cancelled' = (aborting' # {}) /\ flag' = (aborting' # {})
    /\ phase' = IF aborting' = {} THEN "discarding" ELSE "saving"
    /\ UNCHANGED <<queueVars, jobVars, pending, diskVars, enabled, erasing, starts,
                   unanswered, answers, active, removalVars, look>>

AbortSaves ==
    /\ phase = "saving"
    /\ pending' = pending \cup aborting
    /\ active' = {}
    /\ phase' = "discarding"
    /\ UNCHANGED <<queueVars, jobVars, flag, diskVars, enabled, aborting, erasing, starts,
                   unanswered, answers, cancelled, removalVars, look>>

(* One entry after the other, in the shutdown and in revert_pending_on_disk:  *)
(* the marker is looked at once, while the worker may still put it there.     *)
NextDiscard ==
    /\ phase \in {"discarding", "starting"} /\ erasing = NoModel
    /\ IF aborting = {}
          THEN phase = "starting" /\ phase' = "up" /\ UNCHANGED <<aborting, erasing>>
          ELSE \E item \in aborting :
                 /\ aborting' = aborting \ {item} /\ phase' = phase
                 /\ erasing' = IF Kept(item[2]) THEN NoModel ELSE item[2]
    /\ UNCHANGED <<queueVars, jobVars, fileVars, starts, unanswered, answers, active,
                   cancelled, removalVars, look>>

(* Errors are ignored; there is no second try before the next start.          *)
DiscardStep ==
    /\ erasing # NoModel
    /\ \/ /\ Deletes(erasing) /\ Loses(erasing)
          /\ erasing' = IF part'[erasing] = "none" THEN NoModel ELSE erasing
       \/ /\ erasing' = NoModel /\ UNCHANGED <<part, placed, lost>>
          /\ cut' = IF phase = "starting" /\ part[erasing] # "none" THEN cut \cup {erasing} ELSE cut
    /\ UNCHANGED <<queueVars, worker, job, err, pending, flag, enabled, phase, aborting, starts,
                   unanswered, answers, active, cancelled, removalVars, look>>

(* The process is gone, at the end of the shutdown or before: the files stay. *)
Exit ==
    /\ phase # "down"
    /\ phase' = "down" /\ aborting' = {} /\ erasing' = NoModel
    /\ queue' = <<>> /\ current' = NoJob /\ history' = <<>> /\ stopped' = {}
    /\ worker' = "none" /\ job' = NoJob /\ err' = "none" /\ lost' = FALSE
    /\ unanswered' = {} /\ active' = {} /\ cancelled' = FALSE /\ uninstalls' = {}
    /\ look' = [m \in Models |-> "none"]
    /\ answers' = [i \in 1..MaxJobs |-> <<>>]
    /\ UNCHANGED <<nextId, fileVars, starts, removals>>

StartOnly ==
    /\ phase = "down" /\ starts < MaxStarts
    /\ phase' = "starting" /\ starts' = starts + 1
    /\ UNCHANGED <<queueVars, jobVars, pending, diskVars, enabled, erasing, unanswered, answers,
                   active, cancelled, removalVars, look>>

(* Seeded bugs: the flag of the last shutdown, or the partial files, survive. *)
Start_KeepsFlag == StartOnly /\ aborting' = pending /\ UNCHANGED flag
Start_KeepsPartials == StartOnly /\ aborting' = {} /\ flag' = FALSE

(* prepare_restart_pending, before the first request is served: the cancel    *)
(* flag goes, then the partial files of what is pending.  The entries stay.   *)
Start == StartOnly /\ aborting' = pending /\ flag' = FALSE

Next ==
    \/ \E m \in Models : Enqueue(m) \/ Uninstall(m) \/ LookSees(m) \/ LookAsks(m) \/ Adopt(m)
    \/ StopCurrent \/ StopQueued \/ \E j \in unanswered : AnswerStopped(j)
    \/ WorkerStep
    \/ \E u \in uninstalls : UninstallStep(u)
    \/ AbortAll \/ AbortSaves \/ NextDiscard \/ DiscardStep \/ Exit \/ Start

Spec == Init /\ [][Next]_vars

(* The worker thread and the thread of a stop request keep running; a         *)
(* transfer that keeps running ends or fails.  Nothing makes a user ask, a    *)
(* process exit or start again.                                               *)
FairSpec ==
    Spec /\ WF_vars(WorkerStep) /\ WF_vars(\E j \in unanswered : AnswerStopped(j))

-----------------------------------------------------------------------------
Places == {"none", "loop", "begin", "clean", "cleaning", "fetch", "check", "verify", "mark",
           "confirm", "complete", "revert", "reverting", "fail", "finish", "answer"}
Ended == {"completed", "cancelled", "failed"}
Phases == {"down", "starting", "up", "saving", "discarding"}
Removal == [id : 1..MaxRemovals, model : Models, at : {"part", "weights", "files", "off"}]

(* Every variable has its type, and the list of finished jobs its length.     *)
TypeOK ==
    /\ queue \in Seq(Job) /\ current \in Job \cup {NoJob} /\ nextId \in 1..MaxJobs + 1
    /\ worker \in Places /\ job \in Job \cup {NoJob}
    /\ err \in {"none", "cancelled", "failed"} /\ lost \in BOOLEAN
    /\ stopped \subseteq 1..MaxJobs /\ unanswered \subseteq Job
    /\ history \in Seq([id : 1..MaxJobs, state : Ended]) /\ Len(history) <= HistoryLimit
    /\ answers \in [1..MaxJobs -> Seq(Ended)]
    /\ active \subseteq Item /\ pending \subseteq Item
    /\ cancelled \in BOOLEAN /\ flag \in BOOLEAN
    /\ part \in [Models -> {"none", "some", "all"}]
    /\ placed \subseteq Models /\ cut \subseteq Models /\ enabled \subseteq Models
    /\ phase \in Phases /\ aborting \subseteq Item /\ erasing \in Models \cup {NoModel}
    /\ starts \in 0..MaxStarts /\ uninstalls \subseteq Removal /\ removals \in 0..MaxRemovals
    /\ look \in [Models -> {"none", "seen", "free"}]

Debris(m) == part[m] \notin (IF m \in InPlace THEN {"none", "all"} ELSE {"none"})

(* "persist so reopen can start over after abort": whenever the process is    *)
(* killed, each half-downloaded model has an entry in the pending file, by    *)
(* which the next start finds and deletes it.  Not so one that is cut: by an  *)
(* uninstall, or by the shutdown after it was marked, or left after an error. *)
PartialsTracked == \A m \in Models \ cut : Debris(m) => Entry(m) \in pending

(* "cancel -> revert partials; reopen -> start over": between two installs,   *)
(* whether they succeeded, failed, were stopped, cut short by a shutdown or a *)
(* kill, or lost their files to an uninstall, no half-downloaded model is on  *)
(* disk, unless its deletion went wrong or an uninstall was or is cutting it. *)
CleanWhenIdle ==
    phase = "up" /\ worker \in {"none", "loop"} => \A m \in Models \ cut : ~Debris(m)

(* A snapshot is only ever taken for an installed model, marked or adopted,   *)
(* when all of it has arrived.  The code makes no such promise for one that   *)
(* is cut: list_models adopts what an uninstall has left of it, or puts the   *)
(* marker into a download that began after it asked the pending file.         *)
InstalledIsComplete == \A m \in (InPlace \cap placed) \ cut : part[m] = "all"

(* The flag of an earlier shutdown or of an aborted process never cancels an  *)
(* install: while the control plane is up, only the user's stop does.         *)
CancelHasCause == phase = "up" /\ err = "cancelled" => job.id \in stopped

(* An install reported as completed has left its model installed, switched on *)
(* and no longer pending, unless it was uninstalled meanwhile.                *)
HonestCompletion ==
    phase = "up" /\ removals = 0 /\ worker = "answer" /\ err = "none" =>
        job.model \in placed \cap enabled /\ Entry(job.model) \notin pending

(* stop_job and the worker race for a job: it gets one answer.                *)
AnsweredOnce == \A i \in 1..MaxJobs : Len(answers[i]) <= 1

(* Every install that was queued is answered, whatever happens to the others, *)
(* unless the control plane is shut down first.                               *)
Unfinished == {j.id : j \in InHand \cup unanswered \cup {job}}
EveryJobAnswered ==
    \A i \in 1..MaxJobs : i \in Unfinished ~> (answers[i] # <<>> \/ phase # "up")
=============================================================================
