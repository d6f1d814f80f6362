------------------------ MODULE ModelDownloadsProofs ------------------------
(* Theorems about ModelDownloads for any catalogue and any number of installs, *)
(* uninstalls, shutdowns, kills and starts.                                   *)
EXTENDS ModelDownloads, SequenceTheorems, TLAPS

Types ==
    /\ queue \in Seq(Job) /\ nextId \in 1..(MaxJobs + 1)
    /\ worker \in Places /\ job \in Job \cup {NoJob}
    /\ worker \notin {"none", "loop"} => job \in Job
    /\ err \in {"none", "cancelled", "failed"}
    /\ unanswered \subseteq Job
    /\ answers \in [1..MaxJobs -> Seq(Ended)]
    /\ active \subseteq Item /\ pending \subseteq Item /\ aborting \subseteq Item
    /\ part \in [Models -> {"none", "some", "all"}]
    /\ placed \subseteq Models /\ cut \subseteq Models
    /\ phase \in Phases /\ erasing \in Models \cup {NoModel}
    /\ uninstalls \subseteq Removal /\ removals \in Nat
    /\ look \in [Models -> {"none", "seen", "free"}]

(* Who is there: nobody while the process is down or starting, no discard     *)
(* while it serves requests, and each uninstall by its model's layout.        *)
Quiet ==
    /\ phase \in {"down", "starting"} =>
           worker = "none" /\ uninstalls = {} /\ \A m \in Models : look[m] = "none"
    /\ phase \in {"down", "up", "saving"} => erasing = NoModel
    /\ \A u \in uninstalls : u.at \in {"part", "weights"} => u.model \notin InPlace
    /\ removals = 0 => uninstalls = {}

(* A model with files of a download that is not done with.                    *)
Loose(m) ==
    Debris(m) \/ (m \in InPlace \ placed /\ part[m] = "all" /\ Entry(m) \in pending)

(* A model of which nothing is left to do, or which is known to be cut.       *)
Settled(m) == m \in cut \/ part[m] = "none" \/ m \in InPlace \cap placed

(* Between begin() and the end of its install a model is pending; while the   *)
(* control plane is up no model is loose but the one in the worker's hands,   *)
(* and while it starts none but those that it is still to discard.            *)
Writing == {"clean", "cleaning", "fetch", "check", "verify", "mark", "revert", "reverting"}
Begun == Writing \cup {"confirm", "fail"}
Done == {"confirm", "complete", "fail"}
FilesFit ==
    /\ PartialsTracked
    /\ InstalledIsComplete
    /\ \A m \in InPlace \cap placed : part[m] # "none"
    /\ worker \in Begun => Entry(job.model) \in pending
    /\ worker \in Done => Settled(job.model)
    /\ worker = "mark" => job.model \in InPlace
    /\ phase = "up" =>
           \A m \in Models \ cut : Loose(m) => m = job.model /\ worker \in Writing
    /\ phase = "starting" =>
           \A m \in Models \ cut : Loose(m) => Entry(m) \in aborting \/ m = erasing

(* The flags of a shutdown are never up while the control plane is.           *)
FlagsFit ==
    /\ phase \in {"starting", "up"} => cancelled = FALSE /\ flag = FALSE
    /\ phase \in {"down", "starting"} => cancelled = FALSE /\ err = "none"
    /\ worker \in {"none", "loop"} => err = "none"
    /\ CancelHasCause

(* An install that ends without an error has installed its model.             *)
HonestFit ==
    /\ worker \in {"revert", "reverting", "fail"} => err # "none"
    /\ worker \in {"complete", "finish", "answer"} /\ err = "none" /\ removals = 0 /\ phase = "up" =>
           job.model \in placed \cap enabled
    /\ phase = "up" /\ worker \in {"finish", "answer"} /\ err = "none" =>
           Entry(job.model) \notin pending

(* A job is in one place, and not answered before it has left them all.       *)
AnswersFit ==
    /\ \A i \in DOMAIN queue : queue[i].id < nextId /\ answers[queue[i].id] = <<>>
    /\ \A i, k \in DOMAIN queue : queue[i].id = queue[k].id => i = k
    /\ \A j \in unanswered : /\ j.id < nextId /\ answers[j.id] = <<>>
                             /\ \A i \in DOMAIN queue : queue[i].id # j.id
    /\ \A j, k \in unanswered : j.id = k.id => j = k
    /\ worker \notin {"none", "loop"} =>
           /\ job.id < nextId /\ answers[job.id] = <<>>
           /\ \A i \in DOMAIN queue : queue[i].id # job.id
           /\ \A j \in unanswered : j.id # job.id
    /\ \A i \in 1..MaxJobs : i >= nextId => answers[i] = <<>>
    /\ AnsweredOnce

IInv == Types /\ Quiet /\ FilesFit /\ FlagsFit /\ HonestFit /\ AnswersFit

-----------------------------------------------------------------------------
LEMMA JobFields ==
    /\ \A j \in Job : j.id \in 1..MaxJobs /\ j.model \in Models
    /\ MaxJobs \in Nat /\ InPlace \subseteq Models
  BY DownloadsAssumption DEF Job

(* What one step of a deletion does: a model of which something is left and   *)
(* that does not count as cut had an entry and no marker, as before.          *)
LEMMA DeletesFacts ==
    ASSUME Types, FilesFit, NEW m \in Models, Deletes(m)
    PROVE  /\ part' \in [Models -> {"none", "some", "all"}]
           /\ placed' \subseteq placed /\ cut' \subseteq Models
           /\ \A x \in Models \ {m} : /\ part'[x] = part[x]
                                      /\ x \in placed' <=> x \in placed
                                      /\ x \in cut' <=> x \in cut
           /\ part[m] # "none"
           /\ m \in InPlace \cap placed' => part'[m] # "none"
           /\ m \in cut' \/ part'[m] = "none" \/
              (m \in InPlace \ (placed \cup cut) /\ Entry(m) \in pending)
<1> USE DownloadsAssumption
<1>1. CASE Kept(m) /\ placed' = placed \ {m} /\ part' = part
  <2>1. m \in InPlace \cap placed /\ part[m] # "none"
    BY <1>1 DEF Kept, FilesFit
  <2>2. cut' = cut \cup {m}
    BY <1>1, <2>1 DEF Deletes
  <2> QED BY <1>1, <2>1, <2>2 DEF Types
<1>2. ASSUME NEW rest \in Less(m), part' = [part EXCEPT ![m] = rest], placed' = placed
      PROVE  /\ part' \in [Models -> {"none", "some", "all"}]
             /\ \A x \in Models \ {m} : part'[x] = part[x]
             /\ part[m] # "none" /\ part'[m] = rest
             /\ m \in InPlace \cap placed => rest # "none"
             /\ m \notin InPlace => rest = "none"
  BY <1>2 DEF Less, Types
<1>3. CASE \E rest \in Less(m) : part' = [part EXCEPT ![m] = rest] /\ placed' = placed
  <2>1. PICK rest \in Less(m) : part' = [part EXCEPT ![m] = rest] /\ placed' = placed
    BY <1>3
  <2>2. cut' = IF part'[m] = "none" THEN cut \ {m}
               ELSE IF m \in placed \/ Entry(m) \notin pending THEN cut \cup {m} ELSE cut
    BY DEF Deletes
  <2> QED BY <1>2, <2>1, <2>2 DEF Types
<1> QED BY <1>1, <1>3 DEF Deletes

(* So it leaves every invariant of the files as it was.                       *)
LEMMA DeletesKeeps ==
    ASSUME Types, FilesFit, NEW m \in Models, Deletes(m), pending' = pending
    PROVE  /\ PartialsTracked' /\ InstalledIsComplete'
           /\ \A x \in InPlace \cap placed' : part'[x] # "none"
           /\ \A x \in Models : Settled(x) => Settled(x)'
           /\ \A x \in Models \ cut' : Loose(x)' => x \notin cut /\ Loose(x)
<1> USE DownloadsAssumption DEF Types
<1>1. \A x \in Models \ {m} : /\ part'[x] = part[x]
                              /\ x \in placed' <=> x \in placed
                              /\ x \in cut' <=> x \in cut
  BY DeletesFacts
<1>2. m \in cut' \/ part'[m] = "none" \/
      (m \in InPlace \ (placed \cup cut) /\ Entry(m) \in pending)
  BY DeletesFacts
<1>3. /\ part[m] # "none" /\ placed' \subseteq placed /\ (m \in InPlace \cap placed' => part'[m] # "none")
      /\ part' \in [Models -> {"none", "some", "all"}]
  BY DeletesFacts
<1>4. PartialsTracked'
  BY <1>1, <1>2 DEF FilesFit, PartialsTracked, Debris
<1>5. InstalledIsComplete'
  BY <1>1, <1>2, <1>3 DEF FilesFit, InstalledIsComplete
<1>6. \A x \in InPlace \cap placed' : part'[x] # "none"
  BY <1>1, <1>3 DEF FilesFit
<1>7. \A x \in Models : Settled(x) => Settled(x)'
  BY <1>1, <1>2, <1>3 DEF Settled
<1>8. \A x \in Models \ cut' : Loose(x)' => x \notin cut /\ Loose(x)
  <2> SUFFICES ASSUME NEW x \in Models \ cut', Loose(x)' PROVE x \notin cut /\ Loose(x)
    OBVIOUS
  <2>1. CASE x # m
    BY <1>1, <2>1 DEF Loose, Debris
  <2>2. CASE x = m
    <3>1. part'[m] # "none"
      BY <2>2 DEF Loose, Debris
    <3>2. m \in InPlace \ (placed \cup cut) /\ Entry(m) \in pending
      BY <1>2, <2>2, <3>1
    <3> QED BY <1>3, <2>2, <3>2 DEF Loose, Debris
  <2> QED BY <2>1, <2>2
<1> QED BY <1>4, <1>5, <1>6, <1>7, <1>8

(* Every step keeps every variable in its set.                                *)
LEMMA TypesStep ==
    ASSUME Types, FilesFit, [Next]_vars
    PROVE  Types'
<1> USE DownloadsAssumption, JobFields
        DEF queueVars, fileVars, jobVars, abortVars, diskVars, removalVars
<1>1. ASSUME NEW m \in Models, Enqueue(m)
      PROVE  Types'
  <2>1. [id |-> nextId, model |-> m] \in Job /\ nextId' = nextId + 1 /\ nextId' \in 1..(MaxJobs + 1)
    BY <1>1 DEF Enqueue, Types, Job
  <2>2. queue' \in Seq(Job)
    BY <1>1, <2>1 DEF Enqueue, Types
  <2>3. worker' = worker \/ worker' = "loop"
    BY <1>1 DEF Enqueue
  <2> QED BY <1>1, <2>1, <2>2, <2>3 DEF Enqueue, Types, Places
<1>2. ASSUME NEW m \in Models, Uninstall(m)
      PROVE  Types'
  <2> DEFINE u == [id |-> removals + 1, model |-> m, at |-> IF m \in InPlace THEN "files" ELSE "part"]
  <2>1. u \in Removal /\ removals' \in Nat
    BY <1>2 DEF Uninstall, Types, Removal
  <2> QED BY <1>2, <2>1 DEF Uninstall, Types
<1>3. ASSUME NEW m \in Models, LookSees(m) \/ LookAsks(m) \/ Adopt(m)
      PROVE  Types'
  <2>1. look' \in [Models -> {"none", "seen", "free"}] /\ placed' \subseteq Models /\ cut' \subseteq Models
    BY <1>3 DEF LookSees, LookAsks, Adopt, Types
  <2> QED BY <1>3, <2>1 DEF LookSees, LookAsks, Adopt, Types
<1>4. CASE StopCurrent
  BY <1>4 DEF StopCurrent, Types
<1>5. CASE StopQueued
  <2>1. PICK i \in DOMAIN queue : queue' = RemoveAt(queue, i) /\ unanswered' = unanswered \cup {queue[i]}
    BY <1>5 DEF StopQueued
  <2>2. queue' \in Seq(Job) /\ queue[i] \in Job
    BY <2>1 DEF RemoveAt, Types
  <2>3. UNCHANGED <<nextId, worker, job, err, answers, active, pending, aborting, part, placed, cut,
                    phase, erasing, uninstalls, removals, look>>
    BY <1>5 DEF StopQueued
  <2> QED BY <2>1, <2>2, <2>3 DEF Types
<1>6. ASSUME NEW j \in unanswered, AnswerStopped(j)
      PROVE  Types'
  <2>1. answers' \in [1..MaxJobs -> Seq(Ended)]
    BY <1>6 DEF AnswerStopped, Types, Ended
  <2> QED BY <1>6, <2>1 DEF AnswerStopped, Fail, Types
<1>7. CASE NextJob
  <2>1. queue' \in Seq(Job) /\ worker' \in {"none", "begin"} /\ err' \in {"none", "cancelled", "failed"}
        /\ job' \in Job \cup {NoJob} /\ (worker' = "begin" => job' \in Job)
    <3>1. CASE queue = <<>>
      BY <1>7, <3>1 DEF NextJob, Goto, Types
    <3>2. CASE queue # <<>>
      <4>1. Head(queue) \in Job /\ Tail(queue) \in Seq(Job)
        BY <3>2 DEF Types
      <4> QED BY <1>7, <3>2, <4>1 DEF NextJob, Goto
    <3> QED BY <3>1, <3>2
  <2>2. UNCHANGED <<nextId, unanswered, answers, active, pending, aborting, part, placed, cut,
                    phase, erasing, uninstalls, removals, look>>
    BY <1>7 DEF NextJob
  <2> QED BY <2>1, <2>2 DEF Types, Places
<1>8. CASE Install
  <2> USE DEF Install, AlreadyInstalled, Begin, ClearOld, StartClean, Fetch, Check, Verify, Mark,
              Confirm, Complete, RevertDeletes, Revert, FailInstall
  <2>1. worker \notin {"none", "loop"} /\ job \in Job /\ job.model \in Models
    BY <1>8 DEF At, Discarding, Types
  <2>2. worker' \in Places \ {"none", "loop"} /\ err' \in {"none", "cancelled", "failed"}
    BY <1>8 DEF Goto, Raise, Discarding, Places, Types
  <2>3. UNCHANGED <<queue, nextId, job, unanswered, answers, aborting, phase, erasing, uninstalls,
                    removals, look>>
    BY <1>8
  <2>4. active' \subseteq Item /\ pending' \subseteq Item
    <3>1. active' \subseteq active \cup {Entry(job.model)} /\ pending' \subseteq pending \cup {Entry(job.model)}
      BY <1>8 DEF Fail
    <3> QED BY <2>1, <3>1 DEF Types, Entry, Item
  <2>5. part' \in [Models -> {"none", "some", "all"}] /\ placed' \subseteq Models /\ cut' \subseteq Models
    <3>1. CASE Deletes(job.model)
      BY <2>1, <3>1, DeletesFacts DEF Types
    <3>2. CASE ~Deletes(job.model)
      <4>1. placed' \in {placed, placed \cup {job.model}}
            /\ cut' \in {cut, cut \cup {job.model}, cut \ {job.model}}
        BY <1>8, <3>2 DEF Discarding
      <4>2. part' = part \/ \E x \in {"none", "some", "all"} : part' = [part EXCEPT ![job.model] = x]
        BY <1>8, <3>2 DEF Discarding, Arrived
      <4> HIDE DEF Install
      <4> QED BY <2>1, <4>1, <4>2 DEF Types
    <3> QED BY <3>1, <3>2
  <2> HIDE DEF Install
  <2> QED BY <2>1, <2>2, <2>3, <2>4, <2>5 DEF Types
<1>9. CASE Finish
  BY <1>9 DEF Finish, At, Goto, Types, Places
<1>10. CASE Answer
  <2>1. answers' \in [1..MaxJobs -> Seq(Ended)]
    BY <1>10 DEF Answer, State, Types, Ended, At
  <2> QED BY <1>10, <2>1 DEF Answer, Fail, Goto, Types, Places
<1>11. ASSUME NEW u \in uninstalls, UninstallStep(u)
       PROVE  Types'
  <2>1. u \in Removal /\ u.model \in Models
    BY DEF Types, Removal
  <2>2. UNCHANGED <<queue, nextId, worker, job, err, unanswered, answers, active, pending, aborting,
                    phase, erasing, removals, look>>
    BY <1>11 DEF UninstallStep, UninstallDiscards, UninstallUnlinks, UninstallDeletes,
                 UninstallDisables, UninstallOnly
  <2>3. uninstalls' = uninstalls \ {u} \/
        \E there \in {"part", "weights", "files", "off"} :
            uninstalls' = (uninstalls \ {u}) \cup {[u EXCEPT !.at = there]}
    BY <1>11 DEF UninstallStep, UninstallDiscards, UninstallUnlinks, UninstallDeletes,
                 UninstallDisables, UninstallGoes, UninstallEnds
  <2>4. uninstalls' \subseteq Removal
    BY <2>1, <2>3 DEF Types, Removal
  <2>5. part' \in [Models -> {"none", "some", "all"}] /\ placed' \subseteq Models /\ cut' \subseteq Models
    <3>1. CASE Deletes(u.model)
      BY <2>1, <3>1, DeletesFacts DEF Types
    <3>2. CASE ~Deletes(u.model)
      BY <1>11, <3>2 DEF UninstallStep, UninstallDiscards, UninstallUnlinks, UninstallDeletes,
                         UninstallDisables, Types
    <3> QED BY <3>1, <3>2
  <2> QED BY <2>2, <2>4, <2>5 DEF Types
<1>12. CASE AbortAll \/ AbortSaves
  BY <1>12 DEF AbortAll, AbortSaves, Types, Phases
<1>13. CASE NextDiscard
  <2>1. aborting' \subseteq Item /\ phase' \in Phases /\ erasing' \in Models \cup {NoModel}
    BY <1>13 DEF NextDiscard, Types, Item, Phases
  <2> QED BY <1>13, <2>1 DEF NextDiscard, Types
<1>14. CASE DiscardStep
  <2>1. part' \in [Models -> {"none", "some", "all"}] /\ placed' \subseteq Models /\ cut' \subseteq Models
    <3>1. CASE Deletes(erasing)
      <4>1. erasing \in Models
        BY <1>14 DEF DiscardStep, Types
      <4> QED BY <3>1, <4>1, DeletesFacts DEF Types
    <3>2. CASE ~Deletes(erasing)
      BY <1>14, <3>2 DEF DiscardStep, Types
    <3> QED BY <3>1, <3>2
  <2>2. erasing' \in Models \cup {NoModel}
    BY <1>14 DEF DiscardStep, Types
  <2>3. UNCHANGED <<queue, nextId, worker, job, err, unanswered, answers, active, pending, aborting,
                    phase, uninstalls, removals, look>>
    BY <1>14 DEF DiscardStep
  <2> QED BY <2>1, <2>2, <2>3 DEF Types
<1>15. CASE Exit
  <2>1. <<>> \in Seq(Job) /\ [i \in 1..MaxJobs |-> <<>>] \in [1..MaxJobs -> Seq(Ended)]
    BY DEF Ended
  <2> QED BY <1>15, <2>1 DEF Exit, Types, Places, Phases
<1>16. CASE Start
  BY <1>16 DEF Start, StartOnly, Types, Phases
<1>17. CASE UNCHANGED vars
  BY <1>17 DEF vars, Types
<1> QED BY <1>1, <1>2, <1>3, <1>4, <1>5, <1>6, <1>7, <1>8, <1>9, <1>10, <1>11, <1>12, <1>13, <1>14,
           <1>15, <1>16, <1>17 DEF Next, WorkerStep

LEMMA QuietStep ==
    ASSUME Types, Quiet, [Next]_vars
    PROVE  Quiet'
<1> USE DownloadsAssumption
        DEF queueVars, fileVars, jobVars, abortVars, diskVars, removalVars, Types, Quiet
<1>1. ASSUME NEW m \in Models, Enqueue(m)
      PROVE  Quiet'
  BY <1>1 DEF Enqueue
<1>2. ASSUME NEW m \in Models, Uninstall(m)
      PROVE  Quiet'
  BY <1>2 DEF Uninstall
<1>3. ASSUME NEW m \in Models, LookSees(m) \/ LookAsks(m) \/ Adopt(m)
      PROVE  Quiet'
  BY <1>3 DEF LookSees, LookAsks, Adopt
<1>4. CASE StopCurrent \/ StopQueued
  BY <1>4 DEF StopCurrent, StopQueued
<1>5. ASSUME NEW j \in unanswered, AnswerStopped(j)
      PROVE  Quiet'
  BY <1>5 DEF AnswerStopped
<1>6. CASE WorkerStep
  <2>1. phase \notin {"down", "starting"}
        /\ UNCHANGED <<phase, erasing, uninstalls, removals, look>>
    BY <1>6 DEF WorkerStep, NextJob, Finish, Answer, Install, AlreadyInstalled, Begin, ClearOld,
                StartClean, Fetch, Check, Verify, Mark, Confirm, Complete, RevertDeletes, Revert,
                FailInstall, At, Discarding
  <2> QED BY <2>1
<1>7. ASSUME NEW u \in uninstalls, UninstallStep(u)
      PROVE  Quiet'
  <2>1. UNCHANGED <<phase, erasing, worker, removals, look>>
    BY <1>7 DEF UninstallStep, UninstallDiscards, UninstallUnlinks, UninstallDeletes,
                UninstallDisables, UninstallOnly
  <2>2. \/ uninstalls' = uninstalls \ {u}
        \/ \E there \in {"part", "weights", "files", "off"} :
               /\ uninstalls' = (uninstalls \ {u}) \cup {[u EXCEPT !.at = there]}
               /\ there \in {"part", "weights"} => u.at = "part"
    BY <1>7 DEF UninstallStep, UninstallDiscards, UninstallUnlinks, UninstallDeletes,
                UninstallDisables, UninstallGoes, UninstallEnds
  <2>3. u \in Removal
    OBVIOUS
  <2> QED BY <2>1, <2>2, <2>3 DEF Removal
<1>8. CASE AbortAll \/ AbortSaves
  BY <1>8 DEF AbortAll, AbortSaves
<1>9. CASE NextDiscard
  BY <1>9 DEF NextDiscard
<1>10. CASE DiscardStep
  BY <1>10 DEF DiscardStep
<1>11. CASE Exit
  BY <1>11 DEF Exit
<1>12. CASE Start
  BY <1>12 DEF Start, StartOnly
<1>13. CASE UNCHANGED vars
  BY <1>13 DEF vars
<1> QED BY <1>1, <1>2, <1>3, <1>4, <1>5, <1>6, <1>7, <1>8, <1>9, <1>10, <1>11, <1>12, <1>13 DEF Next

(* Whoever it is that deletes.                                                *)
LEMMA FilesDeleted ==
    ASSUME Types, FilesFit, NEW m \in Models, Deletes(m),
           UNCHANGED <<worker, job, pending, phase, aborting>>,
           erasing' = erasing \/ (erasing = m /\ part'[m] = "none")
    PROVE  FilesFit'
<1>1. /\ PartialsTracked' /\ InstalledIsComplete'
      /\ \A x \in InPlace \cap placed' : part'[x] # "none"
      /\ \A x \in Models : Settled(x) => Settled(x)'
      /\ \A x \in Models \ cut' : Loose(x)' => x \notin cut /\ Loose(x)
  BY DeletesKeeps
<1>2. worker \in Begun => Entry(job.model) \in pending
  BY DEF FilesFit
<1>3. worker' \in Done => Settled(job.model)'
  BY <1>1, JobFields DEF FilesFit, Types, Done
<1>4. \A x \in Models \ cut' : Loose(x)' => part'[x] # "none"
  BY DEF Loose, Debris
<1>5. worker' = "mark" => job'.model \in InPlace
  BY DEF FilesFit
<1>6. phase' = "up" => \A x \in Models \ cut' : Loose(x)' => x = job'.model /\ worker' \in Writing
  BY <1>1 DEF FilesFit
<1>7. phase' = "starting" => \A x \in Models \ cut' : Loose(x)' => Entry(x) \in aborting' \/ x = erasing'
  BY <1>1, <1>4 DEF FilesFit
<1>8. worker' = worker /\ job' = job /\ Entry(job.model)' = Entry(job.model)
  BY DEF Entry
<1>9. (worker \in Done => Settled(job.model))'
  BY <1>3, <1>8
<1> QED BY <1>1, <1>2, <1>5, <1>6, <1>7, <1>8, <1>9 DEF FilesFit, Entry

LEMMA FilesStep ==
    ASSUME Types, Quiet, FilesFit, [Next]_vars
    PROVE  FilesFit'
<1> USE DownloadsAssumption, JobFields
        DEF queueVars, fileVars, jobVars, abortVars, diskVars, removalVars, Types, Quiet
<1>1. ASSUME NEW m \in Models, Enqueue(m) \/ Uninstall(m) \/ LookSees(m) \/ LookAsks(m)
      PROVE  FilesFit'
  BY <1>1 DEF Enqueue, Uninstall, LookSees, LookAsks, FilesFit, PartialsTracked, InstalledIsComplete,
              Debris, Loose, Settled, Begun, Writing, Done
<1>2. ASSUME NEW m \in Models, Adopt(m)
      PROVE  FilesFit'
  BY <1>2 DEF Adopt, Adoptable, FilesFit, PartialsTracked, InstalledIsComplete,
              Debris, Loose, Settled, Begun, Writing, Done
<1>3. CASE StopCurrent \/ StopQueued
  BY <1>3 DEF StopCurrent, StopQueued, FilesFit, PartialsTracked, InstalledIsComplete,
              Debris, Loose, Settled
<1>4. ASSUME NEW j \in unanswered, AnswerStopped(j)
      PROVE  FilesFit'
  BY <1>4 DEF AnswerStopped, Fail, Entry, FilesFit, PartialsTracked, InstalledIsComplete,
              Debris, Loose, Settled
<1>5. CASE NextJob
  BY <1>5 DEF NextJob, Goto, At, FilesFit, PartialsTracked, InstalledIsComplete,
              Debris, Loose, Settled, Begun, Writing, Done
<1>6. CASE AlreadyInstalled
  BY <1>6 DEF AlreadyInstalled, IsInstalled, Adoptable, Goto, At, FilesFit, PartialsTracked,
              InstalledIsComplete, Debris, Loose, Settled, Begun, Writing, Done
<1>7. CASE Begin
  BY <1>7 DEF Begin, NotInstalled, Adoptable, Goto, At, Entry, FilesFit, PartialsTracked,
              InstalledIsComplete, Debris, Loose, Settled, Begun, Writing, Done
<1>8. CASE ClearOld
  <2>1. CASE At("clean") /\ Goto("cleaning") /\ UNCHANGED diskVars
    BY <1>8, <2>1 DEF ClearOld, Goto, At, FilesFit, PartialsTracked, InstalledIsComplete, Debris,
                      Loose, Settled, Begun, Writing, Done
  <2>2. CASE At("cleaning") /\ Deletes(job.model) /\ Goto("cleaning")
    <3>1. job.model \in Models /\ UNCHANGED <<worker, job, pending, phase, aborting, erasing>>
      BY <1>8, <2>2 DEF ClearOld, Goto, At
    <3> QED BY <2>2, <3>1, FilesDeleted
  <2> QED BY <1>8, <2>1, <2>2 DEF ClearOld, Discarding
<1>9. CASE StartClean
  BY <1>9 DEF StartClean, Kept, Raise, Goto, At, FilesFit, PartialsTracked,
              InstalledIsComplete, Debris, Loose, Settled, Begun, Writing, Done
<1>10. CASE Fetch
  BY <1>10 DEF Fetch, Arrived, Raise, Goto, At, FilesFit, PartialsTracked,
               InstalledIsComplete, Debris, Loose, Settled, Begun, Writing, Done
<1>11. CASE Check
  BY <1>11 DEF Check, Raise, Goto, At, FilesFit, PartialsTracked, InstalledIsComplete,
               Debris, Loose, Settled, Begun, Writing, Done
<1>12. CASE Verify
  <2>1. /\ worker = "verify" /\ job \in Job /\ Entry(job.model) \in pending
        /\ UNCHANGED <<job, pending, phase, aborting, erasing>>
    BY <1>12 DEF Verify, At, FilesFit, Begun, Writing
  <2>2. CASE UNCHANGED diskVars /\ worker' = "revert"
    BY <2>1, <2>2 DEF FilesFit, PartialsTracked, InstalledIsComplete,
                      Debris, Loose, Settled, Begun, Writing, Done
  <2>3. CASE /\ job.model \in InPlace /\ UNCHANGED <<part, placed>> /\ worker' = "mark"
             /\ cut' = IF part[job.model] = "all" THEN cut \ {job.model} ELSE cut
    BY <2>1, <2>3 DEF FilesFit, PartialsTracked, InstalledIsComplete,
                      Debris, Loose, Settled, Begun, Writing, Done
  <2>4. CASE /\ job.model \notin InPlace /\ part' = [part EXCEPT ![job.model] = "none"]
             /\ placed' = placed \cup {job.model} /\ cut' = cut \ {job.model} /\ worker' = "confirm"
    BY <2>1, <2>4 DEF FilesFit, PartialsTracked, InstalledIsComplete,
                      Debris, Loose, Settled, Begun, Writing, Done
  <2> QED BY <1>12, <2>2, <2>3, <2>4 DEF Verify, Raise, Goto
<1>13. CASE Mark
  BY <1>13 DEF Mark, Raise, Goto, At, FilesFit, PartialsTracked, InstalledIsComplete,
               Debris, Loose, Settled, Begun, Writing, Done
<1>14. CASE Confirm
  BY <1>14 DEF Confirm, IsInstalled, Adoptable, Raise, Goto, At, FilesFit, PartialsTracked,
               InstalledIsComplete, Debris, Loose, Settled, Begun, Writing, Done
<1>15. CASE Complete
  BY <1>15 DEF Complete, Fail, Entry, Goto, At, FilesFit, PartialsTracked, InstalledIsComplete,
               Debris, Loose, Settled, Begun, Writing, Done
<1>16. CASE RevertDeletes
  <2>1. CASE At("revert") /\ Goto("reverting") /\ UNCHANGED diskVars
    BY <1>16, <2>1 DEF RevertDeletes, Goto, At, FilesFit, PartialsTracked, InstalledIsComplete,
                       Debris, Loose, Settled, Begun, Writing, Done
  <2>2. CASE At("reverting") /\ Deletes(job.model) /\ Goto("reverting")
    <3>1. job.model \in Models /\ UNCHANGED <<worker, job, pending, phase, aborting, erasing>>
      BY <1>16, <2>2 DEF RevertDeletes, Goto, At
    <3> QED BY <2>2, <3>1, FilesDeleted
  <2> QED BY <1>16, <2>1, <2>2 DEF RevertDeletes, Discarding
<1>17. CASE Revert
  BY <1>17 DEF Revert, Kept, Goto, At, FilesFit, PartialsTracked, InstalledIsComplete,
               Debris, Loose, Settled, Begun, Writing, Done
<1>18. CASE FailInstall
  BY <1>18 DEF FailInstall, Fail, Entry, Goto, At, FilesFit, PartialsTracked, InstalledIsComplete,
               Debris, Loose, Settled, Begun, Writing, Done
<1>19. CASE Finish
  BY <1>19 DEF Finish, Goto, At, FilesFit, PartialsTracked, InstalledIsComplete,
               Debris, Loose, Settled, Begun, Writing, Done
<1>20. CASE Answer
  BY <1>20 DEF Answer, Fail, Entry, Goto, At, FilesFit, PartialsTracked, InstalledIsComplete,
               Debris, Loose, Settled, Begun, Writing, Done
<1>21. ASSUME NEW u \in uninstalls, UninstallStep(u)
       PROVE  FilesFit'
  <2>1. u.model \in Models /\ UNCHANGED <<worker, job, pending, phase, aborting, erasing>>
    BY <1>21 DEF UninstallStep, UninstallDiscards, UninstallUnlinks, UninstallDeletes,
                 UninstallDisables, UninstallOnly, Removal
  <2>2. CASE Deletes(u.model)
    BY <2>1, <2>2, FilesDeleted
  <2>3. CASE UNCHANGED diskVars
    BY <2>1, <2>3 DEF FilesFit, PartialsTracked, InstalledIsComplete, Debris, Loose, Settled
  <2>4. CASE u.model \notin InPlace /\ placed' = placed \ {u.model} /\ UNCHANGED <<part, cut>>
    BY <2>1, <2>4 DEF FilesFit, PartialsTracked, InstalledIsComplete, Debris, Loose, Settled
  <2> QED BY <1>21, <2>2, <2>3, <2>4 DEF UninstallStep, UninstallDiscards, UninstallUnlinks,
                UninstallDeletes, UninstallDisables
<1>22. CASE AbortAll
  BY <1>22 DEF AbortAll, FilesFit, PartialsTracked, InstalledIsComplete, Debris, Loose, Settled
<1>23. CASE AbortSaves
  BY <1>23 DEF AbortSaves, FilesFit, PartialsTracked, InstalledIsComplete, Debris, Loose, Settled
<1>24. CASE NextDiscard
  <2>1. /\ UNCHANGED <<worker, job, pending, diskVars>> /\ erasing = NoModel
        /\ phase \in {"discarding", "starting"}
    BY <1>24 DEF NextDiscard
  <2>2. CASE aborting = {}
    BY <1>24, <2>1, <2>2 DEF NextDiscard, FilesFit, PartialsTracked, InstalledIsComplete,
                             Debris, Loose, Settled
  <2>3. ASSUME NEW item \in aborting, aborting' = aborting \ {item}, phase' = phase,
               erasing' = IF Kept(item[2]) THEN NoModel ELSE item[2]
        PROVE  FilesFit'
    <3>1. \A m \in Models \ cut : Loose(m) /\ Entry(m) = item => erasing' = m
      BY <2>3 DEF Entry, Loose, Debris, Kept, FilesFit, InstalledIsComplete
    <3>2. phase = "starting" =>
              \A m \in Models \ cut : Loose(m) => Entry(m) \in aborting' \/ m = erasing'
      BY <2>1, <2>3, <3>1 DEF FilesFit
    <3> QED BY <2>1, <2>3, <3>2 DEF FilesFit, PartialsTracked, InstalledIsComplete,
                                    Debris, Loose, Settled
  <2> QED BY <1>24, <2>2, <2>3 DEF NextDiscard
<1>25. CASE DiscardStep
  <2>1. erasing \in Models /\ UNCHANGED <<worker, job, pending, phase, aborting>>
    BY <1>25 DEF DiscardStep
  <2>2. CASE Deletes(erasing) /\ erasing' = IF part'[erasing] = "none" THEN NoModel ELSE erasing
    <3>1. PICK m \in Models : m = erasing
      BY <2>1
    <3>2. Deletes(m) /\ (erasing' = erasing \/ (erasing = m /\ part'[m] = "none"))
      BY <2>2, <3>1
    <3> QED BY <2>1, <3>1, <3>2, FilesDeleted
  <2>3. CASE /\ erasing' = NoModel /\ UNCHANGED <<part, placed>>
             /\ cut' = IF phase = "starting" /\ part[erasing] # "none" THEN cut \cup {erasing} ELSE cut
    BY <2>1, <2>3 DEF FilesFit, PartialsTracked, InstalledIsComplete, Debris, Loose, Settled
  <2> QED BY <1>25, <2>2, <2>3 DEF DiscardStep
<1>26. CASE Exit
  BY <1>26 DEF Exit, FilesFit, PartialsTracked, InstalledIsComplete,
               Debris, Loose, Settled, Begun, Writing, Done
<1>27. CASE Start
  BY <1>27 DEF Start, StartOnly, FilesFit, PartialsTracked, InstalledIsComplete,
               Debris, Loose, Settled, Begun, Writing, Done
<1>28. CASE UNCHANGED vars
  BY <1>28 DEF vars, FilesFit, PartialsTracked, InstalledIsComplete, Debris, Loose, Settled
<1> QED BY <1>1, <1>2, <1>3, <1>4, <1>5, <1>6, <1>7, <1>8, <1>9, <1>10, <1>11, <1>12, <1>13,
           <1>14, <1>15, <1>16, <1>17, <1>18, <1>19, <1>20, <1>21, <1>22, <1>23, <1>24, <1>25,
           <1>26, <1>27, <1>28 DEF Next, WorkerStep, Install

LEMMA FlagsStep ==
    ASSUME Types, Quiet, FlagsFit, AnswersFit, [Next]_vars
    PROVE  FlagsFit'
<1> USE DownloadsAssumption
        DEF queueVars, fileVars, jobVars, abortVars, removalVars, Types, FlagsFit, CancelHasCause
<1>1. ASSUME NEW m \in Models,
             Enqueue(m) \/ Uninstall(m) \/ LookSees(m) \/ LookAsks(m) \/ Adopt(m)
      PROVE  FlagsFit'
  BY <1>1 DEF Enqueue, Uninstall, LookSees, LookAsks, Adopt
<1>2. CASE StopCurrent \/ StopQueued
  BY <1>2 DEF StopCurrent, StopQueued
<1>3. ASSUME NEW j \in unanswered, AnswerStopped(j)
      PROVE  FlagsFit'
  <2>1. j.id # job.id \/ err = "none"
    BY DEF AnswersFit
  <2> QED BY <1>3, <2>1 DEF AnswerStopped
<1>4. CASE NextJob
  BY <1>4 DEF NextJob, Goto, At, Quiet
<1>5. CASE AlreadyInstalled \/ Begin \/ ClearOld \/ Complete \/ RevertDeletes \/ Revert
           \/ FailInstall \/ Finish
  BY <1>5 DEF AlreadyInstalled, Begin, ClearOld, Complete, RevertDeletes, Revert, FailInstall, Finish,
              Discarding, Goto, At
<1>6. CASE StartClean \/ Fetch \/ Check
  BY <1>6 DEF StartClean, Fetch, Check, IsCancelled, Raise, Goto, At, Quiet
<1>7. CASE Verify \/ Mark \/ Confirm
  BY <1>7 DEF Verify, Mark, Confirm, Raise, Goto, At, Quiet
<1>8. CASE Answer
  BY <1>8 DEF Answer, Goto, At
<1>9. ASSUME NEW u \in uninstalls, UninstallStep(u)
      PROVE  FlagsFit'
  BY <1>9 DEF UninstallStep, UninstallDiscards, UninstallUnlinks, UninstallDeletes,
              UninstallDisables, UninstallOnly
<1>10. CASE AbortAll \/ AbortSaves
  BY <1>10 DEF AbortAll, AbortSaves
<1>11. CASE NextDiscard \/ DiscardStep
  BY <1>11 DEF NextDiscard, DiscardStep
<1>12. CASE Exit
  BY <1>12 DEF Exit
<1>13. CASE Start
  BY <1>13 DEF Start, StartOnly
<1>14. CASE UNCHANGED vars
  BY <1>14 DEF vars
<1> QED BY <1>1, <1>2, <1>3, <1>4, <1>5, <1>6, <1>7, <1>8, <1>9, <1>10, <1>11, <1>12, <1>13, <1>14
        DEF Next, WorkerStep, Install

LEMMA HonestStep ==
    ASSUME Types, Quiet, FilesFit, FlagsFit, HonestFit, [Next]_vars
    PROVE  HonestFit'
<1> USE DownloadsAssumption
        DEF queueVars, fileVars, jobVars, abortVars, diskVars, removalVars, Types, HonestFit
<1>1. ASSUME NEW m \in Models, Enqueue(m) \/ Uninstall(m)
      PROVE  HonestFit'
  BY <1>1 DEF Enqueue, Uninstall
<1>2. ASSUME NEW m \in Models, LookSees(m) \/ LookAsks(m) \/ Adopt(m)
      PROVE  HonestFit'
  BY <1>2 DEF LookSees, LookAsks, Adopt
<1>3. CASE StopCurrent \/ StopQueued
  BY <1>3 DEF StopCurrent, StopQueued
<1>4. ASSUME NEW j \in unanswered, AnswerStopped(j)
      PROVE  HonestFit'
  BY <1>4 DEF AnswerStopped, Fail, Entry
<1>5. CASE NextJob
  BY <1>5 DEF NextJob, Goto, At
<1>6. CASE AlreadyInstalled \/ Begin
  BY <1>6 DEF AlreadyInstalled, Begin, Goto, At
<1>7. CASE ClearOld \/ RevertDeletes
  BY <1>7 DEF ClearOld, RevertDeletes, Discarding, Goto, At
<1>8. CASE StartClean \/ Fetch \/ Check
  BY <1>8 DEF StartClean, Fetch, Check, Raise, Goto, At
<1>9. CASE Verify \/ Mark
  BY <1>9 DEF Verify, Mark, Raise, Goto, At
<1>10. CASE Confirm
  BY <1>10 DEF Confirm, Raise, Goto, At
<1>11. CASE Complete
  BY <1>11 DEF Complete, Fail, Goto, At
<1>12. CASE Revert \/ FailInstall
  BY <1>12 DEF Revert, FailInstall, Goto, At
<1>13. CASE Finish
  BY <1>13 DEF Finish, Goto, At
<1>14. CASE Answer
  BY <1>14 DEF Answer, Goto, At
<1>15. ASSUME NEW u \in uninstalls, UninstallStep(u)
       PROVE  HonestFit'
  <2>1. UNCHANGED <<worker, err, job, pending, phase, removals>> /\ removals # 0
    BY <1>15 DEF UninstallStep, UninstallDiscards, UninstallUnlinks, UninstallDeletes,
                 UninstallDisables, UninstallOnly, Quiet
  <2> QED BY <2>1
<1>16. CASE AbortAll \/ AbortSaves
  BY <1>16 DEF AbortAll, AbortSaves
<1>17. CASE NextDiscard \/ DiscardStep
  BY <1>17 DEF NextDiscard, DiscardStep, Quiet
<1>18. CASE Exit
  BY <1>18 DEF Exit
<1>19. CASE Start
  BY <1>19 DEF Start, StartOnly
<1>20. CASE UNCHANGED vars
  BY <1>20 DEF vars
<1> QED BY <1>1, <1>2, <1>3, <1>4, <1>5, <1>6, <1>7, <1>8, <1>9, <1>10, <1>11, <1>12, <1>13,
           <1>14, <1>15, <1>16, <1>17, <1>18, <1>19, <1>20 DEF Next, WorkerStep, Install

(* Sequences of jobs: one more at the end, without the first, without the     *)
(* i-th.                                                                      *)
LEMMA JobAppended ==
    ASSUME NEW s \in Seq(Job), NEW j \in Job
    PROVE  /\ Append(s, j) \in Seq(Job)
           /\ \A a \in DOMAIN Append(s, j) :
                 \/ a \in DOMAIN s /\ Append(s, j)[a] = s[a] /\ a <= Len(s)
                 \/ Append(s, j)[a] = j /\ a = Len(s) + 1
  OBVIOUS

LEMMA JobTaken ==
    ASSUME NEW s \in Seq(Job), s # <<>>
    PROVE  /\ Tail(s) \in Seq(Job) /\ Head(s) \in Job
           /\ 1 \in DOMAIN s /\ Head(s) = s[1]
           /\ \A a \in DOMAIN Tail(s) :
                 a \in Nat /\ a + 1 \in DOMAIN s /\ Tail(s)[a] = s[a + 1] /\ a + 1 # 1
  <1>1. Len(s) \in Nat /\ Len(s) >= 1 /\ DOMAIN s = 1..Len(s)
    OBVIOUS
  <1>2. Len(Tail(s)) = Len(s) - 1 /\ DOMAIN Tail(s) = 1..Len(Tail(s)) /\ Tail(s) \in Seq(Job)
    OBVIOUS
  <1>3. \A a \in 1..(Len(s) - 1) : Tail(s)[a] = s[a + 1]
    OBVIOUS
  <1> QED BY <1>1, <1>2, <1>3

LEMMA JobsJoined ==
    ASSUME NEW f \in Seq(Job), NEW r \in Seq(Job)
    PROVE  f \o r \in Seq(Job) /\ Len(f \o r) = Len(f) + Len(r)
  OBVIOUS

LEMMA JobRemoved ==
    ASSUME NEW s \in Seq(Job), NEW i \in DOMAIN s
    PROVE  /\ RemoveAt(s, i) \in Seq(Job)
           /\ \A a \in DOMAIN RemoveAt(s, i) : \E b \in DOMAIN s :
                 /\ b # i /\ RemoveAt(s, i)[a] = s[b]
                 /\ a \in Nat /\ b = (IF a < i THEN a ELSE a + 1)
<1>1. /\ Len(s) \in Nat /\ i \in 1..Len(s) /\ DOMAIN s = 1..Len(s)
  OBVIOUS
<1> DEFINE front == SubSeq(s, 1, i - 1)
           rest == SubSeq(s, i + 1, Len(s))
<1>2. /\ front \in Seq(Job) /\ Len(front) = i - 1
      /\ \A a \in 1..(i - 1) : front[a] = s[a]
  BY <1>1
<1>3. /\ rest \in Seq(Job) /\ Len(rest) = Len(s) - i
      /\ \A a \in 1..(Len(s) - i) : rest[a] = s[a + i]
  BY <1>1
<1>4. RemoveAt(s, i) = front \o rest
  BY DEF RemoveAt
<1> HIDE DEF front, rest
<1>5. /\ front \o rest \in Seq(Job) /\ DOMAIN (front \o rest) = 1..(Len(s) - 1)
  <2>1. front \o rest \in Seq(Job) /\ Len(front \o rest) = Len(front) + Len(rest)
    BY <1>2, <1>3, JobsJoined
  <2>2. Len(front) + Len(rest) = Len(s) - 1
    BY <1>1, <1>2, <1>3
  <2>3. DOMAIN (front \o rest) = 1..Len(front \o rest)
    BY <2>1
  <2> QED BY <2>1, <2>2, <2>3
<1>6. \A a \in 1..(Len(s) - 1) :
         (front \o rest)[a] = IF a < i THEN front[a] ELSE rest[a - (i - 1)]
  BY <1>1, <1>2, <1>3
<1>7. \A a \in 1..(Len(s) - 1) :
         (front \o rest)[a] = s[IF a < i THEN a ELSE a + 1]
  <2> SUFFICES ASSUME NEW a \in 1..(Len(s) - 1)
               PROVE  (front \o rest)[a] = s[IF a < i THEN a ELSE a + 1]
    OBVIOUS
  <2>1. CASE a < i
    BY <1>1, <1>2, <1>6, <2>1
  <2>2. CASE ~(a < i)
    <3>1. a - (i - 1) \in 1..(Len(s) - i) /\ (a - (i - 1)) + i = a + 1
      BY <1>1, <2>2
    <3>2. rest[a - (i - 1)] = s[(a - (i - 1)) + i]
      BY <1>3, <3>1
    <3>3. (front \o rest)[a] = rest[a - (i - 1)]
      BY <1>6, <2>2
    <3> QED BY <2>2, <3>1, <3>2, <3>3
  <2> QED BY <2>1, <2>2
<1>8. \A a \in 1..(Len(s) - 1) : (IF a < i THEN a ELSE a + 1) \in 1..Len(s) \ {i}
  BY <1>1
<1>9. \A a \in 1..(Len(s) - 1) : \E b \in DOMAIN s :
         /\ b # i /\ (front \o rest)[a] = s[b]
         /\ a \in Nat /\ b = (IF a < i THEN a ELSE a + 1)
  <2> SUFFICES ASSUME NEW a \in 1..(Len(s) - 1)
               PROVE  \E b \in DOMAIN s :
                         /\ b # i /\ (front \o rest)[a] = s[b]
                         /\ a \in Nat /\ b = (IF a < i THEN a ELSE a + 1)
    OBVIOUS
  <2> DEFINE b == IF a < i THEN a ELSE a + 1
  <2>1. b \in DOMAIN s /\ b # i
    BY <1>1, <1>8
  <2>2. (front \o rest)[a] = s[b]
    BY <1>7
  <2>3. a \in Nat
    BY <1>1
  <2> QED BY <2>1, <2>2, <2>3
<1> QED BY <1>4, <1>5, <1>9

(* What AnswersFit says, spread out for the provers.                          *)
LEMMA AnswersFacts ==
    ASSUME Types, AnswersFit
    PROVE  /\ queue \in Seq(Job) /\ nextId \in Nat
           /\ \A a \in DOMAIN queue : /\ a \in Nat /\ queue[a] \in Job /\ queue[a].id \in 1..MaxJobs
                                      /\ queue[a].id < nextId /\ answers[queue[a].id] = <<>>
           /\ \A a, c \in DOMAIN queue : queue[a].id = queue[c].id => a = c
           /\ \A u \in unanswered : /\ u.id \in 1..MaxJobs /\ u.id < nextId /\ answers[u.id] = <<>>
                                    /\ \A a \in DOMAIN queue : queue[a].id # u.id
           /\ \A u, v \in unanswered : u.id = v.id => u = v
           /\ worker \notin {"none", "loop"} =>
                 /\ job.id \in 1..MaxJobs /\ job.id < nextId /\ answers[job.id] = <<>>
                 /\ \A a \in DOMAIN queue : queue[a].id # job.id
                 /\ \A u \in unanswered : u.id # job.id
           /\ \A n \in 1..MaxJobs : n \in Nat /\ (n >= nextId => answers[n] = <<>>) /\ Len(answers[n]) <= 1
  <1> USE DownloadsAssumption, JobFields DEF Types, AnswersFit, AnsweredOnce
  <1>1. queue \in Seq(Job) /\ nextId \in Nat /\ \A a \in DOMAIN queue : a \in Nat /\ queue[a] \in Job
    OBVIOUS
  <1> QED BY <1>1

(* One job more in answers: the others keep theirs.                           *)
LEMMA OneMoreAnswer ==
    ASSUME Types, AnswersFit, NEW n \in 1..MaxJobs, n < nextId, answers[n] = <<>>,
           NEW state, answers' = [answers EXCEPT ![n] = Append(@, state)], nextId' = nextId
    PROVE  /\ \A k \in 1..MaxJobs : k # n => answers'[k] = answers[k]
           /\ \A k \in 1..MaxJobs : (k >= nextId' => answers'[k] = <<>>) /\ Len(answers'[k]) <= 1
<1>1. Len(answers'[n]) = 1
  BY DEF Types
<1>2. \A k \in 1..MaxJobs : k # n => answers'[k] = answers[k]
  BY DEF Types
<1>3. n \in Nat /\ nextId \in Nat /\ \A k \in 1..MaxJobs : k \in Nat
  BY JobFields DEF Types
<1>4. \A k \in 1..MaxJobs : (k >= nextId => answers[k] = <<>>) /\ Len(answers[k]) <= 1
  BY DEF AnswersFit, AnsweredOnce
<1> QED BY <1>1, <1>2, <1>3, <1>4

LEMMA AnswersStep ==
    ASSUME Types, AnswersFit, [Next]_vars
    PROVE  AnswersFit'
<1> USE DEF queueVars, fileVars, jobVars, abortVars, removalVars
<1>1. ASSUME NEW m \in Models, Enqueue(m)
      PROVE  AnswersFit'
  <2> DEFINE j == [id |-> nextId, model |-> m]
  <2>1. /\ queue' = Append(queue, j) /\ nextId' = nextId + 1 /\ nextId <= MaxJobs
        /\ UNCHANGED <<job, unanswered, answers>>
        /\ worker' \in {worker, "loop"}
    BY <1>1 DEF Enqueue
  <2>2. nextId \in 1..MaxJobs
    BY <2>1, JobFields DEF Types
  <2>3. j \in Job /\ j.id = nextId
    BY <2>2 DEF Job
  <2>4. answers[nextId] = <<>>
    BY <2>2, AnswersFacts
  <2> HIDE DEF j
  <2>5. \A a \in DOMAIN queue' : \/ a \in DOMAIN queue /\ queue'[a] = queue[a]
                                 \/ queue'[a] = j /\ a = Len(queue) + 1
    BY <2>1, <2>3, AnswersFacts, JobAppended
  <2>6. \A a \in DOMAIN queue' : queue'[a].id < nextId' /\ answers'[queue'[a].id] = <<>>
    BY <2>1, <2>3, <2>4, <2>5, AnswersFacts
  <2>7. \A a, c \in DOMAIN queue' : queue'[a].id = queue'[c].id => a = c
    BY <2>3, <2>5, AnswersFacts
  <2>8. \A u \in unanswered' : /\ u.id < nextId' /\ answers'[u.id] = <<>>
                               /\ \A a \in DOMAIN queue' : queue'[a].id # u.id
    BY <2>1, <2>3, <2>5, AnswersFacts
  <2>9. worker' \notin {"none", "loop"} =>
           /\ job'.id < nextId' /\ answers'[job'.id] = <<>>
           /\ \A a \in DOMAIN queue' : queue'[a].id # job'.id
           /\ \A u \in unanswered' : u.id # job'.id
    BY <2>1, <2>3, <2>5, AnswersFacts
  <2>10. \A n \in 1..MaxJobs : (n >= nextId' => answers'[n] = <<>>) /\ Len(answers'[n]) <= 1
    BY <2>1, AnswersFacts
  <2>11. \A u, v \in unanswered' : u.id = v.id => u = v
    BY <2>1, AnswersFacts
  <2> QED BY <2>6, <2>7, <2>8, <2>9, <2>10, <2>11 DEF AnswersFit, AnsweredOnce
<1>2. ASSUME NEW m \in Models, Uninstall(m) \/ LookSees(m) \/ LookAsks(m) \/ Adopt(m)
      PROVE  AnswersFit'
  BY <1>2 DEF Uninstall, LookSees, LookAsks, Adopt, AnswersFit, AnsweredOnce
<1>3. CASE StopCurrent
  BY <1>3 DEF StopCurrent, AnswersFit, AnsweredOnce
<1>4. CASE StopQueued
  <2>1. PICK i \in DOMAIN queue : queue' = RemoveAt(queue, i) /\ unanswered' = unanswered \cup {queue[i]}
    BY <1>4 DEF StopQueued
  <2>2. UNCHANGED <<nextId, worker, job, answers>>
    BY <1>4 DEF StopQueued
  <2>3. \A a \in DOMAIN queue' :
           \E b \in DOMAIN queue : /\ b # i /\ queue'[a] = queue[b]
                                   /\ a \in Nat /\ b = (IF a < i THEN a ELSE a + 1)
    BY <2>1, JobRemoved, AnswersFacts
  <2>4. \A a \in DOMAIN queue' : queue'[a].id < nextId' /\ answers'[queue'[a].id] = <<>>
    BY <2>2, <2>3, AnswersFacts
  <2>5. \A a, c \in DOMAIN queue' : queue'[a].id = queue'[c].id => a = c
    <3> SUFFICES ASSUME NEW a \in DOMAIN queue', NEW c \in DOMAIN queue', queue'[a].id = queue'[c].id
                 PROVE  a = c
      OBVIOUS
    <3>1. PICK b \in DOMAIN queue : /\ queue'[a] = queue[b] /\ b # i
                                    /\ a \in Nat /\ b = (IF a < i THEN a ELSE a + 1)
      BY <2>3
    <3>2. PICK d \in DOMAIN queue : /\ queue'[c] = queue[d] /\ d # i
                                    /\ c \in Nat /\ d = (IF c < i THEN c ELSE c + 1)
      BY <2>3
    <3>3. b = d
      BY <3>1, <3>2, AnswersFacts
    <3>4. i \in Nat
      BY AnswersFacts
    <3> QED BY <3>1, <3>2, <3>3, <3>4
  <2>6. \A u \in unanswered' :
           /\ u.id < nextId' /\ answers'[u.id] = <<>>
           /\ \A a \in DOMAIN queue' : queue'[a].id # u.id
    BY <2>1, <2>2, <2>3, AnswersFacts
  <2>7. \A u, v \in unanswered' : u.id = v.id => u = v
    BY <2>1, AnswersFacts
  <2>8. worker' \notin {"none", "loop"} =>
           /\ job'.id < nextId' /\ answers'[job'.id] = <<>>
           /\ \A a \in DOMAIN queue' : queue'[a].id # job'.id
           /\ \A u \in unanswered' : u.id # job'.id
    BY <2>1, <2>2, <2>3, AnswersFacts
  <2>9. \A n \in 1..MaxJobs : (n >= nextId' => answers'[n] = <<>>) /\ Len(answers'[n]) <= 1
    BY <2>2, AnswersFacts
  <2> QED BY <2>4, <2>5, <2>6, <2>7, <2>8, <2>9 DEF AnswersFit, AnsweredOnce
<1>5. ASSUME NEW j \in unanswered, AnswerStopped(j)
      PROVE  AnswersFit'
  <2>1. /\ unanswered' = unanswered \ {j} /\ answers' = [answers EXCEPT ![j.id] = Append(@, "cancelled")]
        /\ UNCHANGED <<queue, nextId, worker, job>>
    BY <1>5 DEF AnswerStopped
  <2>2. /\ j.id \in 1..MaxJobs /\ j.id < nextId /\ answers[j.id] = <<>>
    BY AnswersFacts
  <2>3. /\ \A k \in 1..MaxJobs : k # j.id => answers'[k] = answers[k]
        /\ \A k \in 1..MaxJobs : (k >= nextId' => answers'[k] = <<>>) /\ Len(answers'[k]) <= 1
    BY <2>1, <2>2, OneMoreAnswer
  <2>4. \A a \in DOMAIN queue' : queue'[a].id < nextId' /\ answers'[queue'[a].id] = <<>>
    BY <2>1, <2>3, AnswersFacts
  <2>5. \A u \in unanswered' : /\ u.id < nextId' /\ answers'[u.id] = <<>>
                               /\ \A a \in DOMAIN queue' : queue'[a].id # u.id
    <3> SUFFICES ASSUME NEW u \in unanswered'
                 PROVE  /\ u.id < nextId' /\ answers'[u.id] = <<>>
                        /\ \A a \in DOMAIN queue' : queue'[a].id # u.id
      OBVIOUS
    <3>1. u \in unanswered /\ u # j
      BY <2>1
    <3>2. u.id # j.id
      BY <3>1, AnswersFacts
    <3> QED BY <2>1, <2>3, <3>1, <3>2, AnswersFacts
  <2>6. worker' \notin {"none", "loop"} =>
           /\ job'.id < nextId' /\ answers'[job'.id] = <<>>
           /\ \A a \in DOMAIN queue' : queue'[a].id # job'.id
           /\ \A u \in unanswered' : u.id # job'.id
    BY <2>1, <2>3, AnswersFacts
  <2>7. /\ \A u, v \in unanswered' : u.id = v.id => u = v
        /\ \A a, c \in DOMAIN queue' : queue'[a].id = queue'[c].id => a = c
    BY <2>1, AnswersFacts
  <2> QED BY <2>3, <2>4, <2>5, <2>6, <2>7 DEF AnswersFit, AnsweredOnce
<1>6. CASE NextJob
  <2>1. CASE queue = <<>>
    BY <1>6, <2>1 DEF NextJob, Goto, AnswersFit, AnsweredOnce
  <2>2. CASE queue # <<>>
    <3>1. /\ job' = Head(queue) /\ queue' = Tail(queue) /\ worker' = "begin"
          /\ UNCHANGED <<nextId, unanswered, answers>>
      BY <1>6, <2>2 DEF NextJob, Goto
    <3>2. /\ 1 \in DOMAIN queue /\ job' = queue[1]
          /\ \A a \in DOMAIN queue' :
                a \in Nat /\ a + 1 \in DOMAIN queue /\ queue'[a] = queue[a + 1] /\ a + 1 # 1
      BY <2>2, <3>1, JobTaken, AnswersFacts
    <3>3. /\ job'.id < nextId' /\ answers'[job'.id] = <<>>
          /\ \A u \in unanswered' : u.id # job'.id
      BY <3>1, <3>2, AnswersFacts
    <3>4. \A a \in DOMAIN queue' : queue'[a].id < nextId' /\ answers'[queue'[a].id] = <<>>
      BY <3>1, <3>2, AnswersFacts
    <3>5. \A a \in DOMAIN queue' : queue'[a].id # job'.id
      BY <3>1, <3>2, AnswersFacts
    <3>6. \A a, c \in DOMAIN queue' : queue'[a].id = queue'[c].id => a = c
      <4> SUFFICES ASSUME NEW a \in DOMAIN queue', NEW c \in DOMAIN queue', queue'[a].id = queue'[c].id
                   PROVE  a = c
        OBVIOUS
      <4>1. a + 1 = c + 1
        BY <3>2, AnswersFacts
      <4>2. a \in Nat /\ c \in Nat
        BY <3>2
      <4> QED BY <4>1, <4>2
    <3>7. \A u \in unanswered' : /\ u.id < nextId' /\ answers'[u.id] = <<>>
                                 /\ \A a \in DOMAIN queue' : queue'[a].id # u.id
      BY <3>1, <3>2, AnswersFacts
    <3>8. /\ \A n \in 1..MaxJobs : (n >= nextId' => answers'[n] = <<>>) /\ Len(answers'[n]) <= 1
          /\ \A u, v \in unanswered' : u.id = v.id => u = v
      BY <3>1, AnswersFacts
    <3> QED BY <3>3, <3>4, <3>5, <3>6, <3>7, <3>8 DEF AnswersFit, AnsweredOnce
  <2> QED BY <2>1, <2>2
<1>7. CASE Install
  <2>1. /\ UNCHANGED <<queue, nextId, job, unanswered, answers>>
        /\ worker \notin {"none", "loop"}
    BY <1>7 DEF Install, AlreadyInstalled, Begin, ClearOld, StartClean, Fetch, Check, Verify, Mark,
                Confirm, Complete, RevertDeletes, Revert, FailInstall, Discarding, At
  <2> QED BY <2>1 DEF AnswersFit, AnsweredOnce
<1>8. CASE Finish
  BY <1>8 DEF Finish, At, AnswersFit, AnsweredOnce
<1>9. CASE Answer
  <2>1. /\ answers' = [answers EXCEPT ![job.id] = Append(@, State)] /\ worker' = "loop"
        /\ UNCHANGED <<queue, nextId, unanswered>>
        /\ worker = "answer"
    BY <1>9 DEF Answer, Goto, At
  <2>2. /\ job.id \in 1..MaxJobs /\ job.id < nextId /\ answers[job.id] = <<>>
        /\ \A a \in DOMAIN queue : queue[a].id # job.id
        /\ \A u \in unanswered : u.id # job.id
    BY <2>1, AnswersFacts
  <2>3. /\ \A k \in 1..MaxJobs : k # job.id => answers'[k] = answers[k]
        /\ \A k \in 1..MaxJobs : (k >= nextId' => answers'[k] = <<>>) /\ Len(answers'[k]) <= 1
    BY <2>1, <2>2, OneMoreAnswer
  <2>4. \A u \in unanswered' : /\ u.id < nextId' /\ answers'[u.id] = <<>>
                               /\ \A a \in DOMAIN queue' : queue'[a].id # u.id
    BY <2>1, <2>2, <2>3, AnswersFacts
  <2>5. \A a \in DOMAIN queue' : queue'[a].id < nextId' /\ answers'[queue'[a].id] = <<>>
    BY <2>1, <2>2, <2>3, AnswersFacts
  <2>6. /\ \A u, v \in unanswered' : u.id = v.id => u = v
        /\ \A a, c \in DOMAIN queue' : queue'[a].id = queue'[c].id => a = c
    BY <2>1, AnswersFacts
  <2> QED BY <2>1, <2>3, <2>4, <2>5, <2>6 DEF AnswersFit, AnsweredOnce
<1>10. CASE AbortAll \/ AbortSaves \/ NextDiscard \/ DiscardStep \/ Start
  BY <1>10 DEF AbortAll, AbortSaves, NextDiscard, DiscardStep, Start, StartOnly, AnswersFit, AnsweredOnce
<1>11. CASE Exit
  BY <1>11, JobFields DEF Exit, AnswersFit, AnsweredOnce
<1>12. ASSUME NEW u \in uninstalls, UninstallStep(u)
       PROVE  AnswersFit'
  BY <1>12 DEF UninstallStep, UninstallDiscards, UninstallUnlinks, UninstallDeletes,
               UninstallDisables, UninstallOnly, AnswersFit, AnsweredOnce
<1>13. CASE UNCHANGED vars
  BY <1>13 DEF vars, AnswersFit, AnsweredOnce
<1> QED BY <1>1, <1>2, <1>3, <1>4, <1>5, <1>6, <1>7, <1>8, <1>9, <1>10, <1>11, <1>12, <1>13
        DEF Next, WorkerStep

-----------------------------------------------------------------------------
LEMMA IInvInit == Init => IInv
<1> SUFFICES ASSUME Init PROVE IInv
  OBVIOUS
<1> USE DownloadsAssumption DEF Init
<1>1. Types
  <2>1. pending \subseteq Item
    BY DEF Seeds, Entry, Item
  <2>2. part \in [Models -> {"none", "some", "all"}]
    BY DEF Snapshots
  <2>3. queue \in Seq(Job) /\ answers \in [1..MaxJobs -> Seq(Ended)] /\ nextId \in 1..(MaxJobs + 1)
    BY DEF Ended
  <2> QED BY <2>1, <2>2, <2>3 DEF Types, Places, Phases
<1>2. Quiet /\ FilesFit
  BY DEF Quiet, FilesFit, PartialsTracked, InstalledIsComplete, Debris, Snapshots, Begun, Writing, Done
<1>3. FlagsFit /\ HonestFit
  BY DEF FlagsFit, CancelHasCause, HonestFit
<1>4. AnswersFit
  BY DEF AnswersFit, AnsweredOnce
<1> QED BY <1>1, <1>2, <1>3, <1>4 DEF IInv

LEMMA Inductive == Spec => []IInv
<1>1. IInv /\ [Next]_vars => IInv'
  BY TypesStep, QuietStep, FilesStep, FlagsStep, HonestStep, AnswersStep DEF IInv
<1> QED BY IInvInit, <1>1, PTL DEF Spec

(* Whenever the process is killed, between two files of a deletion as well,   *)
(* every half-downloaded model has an entry in pending_model_downloads.json,  *)
(* by which prepare_restart_pending finds it.  Only one whose deletion went   *)
(* wrong, or that an uninstall or a shutdown deletes when it was complete,    *)
(* has none.                                                                  *)
THEOREM DebrisHasEntry == Spec => []PartialsTracked
<1>1. IInv => PartialsTracked
  BY DEF IInv, FilesFit
<1> QED BY <1>1, Inductive, PTL

(* Between two installs no half-downloaded model is on disk, whatever ended   *)
(* the last one: success, failure, a stop, a shutdown, a kill or an uninstall *)
(* of its files; with the same exceptions.                                    *)
THEOREM NoDebrisAtRest == Spec => []CleanWhenIdle
<1>1. IInv => CleanWhenIdle
  BY DEF IInv, FilesFit, CleanWhenIdle, Loose, Writing
<1> QED BY <1>1, Inductive, PTL

(* is_model_installed never takes an incomplete snapshot for an installed     *)
(* model, neither by its marker nor by adopting it: unless a deletion has cut *)
(* it short, or a late look put the marker into a download that had begun     *)
(* after the pending file was asked.                                          *)
THEOREM MarkedIsComplete == Spec => []InstalledIsComplete
<1>1. IInv => InstalledIsComplete
  BY DEF IInv, FilesFit
<1> QED BY <1>1, Inductive, PTL

(* No cancel flag of an earlier shutdown or kill stops an install.            *)
THEOREM NoStaleCancel == Spec => []CancelHasCause
<1>1. IInv => CancelHasCause
  BY DEF IInv, FlagsFit
<1> QED BY <1>1, Inductive, PTL

(* on_done reports "completed" only of a model that is installed, switched on *)
(* and no longer pending.                                                     *)
THEOREM CompletedIsInstalled == Spec => []HonestCompletion
<1>1. IInv => HonestCompletion
  BY DEF IInv, HonestFit, HonestCompletion
<1> QED BY <1>1, Inductive, PTL

(* stop_job and the worker thread never answer one job twice.                 *)
THEOREM OneAnswer == Spec => []AnsweredOnce
<1>1. IInv => AnsweredOnce
  BY DEF IInv, AnswersFit
<1> QED BY <1>1, Inductive, PTL
-----------------------------------------------------------------------------
(* The types that the arguments above do not need.                            *)

RestTypes ==
    /\ current \in Job \cup {NoJob} /\ lost \in BOOLEAN
    /\ stopped \subseteq 1..MaxJobs
    /\ history \in Seq([id : 1..MaxJobs, state : Ended]) /\ Len(history) <= HistoryLimit
    /\ cancelled \in BOOLEAN /\ flag \in BOOLEAN
    /\ enabled \subseteq Models
    /\ starts \in 0..MaxStarts /\ removals \in 0..MaxRemovals

(* What Remember leaves of the list.                                          *)
LEMMA Remembered ==
    ASSUME history \in Seq([id : 1..MaxJobs, state : Ended]), Len(history) <= HistoryLimit,
           NEW j \in Job, NEW state \in Ended, Remember(j, state)
    PROVE  /\ history' \in Seq([id : 1..MaxJobs, state : Ended])
           /\ Len(history') <= HistoryLimit
<1> DEFINE R == [id : 1..MaxJobs, state : Ended]
           new == [id |-> j.id, state |-> state]
           n == IF Len(history) < HistoryLimit THEN Len(history) + 1 ELSE HistoryLimit
<1>1. new \in R /\ HistoryLimit \in Nat
  BY JobFields, DownloadsAssumption
<1>2. <<new>> \o history \in Seq(R) /\ Len(<<new>> \o history) = Len(history) + 1
  BY <1>1
<1>3. n \in 0..Len(<<new>> \o history) /\ n <= HistoryLimit
  BY <1>1, <1>2
<1>4. history' = SubSeq(<<new>> \o history, 1, n)
  BY DEF Remember
<1> HIDE DEF n, new, R
<1>6. \A i \in 1..n : (<<new>> \o history)[i] \in R
  BY <1>2, <1>3
<1>5. SubSeq(<<new>> \o history, 1, n) \in Seq(R) /\ Len(SubSeq(<<new>> \o history, 1, n)) = n
  BY <1>3, <1>6, SubSeqProperties
<1> QED BY <1>3, <1>4, <1>5 DEF R

(* The cases are the actions, grouped by what they change.                    *)
LEMMA RestStep ==
    ASSUME Types, RestTypes, [Next]_vars
    PROVE  RestTypes'
<1> USE DownloadsAssumption, JobFields
        DEF queueVars, fileVars, jobVars, abortVars, diskVars, removalVars
<1>1. ASSUME NEW m \in Models, Enqueue(m) \/ LookSees(m) \/ LookAsks(m) \/ Adopt(m)
      PROVE  RestTypes'
  BY <1>1 DEF Enqueue, LookSees, LookAsks, Adopt, RestTypes
<1>2. ASSUME NEW m \in Models, Uninstall(m)
      PROVE  RestTypes'
  <2>1. removals' \in 0..MaxRemovals
    BY <1>2 DEF Uninstall, RestTypes
  <2> QED BY <1>2, <2>1 DEF Uninstall, RestTypes
<1>3. CASE StopCurrent
  <2>1. current \in Job
    BY <1>3 DEF StopCurrent, RestTypes
  <2> QED BY <1>3, <2>1 DEF StopCurrent, RestTypes
<1>4. CASE StopQueued
  <2>1. PICK i \in DOMAIN queue : stopped' = stopped \cup {queue[i].id} /\ Remember(queue[i], "cancelled")
    BY <1>4 DEF StopQueued
  <2>2. queue[i] \in Job
    BY <2>1 DEF Types
  <2>3. history' \in Seq([id : 1..MaxJobs, state : Ended]) /\ Len(history') <= HistoryLimit
    BY <2>1, <2>2, Remembered DEF RestTypes, Ended
  <2>4. stopped' \subseteq 1..MaxJobs
    BY <2>1, <2>2 DEF RestTypes
  <2> QED BY <1>4, <2>3, <2>4 DEF StopQueued, RestTypes
<1>5. ASSUME NEW j \in unanswered, AnswerStopped(j)
      PROVE  RestTypes'
  BY <1>5 DEF AnswerStopped, RestTypes
<1>6. CASE NextJob
  <2>1. current' \in Job \cup {NoJob}
    <3>1. CASE queue = <<>>
      BY <1>6, <3>1 DEF NextJob
    <3>2. CASE queue # <<>>
      <4>1. Head(queue) \in Job
        BY <3>2 DEF Types
      <4> QED BY <1>6, <3>2, <4>1 DEF NextJob
    <3> QED BY <3>1, <3>2
  <2> QED BY <1>6, <2>1 DEF NextJob, RestTypes
<1>7. CASE Install
  <2> USE DEF Install, AlreadyInstalled, Begin, ClearOld, StartClean, Fetch, Check, Verify, Mark,
              Confirm, Complete, RevertDeletes, Revert, FailInstall
  <2>1. job \in Job
    BY <1>7 DEF At, Discarding, Types
  <2>2. UNCHANGED <<current, stopped, history, cancelled, flag, starts, removals>>
    BY <1>7
  <2>3. enabled' \subseteq enabled \cup {job.model}
    BY <1>7
  <2>4. lost' = lost \/ lost' = (lost /\ worker' = "fetch")
    BY <1>7
  <2>5. lost' \in BOOLEAN
    BY <2>4 DEF RestTypes
  <2> HIDE DEF Install
  <2> QED BY <2>1, <2>2, <2>3, <2>5 DEF RestTypes
<1>8. CASE Finish
  <2>1. job \in Job /\ State \in Ended
    BY <1>8 DEF Finish, At, Types, State, Ended
  <2>2. history' \in Seq([id : 1..MaxJobs, state : Ended]) /\ Len(history') <= HistoryLimit
    BY <1>8, <2>1, Remembered DEF Finish, RestTypes
  <2> QED BY <1>8, <2>2 DEF Finish, RestTypes
<1>9. CASE Answer
  BY <1>9 DEF Answer, RestTypes
<1>10. ASSUME NEW u \in uninstalls, UninstallStep(u)
       PROVE  RestTypes'
  <2>1. lost' = lost \/ Loses(u.model)
    BY <1>10 DEF UninstallStep, UninstallDiscards, UninstallUnlinks, UninstallDeletes,
                 UninstallDisables
  <2>2. lost' \in BOOLEAN
    BY <2>1 DEF Loses, RestTypes
  <2>3. enabled' \subseteq enabled
    BY <1>10 DEF UninstallStep, UninstallDiscards, UninstallUnlinks, UninstallDeletes,
                 UninstallDisables
  <2>4. UNCHANGED <<current, stopped, history, cancelled, flag, starts, removals>>
    BY <1>10 DEF UninstallStep, UninstallDiscards, UninstallUnlinks, UninstallDeletes,
                 UninstallDisables, UninstallOnly
  <2> QED BY <2>2, <2>3, <2>4 DEF RestTypes
<1>11. CASE AbortAll
  <2>1. cancelled' \in BOOLEAN /\ flag' \in BOOLEAN
    BY <1>11 DEF AbortAll
  <2> QED BY <1>11, <2>1 DEF AbortAll, RestTypes
<1>12. CASE AbortSaves \/ NextDiscard
  BY <1>12 DEF AbortSaves, NextDiscard, RestTypes
<1>13. CASE DiscardStep
  <2>1. lost' = lost \/ Loses(erasing)
    BY <1>13 DEF DiscardStep
  <2>2. lost' \in BOOLEAN
    BY <2>1 DEF Loses, RestTypes
  <2>3. UNCHANGED <<current, stopped, history, cancelled, flag, enabled, starts, removals>>
    BY <1>13 DEF DiscardStep
  <2> QED BY <2>2, <2>3 DEF RestTypes
<1>14. CASE Exit
  <2>1. <<>> \in Seq([id : 1..MaxJobs, state : Ended]) /\ Len(<<>>) <= HistoryLimit
    OBVIOUS
  <2> QED BY <1>14, <2>1 DEF Exit, RestTypes
<1>15. CASE Start
  <2>1. starts' \in 0..MaxStarts
    BY <1>15 DEF Start, StartOnly, RestTypes
  <2>2. UNCHANGED <<queueVars, jobVars, enabled, cancelled, removals>> /\ flag' = FALSE
    BY <1>15 DEF Start, StartOnly
  <2> QED BY <2>1, <2>2 DEF RestTypes
<1>16. CASE UNCHANGED vars
  BY <1>16 DEF vars, RestTypes
<1> QED BY <1>1, <1>2, <1>3, <1>4, <1>5, <1>6, <1>7, <1>8, <1>9, <1>10, <1>11, <1>12, <1>13, <1>14,
           <1>15, <1>16 DEF Next, WorkerStep

(* Every variable of the downloads has its type, for any catalogue; the       *)
(* registry and its file name only models of the catalogue, and the list of   *)
(* finished jobs never outgrows _HISTORY_LIMIT.                               *)
THEOREM TypeCorrect == Spec => []TypeOK
<1>1. Init => RestTypes
  <2> SUFFICES ASSUME Init PROVE RestTypes
    OBVIOUS
  <2>2. <<>> \in Seq([id : 1..MaxJobs, state : Ended]) /\ Len(<<>>) <= HistoryLimit
    BY DownloadsAssumption
  <2>3. 0 \in 0..MaxStarts /\ 0 \in 0..MaxRemovals
    BY DownloadsAssumption
  <2> QED BY <2>2, <2>3 DEF Init, RestTypes
<1>2. IInv /\ RestTypes /\ [Next]_vars => RestTypes'
  BY RestStep DEF IInv
<1>3. IInv /\ RestTypes => TypeOK
  BY DEF IInv, Types, RestTypes, TypeOK
<1> QED BY <1>1, <1>2, <1>3, Inductive, PTL DEF Spec
=============================================================================
